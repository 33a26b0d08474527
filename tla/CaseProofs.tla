------------------------------- MODULE CaseProofs -------------------------------
(***************************************************************************)
(* What the proofs about the engine need of rows, records, candidates,     *)
(* cases and cash, for any rows: nothing here is about a state of the run. *)
(*                                                                         *)
(* Records are typed; candidates join records; groups are what links       *)
(* connect, whatever the order of unions; what a case expects, what it     *)
(* failed and what is left of it are amounts that agree; cash, forecast    *)
(* and tax audit add up.                                                   *)
(***************************************************************************)
EXTENDS CashPosition, SumProofs

-------------------------------------------------------------------------------
(* Rows and records.                                                        *)

IssueCodes == {"MALFORMED_INPUT", "MISSING_REQUIRED_FIELD", "DUPLICATE_SOURCE_RECORD"}

\* What every record has, whatever its row was like.
IsRecord(r) ==
    /\ r.id \in Int /\ r.pos \in Nat /\ r.type \in TypeSet
    /\ r.amount \in Given(Int) /\ r.signed \in Given(Int)
    /\ r.amount # Null => r.signed \in Int
    /\ r.amount = 0 => r.signed = 0
    /\ r.day \in Given(Int) /\ r.due \in Given(Int)
    /\ r.event \in Given(Int) /\ r.settlement \in Given(Int)
    /\ r.issues \in Seq(IssueCodes)
    /\ r.issues = <<>> => r.amount # Null
    /\ r.type = "payments" /\ r.payment # Null => r.id = r.payment

AreRecords(S) == IsFiniteSet(S) /\ \A r \in S : IsRecord(r)

\* An amount is an integer once what is not given counts as nothing.
LEMMA OrZeroIsInt ==
    ASSUME NEW v \in Given(Int)
    PROVE  OrZero(v) \in Int
  BY DEF OrZero, Given

\* The source types and their numbers.
LEMMA Sources ==
    /\ TypeSet = {"orders", "payments", "settlements", "settlement_components",
                  "bank_transactions"}
    /\ \A t \in TypeSet : TypeNumber(t) \in 1..5 /\ SourceTypes[TypeNumber(t)] = t
  <1>1. TypeSet = {"orders", "payments", "settlements", "settlement_components",
                   "bank_transactions"}
    BY DEF TypeSet, SourceTypes
  <1>2. ASSUME NEW t \in TypeSet
        PROVE  TypeNumber(t) \in 1..5 /\ SourceTypes[TypeNumber(t)] = t
    <2>1. DOMAIN SourceTypes = 1..5
      BY DEF SourceTypes
    <2>2. \E k \in DOMAIN SourceTypes : SourceTypes[k] = t
      BY DEF TypeSet
    <2> QED BY <2>1, <2>2 DEF TypeNumber
  <1> QED BY <1>1, <1>2

\* Issues are added to issues.
LEMMA IssuesAdd ==
    ASSUME NEW p \in Seq(IssueCodes), NEW q \in Seq(IssueCodes)
    PROVE  /\ p \o q \in Seq(IssueCodes)
           /\ p \o q = <<>> => p = <<>> /\ q = <<>>
  <1>1. p \o q \in Seq(IssueCodes) /\ Len(p \o q) = Len(p) + Len(q)
    OBVIOUS
  <1>2. p \o q = <<>> => Len(p) = 0 /\ Len(q) = 0
    BY <1>1
  <1> QED BY <1>1, <1>2

\* The issues of a row, and what it means that it has none.
LEMMA RowIssueCodes ==
    ASSUME NEW file, NEW i, NEW row
    PROVE  /\ RowIssues(row) \in Seq(IssueCodes)
           /\ DuplicateIssues(file.rows, i) \in Seq(IssueCodes)
           /\ FileIssues(file) \in Seq(IssueCodes)
           /\ RowIssues(row) = <<>> => row.flaw = "none"
           /\ FileIssues(file) = <<>> => file.complete
  <1>0. \A c \in IssueCodes : <<c>> \in Seq(IssueCodes) /\ <<c>> # <<>>
    OBVIOUS
  <1>1. <<>> \in Seq(IssueCodes)
    OBVIOUS
  <1>2. RowIssues(row) \in {<<>>, <<"MALFORMED_INPUT">>} /\ (RowIssues(row) = <<>> => row.flaw = "none")
    BY DEF RowIssues
  <1>3. DuplicateIssues(file.rows, i) \in Seq(IssueCodes)
    <2> DEFINE p == IF \E j \in Others(file.rows, i) : SameSourceId(file.rows[j], file.rows[i])
                    THEN <<"DUPLICATE_SOURCE_RECORD">> ELSE <<>>
               q == IF \E j \in Others(file.rows, i) : RawValues(file.rows[j]) = RawValues(file.rows[i])
                    THEN <<"DUPLICATE_SOURCE_RECORD">> ELSE <<>>
    <2>1. p \in Seq(IssueCodes) /\ q \in Seq(IssueCodes)
      BY <1>0, <1>1 DEF IssueCodes
    <2>2. DuplicateIssues(file.rows, i) = p \o q
      BY DEF DuplicateIssues
    <2> HIDE DEF p, q
    <2> QED BY <2>1, <2>2, IssuesAdd
  <1>4. FileIssues(file) \in Seq(IssueCodes) /\ (FileIssues(file) = <<>> => file.complete)
    BY <1>0, <1>1 DEF FileIssues, IssueCodes
  <1> QED BY <1>0, <1>1, <1>2, <1>3, <1>4 DEF IssueCodes

\* What is read of one row of a file that can be uploaded.
LEMMA IngestedRowFields ==
    ASSUME NEW file \in SourceFile, NEW t \in TypeSet, NEW i \in DOMAIN file.rows
    PROVE  LET r == IngestedRow(file, t, i)
           IN  /\ r.raw \in SourceRow /\ r.type \in TypeSet /\ r.row \in Nat
               /\ r.issues \in Seq(IssueCodes)
               /\ r.issues = <<>> => r.raw.flaw = "none" /\ r.raw.amount # Null
  <1> DEFINE row == file.rows[i]
             more == IF file.complete THEN DuplicateIssues(file.rows, i) ELSE FileIssues(file)
  <1>1. row \in SourceRow /\ i \in Nat
    BY DEF SourceFile
  <1>2. DetectedType(file, t) \in TypeSet
    BY DEF SourceFile, DetectedType, Given
  <1>3. file.complete => (row.flaw = "none" => row.amount # Null)
    BY DEF SourceFile
  <1>4. /\ RowIssues(row) \in Seq(IssueCodes) /\ more \in Seq(IssueCodes)
        /\ RowIssues(row) = <<>> => row.flaw = "none"
        /\ more = <<>> => file.complete
    BY RowIssueCodes
  <1> DEFINE r == IngestedRow(file, t, i)
             own == RowIssues(row)
  <1>5. r.raw = row /\ r.type = DetectedType(file, t) /\ r.row = i + 1 /\ r.issues = own \o more
    BY DEF IngestedRow, RowNumber
  <1> HIDE DEF r, more, own
  <1>6. own \o more \in Seq(IssueCodes) /\ (own \o more = <<>> => own = <<>> /\ more = <<>>)
    BY <1>4, IssuesAdd DEF own
  <1>7. r.issues = <<>> => row.flaw = "none" /\ row.amount # Null
    BY <1>3, <1>4, <1>5, <1>6 DEF own
  <1> QED BY <1>1, <1>2, <1>5, <1>6, <1>7 DEF r

\* What is read of a row is normalized to a record of its type, at its place.
LEMMA RecordFields ==
    ASSUME NEW r, r.raw \in SourceRow, r.type \in TypeSet, r.row \in Nat,
           r.issues \in Seq(IssueCodes),
           r.issues = <<>> => r.raw.flaw = "none" /\ r.raw.amount # Null,
           NEW pos \in Nat
    PROVE  LET n == BuildNormalizedRecord(r, pos)
           IN  /\ IsRecord(n) /\ n.id = EntityId(r) /\ n.pos = pos
  <1> DEFINE raw == r.raw
             n == BuildNormalizedRecord(r, pos)
  <1>1. /\ raw.id \in Given(Nat) /\ raw.amount \in Given(Int) /\ raw.debit \in BOOLEAN
        /\ raw.day \in Given(Int) /\ raw.due \in Given(Int)
        /\ raw.event \in Given(Int) /\ raw.settlement \in Given(Int)
    BY DEF SourceRow, Given
  <1>2. EntityId(r) \in Int
    <2>1. PlaceId(r) \in Int
      <3> DEFINE k == TypeNumber(r.type)
                 m == r.row
      <3>1. k \in Int /\ m \in Int
        BY Sources
      <3>2. PlaceId(r) = -(10 * m + k)
        BY DEF PlaceId
      <3> HIDE DEF k, m
      <3> QED BY <3>1, <3>2
    <2> QED BY <1>1, <2>1 DEF EntityId, Given
  <1>3. /\ PrimaryAmount(raw) \in Given(Int) /\ SignedAmount(raw) \in Given(Int)
        /\ PrimaryAmount(raw) # Null => SignedAmount(raw) \in Int
        /\ PrimaryAmount(raw) = 0 => SignedAmount(raw) = 0
    BY <1>1, NullAssumption DEF PrimaryAmount, SignedAmount, Given
  <1>4. r.issues = <<>> => PrimaryAmount(raw) # Null
    BY DEF PrimaryAmount
  <1>5. /\ n.id = EntityId(r) /\ n.pos = pos /\ n.type = r.type /\ n.issues = r.issues
        /\ n.amount = PrimaryAmount(raw) /\ n.signed = SignedAmount(raw)
        /\ n.day \in {raw.day, Null} /\ n.due \in {raw.due, Null}
        /\ n.event = raw.event /\ n.settlement \in {raw.id, raw.settlement}
        /\ n.type = "payments" => n.payment = raw.id
    BY DEF BuildNormalizedRecord
  <1>7. raw.id # Null => EntityId(r) = raw.id
    BY DEF EntityId
  <1> HIDE DEF n, raw
  <1>6. IsRecord(n)
    BY <1>1, <1>2, <1>3, <1>4, <1>5, <1>7 DEF IsRecord, Given
  <1> QED BY <1>5, <1>6 DEF n

\* The files of a run make finitely many records, and each of them is one.
LEMMA RecordsOfFiles ==
    ASSUME NEW f \in [TypeSet -> SourceFile]
    PROVE  LET rows == UNION {IngestFile(f[t], t) : t \in TypeSet}
           IN  /\ AreRecords(NormalizeRecords(rows))
               /\ \A n \in NormalizeRecords(rows) : \E r \in rows : n.id = EntityId(r)
  <1> DEFINE rows == UNION {IngestFile(f[t], t) : t \in TypeSet}
             place == [r \in rows |-> Cardinality({q \in rows : ReadBefore(q, r)})]
             normalized == [r \in rows |-> BuildNormalizedRecord(r, place[r])]
  <1>1. ASSUME NEW t \in TypeSet PROVE IsFiniteSet(IngestFile(f[t], t))
    <2> DEFINE file == f[t]
               read == [i \in DOMAIN file.rows |-> IngestedRow(file, t, i)]
    <2>1. file.rows \in Seq(SourceRow)
      BY DEF SourceFile
    <2>2. DOMAIN file.rows = 1..Len(file.rows) /\ Len(file.rows) \in Nat
      BY <2>1
    <2>3. IsFiniteSet(DOMAIN file.rows)
      <3> DEFINE n == Len(file.rows)
      <3>1. n \in Int /\ DOMAIN file.rows = 1..n
        BY <2>2
      <3> HIDE DEF n
      <3>2. IsFiniteSet(1..n)
        BY <3>1, FS_Interval
      <3> QED BY <3>1, <3>2
    <2>4. IsFiniteSet({read[i] : i \in DOMAIN read})
      <3>1. DOMAIN read = DOMAIN file.rows
        OBVIOUS
      <3> HIDE DEF read
      <3> QED BY <2>3, <3>1, ImageIsFinite
    <2>5. IngestFile(file, t) = {read[i] : i \in DOMAIN read}
      BY DEF IngestFile
    <2> QED BY <2>4, <2>5
  <1>2. IsFiniteSet(rows)
    <2>1. rows = IngestFile(f["orders"], "orders") \cup (IngestFile(f["payments"], "payments")
                   \cup (IngestFile(f["settlements"], "settlements")
                   \cup (IngestFile(f["settlement_components"], "settlement_components")
                   \cup IngestFile(f["bank_transactions"], "bank_transactions"))))
      BY Sources
    <2> HIDE DEF rows
    <2> QED BY <1>1, <2>1, Sources, FS_Union
  <1>3. ASSUME NEW r \in rows
        PROVE  /\ r.raw \in SourceRow /\ r.type \in TypeSet /\ r.row \in Nat
               /\ r.issues \in Seq(IssueCodes)
               /\ r.issues = <<>> => r.raw.flaw = "none" /\ r.raw.amount # Null
    <2>1. PICK t \in TypeSet : \E i \in DOMAIN f[t].rows : r = IngestedRow(f[t], t, i)
      BY DEF IngestFile
    <2>2. PICK i \in DOMAIN f[t].rows : r = IngestedRow(f[t], t, i)
      BY <2>1
    <2>3. f[t] \in SourceFile
      OBVIOUS
    <2> QED BY <2>2, <2>3, IngestedRowFields
  <1>4. ASSUME NEW r \in rows PROVE place[r] \in Nat
    <2>1. {q \in rows : ReadBefore(q, r)} \subseteq rows
      OBVIOUS
    <2> HIDE DEF rows
    <2>2. IsFiniteSet({q \in rows : ReadBefore(q, r)})
      BY <1>2, <2>1, FS_Subset
    <2> QED BY <2>2, FS_CardinalityType
  <1>5. NormalizeRecords(rows) = {normalized[r] : r \in rows}
    BY DEF NormalizeRecords
  <1>6. ASSUME NEW n \in NormalizeRecords(rows)
        PROVE  IsRecord(n) /\ \E r \in rows : n.id = EntityId(r)
    <2>1. PICK r \in rows : n = BuildNormalizedRecord(r, place[r])
      BY <1>5
    <2> DEFINE pos == place[r]
    <2>2. pos \in Nat
      BY <1>4
    <2> HIDE DEF pos, rows
    <2> QED BY <1>3, <2>1, <2>2, RecordFields DEF pos
  <1>7. IsFiniteSet(NormalizeRecords(rows))
    <2>1. DOMAIN normalized = rows
      OBVIOUS
    <2> HIDE DEF normalized, rows
    <2> QED BY <1>2, <1>5, <2>1, ImageIsFinite
  <1> QED BY <1>6, <1>7 DEF AreRecords

\* Of finitely many records one is the last, and one comes first.
LEMMA LastRecord ==
    ASSUME NEW S, AreRecords(S), S # {}
    PROVE  \E r \in S : \A q \in S : q.pos <= r.pos
  <1> DEFINE Has(T) == \E r \in T : \A q \in T : q.pos <= r.pos
             P == {T \in SUBSET S : T # {} => Has(T)}
  <1>0. \A r \in S : r.pos \in Nat
    BY DEF AreRecords, IsRecord
  <1>1. ASSUME NEW T \in SUBSET S, NEW x \in T, T \ {x} \in P PROVE T \in P
    <2>1. CASE T \ {x} = {}
      <3>1. \A q \in T : q = x
        BY <2>1
      <3>2. \A q \in T : q.pos <= x.pos
        BY <1>0, <3>1
      <3> QED BY <3>2
    <2>2. CASE T \ {x} # {}
      <3>1. PICK r \in T \ {x} : \A q \in T \ {x} : q.pos <= r.pos
        BY <1>1, <2>2
      <3>2. CASE x.pos <= r.pos
        BY <3>1, <3>2
      <3>3. CASE ~(x.pos <= r.pos)
        <4>1. \A q \in T : q.pos <= x.pos
          BY <1>0, <3>1, <3>3
        <4> QED BY <4>1
      <3> QED BY <3>2, <3>3
    <2> QED BY <2>1, <2>2
  <1>2. SUBSET S \subseteq P
    <2> HIDE DEF P
    <2>1. {} \in P
      BY DEF P
    <2> QED BY <1>1, <2>1, OneByOne DEF AreRecords
  <1> QED BY <1>2

\* The first of some records is one of them.
LEMMA FirstOfRecords ==
    ASSUME NEW S, AreRecords(S), S # {}
    PROVE  FirstRecord(S) \in S
  <1> DEFINE Earlier(q, r) == Before(<<q.id, q.pos>>, <<r.id, r.pos>>)
             Has(T) == \E r \in T : \A q \in T : ~Earlier(q, r)
             P == {T \in SUBSET S : T # {} => Has(T)}
  <1>0. \A r \in S : r.id \in Int /\ r.pos \in Int
    BY DEF AreRecords, IsRecord
  <1>1. \A q, r \in S : Earlier(q, r) <=> q.id < r.id \/ (q.id = r.id /\ q.pos < r.pos)
    BY DEF Before
  <1> HIDE DEF Earlier
  <1>2. ASSUME NEW T \in SUBSET S, NEW x \in T, T \ {x} \in P PROVE T \in P
    <2>0. ~Earlier(x, x)
      BY <1>0, <1>1
    <2>1. CASE T \ {x} = {}
      <3>1. \A q \in T : q = x
        BY <2>1
      <3> QED BY <2>0, <3>1
    <2>2. CASE T \ {x} # {}
      <3>1. PICK r \in T \ {x} : \A q \in T \ {x} : ~Earlier(q, r)
        BY <1>2, <2>2
      <3>2. CASE ~Earlier(x, r)
        BY <3>1, <3>2
      <3>3. CASE Earlier(x, r)
        <4>1. \A q \in T \ {x} : ~Earlier(q, x)
          BY <1>0, <1>1, <3>1, <3>3
        <4> QED BY <2>0, <4>1
      <3> QED BY <3>2, <3>3
    <2> QED BY <2>1, <2>2
  <1>3. SUBSET S \subseteq P
    <2> HIDE DEF P
    <2>1. {} \in P
      BY DEF P
    <2> QED BY <1>2, <2>1, OneByOne DEF AreRecords
  <1>4. \E r \in S : \A q \in S : ~Before(<<q.id, q.pos>>, <<r.id, r.pos>>)
    BY <1>3 DEF Earlier
  <1> QED BY <1>4 DEF FirstRecord

\* The last record that has an identifier has it.
LEMMA LastWithIs ==
    ASSUME NEW S, AreRecords(S), NEW id, Known(S, id)
    PROVE  LastWith(S, id) \in S /\ LastWith(S, id).id = id
  <1> DEFINE T == {r \in S : r.id = id}
  <1>1. AreRecords(T) /\ T # {}
    BY FS_Subset DEF AreRecords, Known
  <1>2. PICK r \in T : \A q \in T : q.pos <= r.pos
    <2> HIDE DEF T
    <2> QED BY <1>1, LastRecord
  <1>3. \E x \in S : x.id = id /\ \A q \in S : q.id = id => q.pos <= x.pos
    BY <1>2
  <1> QED BY <1>3 DEF LastWith

-------------------------------------------------------------------------------
(* Cases.                                                                   *)

\* A sum over records, evidence or cases.
LEMMA SumOfAll ==
    ASSUME NEW f
    PROVE  SumFunction(f) = SumFunctionOnSet(f, DOMAIN f)
  BY DEF SumFunction

\* Cases divide the records: every record is in a case, and no identifier in two.
CasesDivide(C, rs) ==
    /\ IsFiniteSet(C)
    /\ \A c \in C : /\ c.records # {} /\ c.records \subseteq rs
                    /\ c.entities = {r.id : r \in c.records}
                    /\ \A r \in rs : r.id \in c.entities => r \in c.records
    /\ \A c, d \in C : c # d => c.entities \cap d.entities = {}
    /\ \A r \in rs : \E c \in C : r \in c.records

\* Groups share nothing, and every record is in one.
LEMMA GroupsDivide ==
    ASSUME NEW rs, NEW cs
    PROVE  /\ \A r \in rs : \E g \in CaseGroups(rs, cs) : r.id \in g
           /\ \A g, h \in CaseGroups(rs, cs) : g # h => g \cap h = {}
  <1> DEFINE ids == Identifiers(rs, cs)
             parent == Joined(rs, cs)
             root == [id \in ids |-> Root(parent, id)]
             group == [top \in ids |-> {id \in ids : root[id] = root[top]}]
  <1>1. CaseGroups(rs, cs) = {group[top] : top \in ids}
    BY DEF CaseGroups
  <1>2. \A r \in rs : r.id \in ids
    BY DEF Identifiers
  <1> HIDE DEF ids, root
  <1>3. ASSUME NEW r \in rs PROVE \E g \in CaseGroups(rs, cs) : r.id \in g
    <2>1. r.id \in ids /\ r.id \in group[r.id]
      BY <1>2
    <2> QED BY <1>1, <2>1
  <1>4. ASSUME NEW g \in CaseGroups(rs, cs), NEW h \in CaseGroups(rs, cs),
               NEW id, id \in g, id \in h
        PROVE  g = h
    <2>1. PICK a \in ids : g = group[a]
      BY <1>1
    <2>2. PICK b \in ids : h = group[b]
      BY <1>1
    <2>3. root[id] = root[a] /\ root[id] = root[b]
      BY <1>4, <2>1, <2>2
    <2> QED BY <2>1, <2>2, <2>3
  <1> QED BY <1>3, <1>4

\* The cases of a run divide its records.
LEMMA BuiltCases ==
    ASSUME NEW rs, IsFiniteSet(rs), NEW cs, NEW amb
    PROVE  CasesDivide(BuildCases(rs, cs, amb), rs)
  <1> DEFINE G == CaseGroups(rs, cs)
             C == BuildCases(rs, cs, amb)
             own(g) == {r \in rs : r.id \in g}
  <1>1. /\ \A r \in rs : \E g \in G : r.id \in g
        /\ \A g, h \in G : g # h => g \cap h = {}
    BY GroupsDivide
  <1>2. C = {BuildCase(g, rs, amb) : g \in {h \in G : \E r \in rs : r.id \in h}}
    BY DEF BuildCases
  <1>3. \A g : LET c == BuildCase(g, rs, amb)
              IN c.records = own(g) /\ c.entities = {r.id : r \in own(g)}
    BY DEF BuildCase
  <1> DEFINE case == [r \in rs |-> BuildCase(CHOOSE g \in G : r.id \in g, rs, amb)]
  <1>4. C = {case[r] : r \in rs}
    <2>1. ASSUME NEW g \in G, NEW r \in rs, r.id \in g
          PROVE  case[r] = BuildCase(g, rs, amb)
      <3>1. (CHOOSE h \in G : r.id \in h) = g
        BY <1>1, <2>1
      <3> QED BY <3>1
    <2> HIDE DEF G, C, case
    <2> QED BY <1>1, <1>2, <2>1
  <1>5. IsFiniteSet(C)
    <2>1. DOMAIN case = rs
      OBVIOUS
    <2> HIDE DEF C, case
    <2> QED BY <1>4, <2>1, ImageIsFinite
  <1>6. ASSUME NEW c \in C
        PROVE  /\ c.records # {} /\ c.records \subseteq rs
               /\ c.entities = {r.id : r \in c.records}
               /\ \A r \in rs : r.id \in c.entities => r \in c.records
    BY <1>2, <1>3
  <1>7. ASSUME NEW c \in C, NEW d \in C, c # d PROVE c.entities \cap d.entities = {}
    <2>1. PICK g \in G : c = BuildCase(g, rs, amb)
      BY <1>2
    <2>2. PICK h \in G : d = BuildCase(h, rs, amb)
      BY <1>2
    <2>3. c.entities \subseteq g /\ d.entities \subseteq h /\ g # h
      BY <1>3, <1>7, <2>1, <2>2
    <2> QED BY <1>1, <2>3
  <1>8. ASSUME NEW r \in rs PROVE \E c \in C : r \in c.records
    BY <1>1, <1>2, <1>3
  <1> HIDE DEF C
  <1> QED BY <1>5, <1>6, <1>7, <1>8 DEF CasesDivide, C

\* Verification reads a case and adds to it.
LEMMA VerifiedFields ==
    ASSUME NEW c, NEW es, NEW over
    PROVE  LET v == VerifiedCase(c, es, over)
           IN  /\ v.id = c.id /\ v.records = c.records /\ v.entities = c.entities
               /\ v.ambiguous = c.ambiguous /\ v.gross = c.gross /\ v.net = c.net
               /\ v.failed = VerifyCase(c, es, over)
               /\ v.state = ClassifyCase(c, es, v.failed)[1]
               /\ v.code = ClassifyCase(c, es, v.failed)[2]
               /\ v.residual = Residual(c, es)
               /\ v.bucket = CashBucketForCase(v.state, v.code)
               /\ v.atRisk = AmountAtRisk(c, v.residual)
  BY DEF VerifiedCase

\* So do the cases once they are verified.
LEMMA VerifiedDivide ==
    ASSUME NEW C, NEW rs, CasesDivide(C, rs), NEW es, NEW over
    PROVE  CasesDivide({VerifiedCase(c, es, over) : c \in C}, rs)
  <1> DEFINE f == [c \in C |-> VerifiedCase(c, es, over)]
             V == {VerifiedCase(c, es, over) : c \in C}
  <1>1. V = {f[c] : c \in C}
    OBVIOUS
  <1>2. \A c \in C : f[c].records = c.records /\ f[c].entities = c.entities
    BY VerifiedFields
  <1>3. IsFiniteSet(V)
    <2>1. IsFiniteSet(DOMAIN f) /\ V = {f[c] : c \in DOMAIN f}
      BY <1>1 DEF CasesDivide
    <2> HIDE DEF f, V
    <2> QED BY <2>1, ImageIsFinite
  <1> SUFFICES CasesDivide(V, rs)
    OBVIOUS
  <1> HIDE DEF f, V
  <1>4. ASSUME NEW v \in V
        PROVE  /\ v.records # {} /\ v.records \subseteq rs
               /\ v.entities = {r.id : r \in v.records}
               /\ \A r \in rs : r.id \in v.entities => r \in v.records
    <2>1. PICK c \in C : v = f[c]
      BY <1>1
    <2>2. v.records = c.records /\ v.entities = c.entities
      BY <1>2, <2>1
    <2> QED BY <2>2 DEF CasesDivide
  <1>5. ASSUME NEW v \in V, NEW w \in V, v # w PROVE v.entities \cap w.entities = {}
    BY <1>1, <1>2, <1>5 DEF CasesDivide
  <1>6. ASSUME NEW r \in rs PROVE \E v \in V : r \in v.records
    BY <1>1, <1>2 DEF CasesDivide
  <1> QED BY <1>3, <1>4, <1>5, <1>6 DEF CasesDivide

\* What is built and verified: the amounts of a case are those of its records, and its
\* state, code and bucket are those its invariants and its evidence give it.
IsBuilt(c) ==
    /\ c.gross = Total(c.records, "orders")
    /\ c.net = IF c.ambiguous = {} THEN Total(c.records, "settlements") ELSE 0

\* What _build_cases makes of a group.
LEMMA CasesAreBuilt ==
    ASSUME NEW rs, NEW cs, NEW amb, NEW c \in BuildCases(rs, cs, amb)
    PROVE  /\ IsBuilt(c)
           /\ \E group : c.ambiguous = Within(group, amb)
  <1>1. PICK group : c = BuildCase(group, rs, amb)
    BY DEF BuildCases
  <1> DEFINE own == {r \in rs : r.id \in group}
             tied == Within(group, amb)
  <1>2. /\ c.records = own /\ c.ambiguous = tied /\ c.gross = Total(own, "orders")
        /\ c.net = IF tied = {} THEN Total(own, "settlements") ELSE 0
    BY <1>1 DEF BuildCase
  <1> HIDE DEF own, tied
  <1>3. IsBuilt(c)
    BY <1>2 DEF IsBuilt
  <1> QED BY <1>2, <1>3 DEF tied

\* A reconciled case fails no invariant, and only such a case is confirmed cash.
LEMMA ReconciledCase ==
    ASSUME NEW c, NEW es, NEW over
    PROVE  LET v == VerifiedCase(c, es, over)
           IN  /\ v.bucket = "BANK_CONFIRMED" <=> v.state = "RECONCILED"
               /\ v.state = "RECONCILED" =>
                     /\ ~IsInvalid(c) /\ c.ambiguous = {} /\ HasCompleteEvidence(c, es)
                     /\ v.failed = {} /\ v.code = NoCode
  <1> DEFINE v == VerifiedCase(c, es, over)
             failed == VerifyCase(c, es, over)
  <1>1. /\ v.failed = failed
        /\ v.state = ClassifyCase(c, es, failed)[1] /\ v.code = ClassifyCase(c, es, failed)[2]
        /\ v.bucket = CashBucketForCase(v.state, v.code)
    BY VerifiedFields
  <1> HIDE DEF v, failed
  <1>2. v.state = "RECONCILED" =>
           ~IsInvalid(c) /\ c.ambiguous = {} /\ HasCompleteEvidence(c, es)
             /\ failed = {} /\ v.code = NoCode
    BY <1>1 DEF ClassifyCase
  <1>3. v.bucket = "BANK_CONFIRMED" <=> v.state = "RECONCILED"
    BY <1>1 DEF CashBucketForCase
  <1> QED BY <1>1, <1>2, <1>3 DEF v

\* INV-004 and INV-005, when they hold.
LEMMA HeldInvariants ==
    ASSUME NEW c, NEW es, NEW over, VerifyCase(c, es, over) = {}
    PROVE  /\ \A s \in Settlements(c) : Allocated(ReceiptsOf(c, es, s)) = OrZero(s.amount)
           /\ Allocated(EdgesOf(c, es, "settlement_bank")) = Total(c.records, "settlements")
  <1>1. ~Fails("INV-004", c, es, over) /\ ~Fails("INV-005", c, es, over)
    BY DEF VerifyCase, Invariants
  <1> QED BY <1>1 DEF Fails

-------------------------------------------------------------------------------
(* Candidates.                                                              *)

\* A receipt that may be evidence names a settlement of exactly its amount.
LEMMA BankCandidate ==
    ASSUME NEW rs, AreRecords(rs), NEW c \in GenerateCandidates(rs),
           c.relationship = "settlement_bank"
    PROVE  \E s \in OfType(rs, "settlements"), b \in OfType(rs, "bank_transactions") :
              /\ c.source = s.id /\ c.target = b.id /\ c.amount = OrZero(b.signed)
              /\ c.amount \in Int /\ c.reasons = BankReasons(s, b)
  <1>1. c \in BankCandidates(rs)
    <2>1. \A d \in OrderPaymentCandidates(rs) : d.relationship = "order_payment"
      <3> SUFFICES ASSUME NEW d \in OrderPaymentCandidates(rs)
                   PROVE  d.relationship = "order_payment"
        OBVIOUS
      <3>1. PICK q : \E amount, reasons, place :
               d = Candidate(q[1], q[2], "order_payment", "exact_order_payment", amount, reasons, place)
        BY DEF OrderPaymentCandidates
      <3> QED BY <3>1 DEF Candidate
    <2>2. \A d \in MembershipCandidates(rs) : d.relationship = "payment_settlement"
      BY DEF MembershipCandidates, Candidate
    <2> QED BY <2>1, <2>2 DEF GenerateCandidates, FirstOfEach
  <1>2. PICK q \in OfType(rs, "settlements") \X OfType(rs, "bank_transactions") :
           \E rule \in BankRules(q[1], q[2], BankReasons(q[1], q[2])) :
              c = Candidate(q[1], q[2], "settlement_bank", rule, OrZero(q[2].signed),
                            BankReasons(q[1], q[2]), <<q[1].pos, q[2].pos>>)
    BY <1>1 DEF BankCandidates
  <1>3. OrZero(q[2].signed) \in Int
    BY OrZeroIsInt DEF AreRecords, IsRecord, OfType
  <1> QED BY <1>2, <1>3 DEF Candidate

\* A receipt without a reason against it has the amount of a settlement.
LEMMA SupportedReceipt ==
    ASSUME NEW rs, AreRecords(rs), NEW c \in GenerateCandidates(rs),
           c.relationship = "settlement_bank", c.reasons = {}
    PROVE  /\ c.amount \in Int
           /\ \E s \in OfType(rs, "settlements") : s.id = c.source /\ s.amount = c.amount
           /\ \E b \in OfType(rs, "bank_transactions") : b.id = c.target /\ b.signed = c.amount
  <1>1. PICK s \in OfType(rs, "settlements"), b \in OfType(rs, "bank_transactions") :
           /\ c.source = s.id /\ c.target = b.id /\ c.amount = OrZero(b.signed)
           /\ c.amount \in Int /\ c.reasons = BankReasons(s, b)
    BY BankCandidate
  <1>2. s.amount # Null /\ s.amount = b.signed
    BY <1>1 DEF BankReasons, AmountMatches
  <1> QED BY <1>1, <1>2 DEF OrZero

\* What kinds of records a relationship joins.
EndTypes == [order_payment |-> <<"orders", "payments">>,
             payment_settlement |-> <<"payments", "settlements">>,
             settlement_bank |-> <<"settlements", "bank_transactions">>]

CandidateFields == {"source", "target", "relationship", "rule", "amount", "reasons", "place"}

JoinsRecords(c, rs) ==
    /\ DOMAIN c = CandidateFields
    /\ c.relationship \in Relationships /\ c.amount \in Int
    /\ c.place[1] \in Int /\ c.place[2] \in Int
    /\ \E k \in DOMAIN Rules : c.rule = Rules[k].rule
    /\ \E l, r \in rs : /\ c.source = l.id /\ c.target = r.id
                        /\ l.type = EndTypes[c.relationship][1]
                        /\ r.type = EndTypes[c.relationship][2]

\* Candidates of orders and payments,
LEMMA OrderPaymentJoins ==
    ASSUME NEW rs, AreRecords(rs), NEW c \in OrderPaymentCandidates(rs)
    PROVE  JoinsRecords(c, rs)
  <1>1. PICK q \in OfType(rs, "orders") \X OfType(rs, "payments") : \E reasons :
           c = Candidate(q[1], q[2], "order_payment", "exact_order_payment",
                         IF OrZero(q[2].amount) # 0 THEN q[2].amount ELSE OrZero(q[1].amount),
                         reasons, <<q[1].pos, q[2].pos>>)
    BY DEF OrderPaymentCandidates
  <1>2. /\ q[1] \in rs /\ q[1].type = "orders" /\ OrZero(q[1].amount) \in Int
        /\ q[2] \in rs /\ q[2].type = "payments" /\ OrZero(q[2].amount) \in Int
        /\ q[1].pos \in Int /\ q[2].pos \in Int
    BY OrZeroIsInt DEF OfType, AreRecords, IsRecord
  <1>3. OrZero(q[2].amount) # 0 => q[2].amount \in Int
    BY <1>2 DEF OrZero
  <1>4. /\ c.relationship = "order_payment" /\ c.rule = "exact_order_payment"
        /\ c.amount \in Int /\ c.source = q[1].id /\ c.target = q[2].id
        /\ c.place = <<q[1].pos, q[2].pos>> /\ DOMAIN c = CandidateFields
    BY <1>1, <1>2, <1>3 DEF Candidate, CandidateFields
  <1>5. 1 \in DOMAIN Rules /\ Rules[1].rule = "exact_order_payment"
    BY DEF Rules
  <1> QED BY <1>2, <1>4, <1>5 DEF JoinsRecords, EndTypes, Relationships

\* of payments and settlements,
LEMMA MembershipJoins ==
    ASSUME NEW rs, AreRecords(rs), NEW c \in MembershipCandidates(rs)
    PROVE  JoinsRecords(c, rs)
  <1> DEFINE pays == Named(rs, "payments")
             sets == Named(rs, "settlements")
  <1>1. PICK m \in Memberships(rs) :
           /\ Known(pays, m[1]) /\ Known(sets, m[2])
           /\ m[1] \in Int /\ m[2] \in Int
           /\ \E reasons : c = Candidate(LastWith(pays, m[1]), LastWith(sets, m[2]),
                                         "payment_settlement", "settlement_membership",
                                         MembershipNet(rs, m), reasons, m)
    <2>1. \A m \in Memberships(rs) : m[1] \in Int /\ m[2] \in Int
      BY DEF Memberships, OfType, AreRecords, IsRecord, Given
    <2> QED BY <2>1 DEF MembershipCandidates
  <1>2. AreRecords(pays) /\ AreRecords(sets)
    BY FS_Subset DEF Named, OfType, AreRecords
  <1>3. LastWith(pays, m[1]) \in pays /\ LastWith(sets, m[2]) \in sets
    <2> HIDE DEF pays, sets
    <2> QED BY <1>1, <1>2, LastWithIs
  <1>4. MembershipNet(rs, m) \in Int
    <2> DEFINE X == {k \in OfType(rs, "settlement_components") :
                        <<k.event, k.settlement>> = m /\ k.signed # Null}
               f == [k \in X |-> k.signed]
    <2>1. IsFiniteSet(X) /\ \A k \in X : f[k] \in Int
      BY FS_Subset DEF OfType, AreRecords, IsRecord, Given
    <2>2. MembershipNet(rs, m) = SumFunction(f) /\ DOMAIN f = X
      BY DEF MembershipNet
    <2> HIDE DEF f, X
    <2> QED BY <2>1, <2>2, SumOfAll, SumIsInt
  <1>5. /\ c.relationship = "payment_settlement" /\ c.rule = "settlement_membership"
        /\ c.amount = MembershipNet(rs, m)
        /\ c.source = LastWith(pays, m[1]).id /\ c.target = LastWith(sets, m[2]).id
        /\ c.place = m /\ DOMAIN c = CandidateFields
    <2> HIDE DEF pays, sets
    <2> QED BY <1>1 DEF Candidate, CandidateFields
  <1>6. /\ LastWith(pays, m[1]) \in rs /\ LastWith(pays, m[1]).type = "payments"
        /\ LastWith(sets, m[2]) \in rs /\ LastWith(sets, m[2]).type = "settlements"
    BY <1>3 DEF Named, OfType
  <1>7. 2 \in DOMAIN Rules /\ Rules[2].rule = "settlement_membership"
    BY DEF Rules
  <1> HIDE DEF pays, sets
  <1> QED BY <1>1, <1>4, <1>5, <1>6, <1>7 DEF JoinsRecords, EndTypes, Relationships

\* and of settlements and receipts, join records.
LEMMA BankJoins ==
    ASSUME NEW rs, AreRecords(rs), NEW c \in BankCandidates(rs)
    PROVE  JoinsRecords(c, rs)
  <1>1. PICK q \in OfType(rs, "settlements") \X OfType(rs, "bank_transactions") :
           \E rule \in BankRules(q[1], q[2], BankReasons(q[1], q[2])) :
              c = Candidate(q[1], q[2], "settlement_bank", rule, OrZero(q[2].signed),
                            BankReasons(q[1], q[2]), <<q[1].pos, q[2].pos>>)
    BY DEF BankCandidates
  <1>2. /\ q[1] \in rs /\ q[1].type = "settlements"
        /\ q[2] \in rs /\ q[2].type = "bank_transactions" /\ OrZero(q[2].signed) \in Int
        /\ q[1].pos \in Int /\ q[2].pos \in Int
    BY OrZeroIsInt DEF OfType, AreRecords, IsRecord
  <1>3. /\ c.relationship = "settlement_bank" /\ c.amount \in Int
        /\ c.source = q[1].id /\ c.target = q[2].id
        /\ c.rule \in {"settlement_utr_bank", "bank_reference_amount_date",
                      "unique_exact_amount_window"}
        /\ c.place = <<q[1].pos, q[2].pos>> /\ DOMAIN c = CandidateFields
    BY <1>1, <1>2 DEF Candidate, BankRules, CandidateFields
  <1>4. /\ DOMAIN Rules = 1..5 /\ Rules[3].rule = "settlement_utr_bank"
        /\ Rules[4].rule = "bank_reference_amount_date"
        /\ Rules[5].rule = "unique_exact_amount_window"
    BY DEF Rules
  <1>5. \E k \in DOMAIN Rules : c.rule = Rules[k].rule
    BY <1>3, <1>4
  <1> QED BY <1>2, <1>3, <1>5 DEF JoinsRecords, EndTypes, Relationships

\* A candidate joins two records of the kinds of its relationship by an amount.
LEMMA CandidatesJoinRecords ==
    ASSUME NEW rs, AreRecords(rs), NEW c \in GenerateCandidates(rs)
    PROVE  JoinsRecords(c, rs)
  BY OrderPaymentJoins, MembershipJoins, BankJoins DEF GenerateCandidates, FirstOfEach

\* A function of finitely many things has finitely many values.
LEMMA ValuesAreFinite ==
    ASSUME NEW S, IsFiniteSet(S), NEW T, NEW f, \A y \in T : \E x \in S : y = f[x]
    PROVE  IsFiniteSet(T)
  <1> DEFINE g == [x \in S |-> f[x]]
  <1>1. IsFiniteSet({g[x] : x \in DOMAIN g})
    <2>1. DOMAIN g = S
      OBVIOUS
    <2> HIDE DEF g
    <2> QED BY <2>1, ImageIsFinite
  <1>2. T \subseteq {g[x] : x \in DOMAIN g}
    OBVIOUS
  <1> HIDE DEF g
  <1> QED BY <1>1, <1>2, FS_Subset

\* Finitely many records make finitely many candidates.
LEMMA CandidatesAreFinite ==
    ASSUME NEW rs, IsFiniteSet(rs)
    PROVE  IsFiniteSet(GenerateCandidates(rs))
  <1>1. \A t : IsFiniteSet(OfType(rs, t))
    BY FS_Subset DEF OfType
  <1>2. IsFiniteSet(OrderPaymentCandidates(rs))
    <2> DEFINE S == OfType(rs, "orders") \X OfType(rs, "payments")
               f == [q \in S |->
                       LET o == q[1]
                           p == q[2]
                       IN  Candidate(o, p, "order_payment", "exact_order_payment",
                   IF OrZero(p.amount) # 0 THEN p.amount ELSE OrZero(o.amount),
                   PartyReasons(o, p) \cup (IF AmountMatches(o.amount, p.amount)
                                               THEN {} ELSE {"amount mismatch"}),
                   <<o.pos, p.pos>>)]
    <2>1. IsFiniteSet(S)
      BY <1>1, FS_Product
    <2>2. \A y \in OrderPaymentCandidates(rs) : \E x \in S : y = f[x]
      BY DEF OrderPaymentCandidates
    <2> HIDE DEF S, f
    <2> QED BY <2>1, <2>2, ValuesAreFinite
  <1>3. IsFiniteSet(MembershipCandidates(rs))
    <2> DEFINE pays == Named(rs, "payments")
               sets == Named(rs, "settlements")
               S == OfType(rs, "settlement_components")
               f == [k \in S |->
                       LET m == <<k.event, k.settlement>>
                           p == LastWith(pays, m[1])
                           s == LastWith(sets, m[2])
                       IN  Candidate(p, s, "payment_settlement", "settlement_membership",
                                     MembershipNet(rs, m), PartyReasons(p, s), m)]
    <2>1. ASSUME NEW y \in MembershipCandidates(rs)
          PROVE  \E x \in S : y = f[x]
      <3>1. PICK m \in Memberships(rs) :
               LET p == LastWith(pays, m[1])
                   s == LastWith(sets, m[2])
               IN  y = Candidate(p, s, "payment_settlement", "settlement_membership",
                                 MembershipNet(rs, m), PartyReasons(p, s), m)
        BY DEF MembershipCandidates
      <3>2. PICK k \in S : m = <<k.event, k.settlement>>
        BY DEF Memberships
      <3> HIDE DEF pays, sets, S
      <3> QED BY <3>1, <3>2
    <2> HIDE DEF S, f
    <2> QED BY <1>1, <2>1, ValuesAreFinite DEF S
  <1>4. IsFiniteSet(BankCandidates(rs))
    <2> DEFINE R == {"settlement_utr_bank", "bank_reference_amount_date",
                     "unique_exact_amount_window"}
               Q == OfType(rs, "settlements") \X OfType(rs, "bank_transactions")
               S == Q \X R
               f == [x \in S |-> Candidate(x[1][1], x[1][2], "settlement_bank", x[2],
                                           OrZero(x[1][2].signed),
                                           BankReasons(x[1][1], x[1][2]),
                                           <<x[1][1].pos, x[1][2].pos>>)]
    <2>1. IsFiniteSet(R)
      <3> DEFINE one == {"settlement_utr_bank"}
                 two == {"bank_reference_amount_date"}
                 three == {"unique_exact_amount_window"}
      <3>1. R = one \cup two \cup three
        OBVIOUS
      <3>2. IsFiniteSet(one) /\ IsFiniteSet(two) /\ IsFiniteSet(three)
        BY FS_Singleton
      <3> HIDE DEF R, one, two, three
      <3>3. IsFiniteSet(one \cup two)
        BY <3>2, FS_Union
      <3> QED BY <3>1, <3>2, <3>3, FS_Union
    <2>2. IsFiniteSet(S)
      <3>1. IsFiniteSet(Q)
        BY <1>1, FS_Product
      <3> HIDE DEF Q, R
      <3> QED BY <2>1, <3>1, FS_Product
    <2>3. ASSUME NEW y \in BankCandidates(rs)
          PROVE  \E x \in S : y = f[x]
      <3>1. PICK q \in Q : \E rule \in BankRules(q[1], q[2], BankReasons(q[1], q[2])) :
               y = Candidate(q[1], q[2], "settlement_bank", rule, OrZero(q[2].signed),
                             BankReasons(q[1], q[2]), <<q[1].pos, q[2].pos>>)
        BY DEF BankCandidates
      <3>2. PICK rule \in R :
               y = Candidate(q[1], q[2], "settlement_bank", rule, OrZero(q[2].signed),
                             BankReasons(q[1], q[2]), <<q[1].pos, q[2].pos>>)
        BY <3>1 DEF BankRules
      <3>3. <<q, rule>> \in S /\ y = f[<<q, rule>>]
        <4> HIDE DEF Q, R
        <4> QED BY <3>2
      <3> QED BY <3>3
    <2> HIDE DEF S, f
    <2> QED BY <2>2, <2>3, ValuesAreFinite
  <1>5. IsFiniteSet(OrderPaymentCandidates(rs) \cup MembershipCandidates(rs)
                      \cup BankCandidates(rs))
    BY <1>2, <1>3, <1>4, FS_Union
  <1>6. GenerateCandidates(rs) \subseteq OrderPaymentCandidates(rs)
                      \cup MembershipCandidates(rs) \cup BankCandidates(rs)
    BY DEF GenerateCandidates, FirstOfEach
  <1> QED BY <1>5, <1>6, FS_Subset

-------------------------------------------------------------------------------
(* The disjoint set.                                                        *)

\* Every identifier has a root: going from parent to parent ends there.  That it ends
\* is said by what does not change along the way: it is the same at the root.
IsForest(p, root, D) ==
    /\ p \in [D -> D] /\ root \in [D -> D]
    /\ \A x \in D : /\ p[root[x]] = root[x]
                    /\ root[x] = IF p[x] = x THEN x ELSE root[p[x]]
    /\ \A h : (\A x \in D : p[x] # x => h[x] = h[p[x]]) => \A x \in D : h[x] = h[root[x]]

\* Looking for the root finds it.
LEMMA RootIs ==
    ASSUME NEW D, NEW p, NEW root, IsForest(p, root, D), NEW id \in D
    PROVE  Root(p, id) = root[id]
  <1> DEFINE Find(f) == [x \in D |-> IF p[x] = x THEN x ELSE f[p[x]]]
             find == CHOOSE f : f = Find(f)
  <1>1. DOMAIN p = D /\ root = Find(root)
    BY DEF IsForest
  <1>2. Root(p, id) = find[id]
    BY <1>1 DEF Root
  <1>3. find = Find(find)
    BY <1>1
  <1> HIDE DEF find
  <1>4. \A x \in D : p[x] # x => find[x] = find[p[x]]
    BY <1>3
  <1>5. find[id] = find[root[id]]
    BY <1>4 DEF IsForest
  <1>6. root[id] \in D /\ p[root[id]] = root[id]
    BY DEF IsForest
  <1>7. find[root[id]] = root[id]
    BY <1>3, <1>6
  <1> QED BY <1>2, <1>5, <1>7

\* Joining two trees leaves a forest, in which the root of the one has become the root
\* of both.
LEMMA UnionIs ==
    ASSUME NEW D, NEW p, NEW root, IsForest(p, root, D),
           NEW link, link[1] \in D, link[2] \in D
    PROVE  IsForest(Union(p, link),
                    [x \in D |-> IF root[x] = root[link[2]] THEN root[link[1]] ELSE root[x]], D)
  <1> DEFINE left == root[link[1]]
             right == root[link[2]]
             q == [p EXCEPT ![right] = left]
             top == [x \in D |-> IF root[x] = right THEN left ELSE root[x]]
  <1>1. Union(p, link) = q
    <2>1. Root(p, link[1]) = left /\ Root(p, link[2]) = right
      BY RootIs
    <2> HIDE DEF left, right
    <2> QED BY <2>1 DEF Union
  <1>2. /\ left \in D /\ right \in D /\ p[left] = left /\ p[right] = right
        /\ root[left] = left /\ root[right] = right
        /\ p \in [D -> D] /\ root \in [D -> D]
    BY DEF IsForest
  <1>3. \A x \in D : /\ root[x] \in D /\ p[root[x]] = root[x]
                     /\ root[x] = IF p[x] = x THEN x ELSE root[p[x]]
    BY DEF IsForest
  <1> HIDE DEF left, right
  <1>4. q \in [D -> D] /\ \A x \in D : q[x] = IF x = right THEN left ELSE p[x]
    BY <1>2
  <1>5. top \in [D -> D] /\ \A x \in D : top[x] = IF root[x] = right THEN left ELSE root[x]
    BY <1>2
  <1>6. ASSUME NEW x \in D
        PROVE  q[top[x]] = top[x] /\ top[x] = IF q[x] = x THEN x ELSE top[q[x]]
    <2> HIDE DEF q, top
    <2>1. q[top[x]] = top[x]
      BY <1>2, <1>3, <1>4, <1>5
    <2>2. CASE x = right
      BY <1>2, <1>4, <1>5, <2>2
    <2>3. CASE x # right /\ p[x] = x
      BY <1>2, <1>3, <1>4, <1>5, <2>3
    <2>4. CASE x # right /\ p[x] # x
      <3>1. q[x] = p[x] /\ p[x] \in D /\ root[x] = root[p[x]]
        BY <1>2, <1>3, <1>4, <2>4
      <3> QED BY <1>5, <2>1, <2>4, <3>1
    <2> QED BY <2>1, <2>2, <2>3, <2>4
  <1>7. ASSUME NEW h, \A x \in D : q[x] # x => h[x] = h[q[x]], NEW x \in D
        PROVE  h[x] = h[top[x]]
    <2> HIDE DEF q, top
    <2>1. \A y \in D : p[y] # y => h[y] = h[p[y]]
      BY <1>2, <1>4, <1>7
    <2>2. h[x] = h[root[x]]
      BY <2>1 DEF IsForest
    <2>3. h[right] = h[left]
      BY <1>2, <1>4, <1>7
    <2> QED BY <1>5, <2>2, <2>3
  <1> HIDE DEF q, top
  <1>8. IsForest(q, top, D)
    BY <1>4, <1>5, <1>6, <1>7 DEF IsForest
  <1> QED BY <1>1, <1>8 DEF top, left, right

\* p joins what links connect, and nothing else: a set that no link leads out of has
\* with an identifier its root.
Closed(A, links) == \A l \in links : l[1] \in A <=> l[2] \in A
Connects(p, root, links, D) ==
    /\ IsForest(p, root, D)
    /\ \A l \in links : root[l[1]] = root[l[2]]
    /\ \A A \in SUBSET D : Closed(A, links) => \A x \in D : x \in A <=> root[x] \in A

\* Without links every identifier is its own root.
LEMMA NothingConnects ==
    ASSUME NEW D
    PROVE  Connects([x \in D |-> x], [x \in D |-> x], {}, D)
  <1> DEFINE p == [x \in D |-> x]
  <1>1. p \in [D -> D] /\ \A x \in D : p[x] = x
    OBVIOUS
  <1> HIDE DEF p
  <1> QED BY <1>1 DEF Connects, IsForest

\* A union connects what the links so far and its link connect.
LEMMA UnionConnects ==
    ASSUME NEW D, NEW links, NEW link \in links, NEW p, NEW root,
           \A l \in links : l[1] \in D /\ l[2] \in D,
           Connects(p, root, links \ {link}, D)
    PROVE  \E top : Connects(Union(p, link), top, links, D)
  <1> DEFINE q == Union(p, link)
             left == root[link[1]]
             right == root[link[2]]
             top == [x \in D |-> IF root[x] = right THEN left ELSE root[x]]
             rest == links \ {link}
  <1>0. link[1] \in D /\ link[2] \in D
    OBVIOUS
  <1>1. IsForest(q, top, D)
    BY <1>0, UnionIs DEF Connects
  <1> HIDE DEF q
  <1>2. \A x \in D : top[x] = IF root[x] = right THEN left ELSE root[x]
    OBVIOUS
  <1> HIDE DEF top
  <1>3. \A l \in links : top[l[1]] = top[l[2]]
    <2>1. \A l \in rest : root[l[1]] = root[l[2]]
      BY DEF Connects
    <2>2. top[link[1]] = left /\ top[link[2]] = left
      BY <1>0, <1>2
    <2> QED BY <1>2, <2>1, <2>2
  <1>4. ASSUME NEW A \in SUBSET D, Closed(A, links), NEW x \in D
        PROVE  x \in A <=> top[x] \in A
    <2>1. Closed(A, rest)
      BY <1>4 DEF Closed
    <2>2. \A y \in D : y \in A <=> root[y] \in A
      BY <2>1 DEF Connects
    <2>3. left \in A <=> right \in A
      BY <1>0, <1>4, <2>2 DEF Closed
    <2> QED BY <1>2, <2>2, <2>3
  <1> QED BY <1>1, <1>3, <1>4 DEF Connects, q

-------------------------------------------------------------------------------
(* Joining one link after the other.                                        *)

JoinStep(D, g, s) == IF s = {} THEN [x \in D |-> x] ELSE Union(g[s \ {Pick(s)}], Pick(s))
IsJoin(D, g, links) == g = [s \in SUBSET links |-> JoinStep(D, g, s)]

\* The union-find of the links is what a function that joins every subset makes of all.
LEMMA JoinedIsOneOf ==
    ASSUME NEW rs, NEW cs,
           \E g : IsJoin(Identifiers(rs, cs), g, GivenLinks(rs, cs))
    PROVE  \E g : /\ IsJoin(Identifiers(rs, cs), g, GivenLinks(rs, cs))
                  /\ Joined(rs, cs) = g[GivenLinks(rs, cs)]
  BY DEF Joined, FoldSet, MapThenFoldSet, IsJoin, JoinStep, Pick

\* There is such a function for finitely many links.
LEMMA JoinExists ==
    ASSUME NEW D, NEW S, IsFiniteSet(S)
    PROVE  \E g : IsJoin(D, g, S)
  <1> DEFINE Good(g, n) == \A s \in SUBSET S : Cardinality(s) <= n => g[s] = JoinStep(D, g, s)
             P == {n \in Nat : \E g : Good(g, n)}
  <1>0. \A s \in SUBSET S : /\ IsFiniteSet(s) /\ Cardinality(s) \in Nat
                            /\ Cardinality(s) = 0 <=> s = {}
                            /\ s # {} => /\ s \ {Pick(s)} \in SUBSET S
                                         /\ Cardinality(s \ {Pick(s)}) = Cardinality(s) - 1
    BY FS_Subset, FS_CardinalityType, FS_EmptySet, FS_RemoveElement DEF Pick
  <1>1. 0 \in P
    <2> DEFINE g == [s \in SUBSET S |-> [x \in D |-> x]]
    <2>1. ASSUME NEW s \in SUBSET S, Cardinality(s) <= 0 PROVE g[s] = JoinStep(D, g, s)
      <3>1. IsFiniteSet(s) /\ Cardinality(s) \in Nat
        BY <1>0
      <3>2. s = {}
        BY <2>1, <3>1, FS_EmptySet
      <3> QED BY <3>2 DEF JoinStep
    <2>2. Good(g, 0)
      BY <2>1
    <2> HIDE DEF g
    <2> QED BY <2>2
  <1>2. ASSUME NEW n \in Nat, n \in P PROVE n + 1 \in P
    <2>1. PICK g : Good(g, n)
      BY <1>2
    <2> DEFINE h == [s \in SUBSET S |-> IF Cardinality(s) <= n THEN g[s] ELSE JoinStep(D, g, s)]
    <2>2. ASSUME NEW s \in SUBSET S, Cardinality(s) <= n + 1
          PROVE  h[s] = JoinStep(D, h, s)
      <3>1. CASE s = {}
        BY <1>0, <2>1, <3>1 DEF JoinStep
      <3>2. CASE s # {}
        <4> DEFINE t == s \ {Pick(s)}
        <4>1. t \in SUBSET S /\ Cardinality(t) <= n
          BY <1>0, <2>2, <3>2
        <4>2. h[t] = g[t]
          BY <4>1
        <4>3. JoinStep(D, h, s) = JoinStep(D, g, s)
          BY <3>2, <4>2 DEF JoinStep
        <4>4. h[s] = JoinStep(D, g, s)
          BY <2>1
        <4> QED BY <4>3, <4>4
      <3> QED BY <3>1, <3>2
    <2>3. Good(h, n + 1)
      BY <2>2
    <2> HIDE DEF h
    <2> QED BY <2>3
  <1>3. Nat \subseteq P
    <2> HIDE DEF P
    <2> QED BY <1>1, <1>2, EveryNatural
  <1>4. PICK g : Good(g, Cardinality(S))
    BY <1>0, <1>3
  <1> DEFINE h == [s \in SUBSET S |-> g[s]]
  <1>5. \A s \in SUBSET S : Cardinality(s) <= Cardinality(S)
    BY FS_Subset
  <1>6. ASSUME NEW s \in SUBSET S PROVE h[s] = JoinStep(D, h, s)
    <2>1. g[s] = JoinStep(D, g, s)
      BY <1>4, <1>5
    <2>2. JoinStep(D, h, s) = JoinStep(D, g, s)
      BY <1>0 DEF JoinStep
    <2> QED BY <2>1, <2>2
  <1>7. h = [s \in SUBSET S |-> JoinStep(D, h, s)]
    BY <1>6
  <1> QED BY <1>7 DEF IsJoin

\* It connects what its links connect, and nothing else, in whatever order it takes them.
LEMMA JoinConnects ==
    ASSUME NEW D, NEW S, IsFiniteSet(S), \A l \in S : l[1] \in D /\ l[2] \in D,
           NEW g, IsJoin(D, g, S)
    PROVE  \E root : Connects(g[S], root, S, D)
  <1> DEFINE P == {T \in SUBSET S : \E root : Connects(g[T], root, T, D)}
  <1>1. ASSUME NEW T \in SUBSET S, \A U \in SUBSET T : U # T => U \in P
        PROVE  T \in P
    <2>1. CASE T = {}
      <3>1. g[T] = [x \in D |-> x]
        BY <2>1 DEF IsJoin, JoinStep
      <3> QED BY <2>1, <3>1, NothingConnects
    <2>2. CASE T # {}
      <3> DEFINE l == Pick(T)
      <3>1. l \in T /\ T \ {l} \in P
        BY <1>1, <2>2 DEF Pick
      <3>2. g[T] = Union(g[T \ {l}], l)
        BY <2>2 DEF IsJoin, JoinStep
      <3>3. PICK root : Connects(g[T \ {l}], root, T \ {l}, D)
        BY <3>1
      <3> HIDE DEF l
      <3>4. \A k \in T : k[1] \in D /\ k[2] \in D
        OBVIOUS
      <3> DEFINE p == g[T \ {l}]
      <3>5. \E top : Connects(Union(p, l), top, T, D)
        <4> HIDE DEF p, P
        <4>1. Connects(p, root, T \ {l}, D)
          BY <3>3 DEF p
        <4> QED BY <3>1, <3>4, <4>1, UnionConnects
      <3> QED BY <3>2, <3>5
    <2> QED BY <2>1, <2>2
  <1>2. SUBSET S \subseteq P
    <2> HIDE DEF P
    <2> QED BY <1>1, SmallerSubsets
  <1> QED BY <1>2

\* The groups of a run: two identifiers are in one group exactly if links connect them.
LEMMA GroupsConnect ==
    ASSUME NEW rs, NEW cs, IsFiniteSet(GivenLinks(rs, cs))
    PROVE  \E root : /\ Connects(Joined(rs, cs), root, GivenLinks(rs, cs), Identifiers(rs, cs))
                     /\ CaseGroups(rs, cs)
                          = {{id \in Identifiers(rs, cs) : root[id] = root[top]} :
                                top \in Identifiers(rs, cs)}
  <1> DEFINE D == Identifiers(rs, cs)
             S == GivenLinks(rs, cs)
             p == Joined(rs, cs)
  <1>1. \A l \in S : l[1] \in D /\ l[2] \in D
    BY DEF Identifiers
  <1>2. PICK g : IsJoin(D, g, S) /\ p = g[S]
    BY JoinExists, JoinedIsOneOf
  <1> DEFINE joined == p
  <1>3. PICK root : Connects(p, root, S, D)
    <2> HIDE DEF D, S, p
    <2> QED BY <1>1, <1>2, JoinConnects DEF S
  <1>4. CaseGroups(rs, cs) = {{id \in D : Root(p, id) = Root(p, top)} : top \in D}
    BY DEF CaseGroups
  <1> HIDE DEF D, S, p, joined
  <1>5. \A id \in D : Root(p, id) = root[id]
    BY <1>3, RootIs DEF Connects
  <1>6. CaseGroups(rs, cs) = {{id \in D : root[id] = root[top]} : top \in D}
    BY <1>4, <1>5
  <1> QED BY <1>3, <1>6 DEF D, S, p

-------------------------------------------------------------------------------
(* What is connected to an identifier.                                      *)

\* One step along links from the identifiers in A, in either direction.
Along(links, A) ==
    A \cup {link[2] : link \in {l \in links : l[1] \in A}}
      \cup {link[1] : link \in {l \in links : l[2] \in A}}
IsReach(reach, links, id, N) ==
    reach = [n \in 0..N |-> IF n = 0 THEN {id} ELSE Along(links, reach[n - 1])]

\* What is reached along n links is a function of n.
LEMMA ReachExists ==
    ASSUME NEW links, NEW id, NEW N \in Nat
    PROVE  \E reach : IsReach(reach, links, id, N)
  <1> DEFINE P == {n \in Nat : \E reach : IsReach(reach, links, id, n)}
  <1>1. 0 \in P
    <2> DEFINE f == [k \in 0..0 |-> {id}]
    <2>1. f = [k \in 0..0 |-> IF k = 0 THEN {id} ELSE Along(links, f[k - 1])]
      OBVIOUS
    <2> HIDE DEF f
    <2> QED BY <2>1 DEF IsReach
  <1>2. ASSUME NEW n \in Nat, n \in P PROVE n + 1 \in P
    <2>1. PICK f : IsReach(f, links, id, n)
      BY <1>2
    <2> DEFINE h == [k \in 0..(n + 1) |-> IF k <= n THEN f[k] ELSE Along(links, f[n])]
    <2>2. ASSUME NEW k \in 0..(n + 1)
          PROVE  h[k] = IF k = 0 THEN {id} ELSE Along(links, h[k - 1])
      <3>1. CASE k <= n
        <4>1. k \in 0..n /\ h[k] = f[k] /\ (k # 0 => h[k - 1] = f[k - 1])
          BY <3>1
        <4>2. f[k] = IF k = 0 THEN {id} ELSE Along(links, f[k - 1])
          BY <2>1, <4>1 DEF IsReach
        <4> QED BY <4>1, <4>2
      <3>2. CASE ~(k <= n)
        <4>1. k = n + 1 /\ k # 0 /\ k - 1 = n
          BY <3>2
        <4>2. h[k] = Along(links, f[n]) /\ h[n] = f[n]
          BY <3>2
        <4> QED BY <4>1, <4>2
      <3> QED BY <3>1, <3>2
    <2>3. h = [k \in 0..(n + 1) |-> IF k = 0 THEN {id} ELSE Along(links, h[k - 1])]
      BY <2>2
    <2> HIDE DEF h
    <2> QED BY <2>3 DEF IsReach
  <1> HIDE DEF P
  <1>3. Nat \subseteq P
    BY <1>1, <1>2, EveryNatural
  <1> QED BY <1>3 DEF P

\* As many steps as there are links are enough: until nothing is new, every step has the
\* ends of one link more.
LEMMA ReachIsClosed ==
    ASSUME NEW links, IsFiniteSet(links), NEW id, NEW reach,
           IsReach(reach, links, id, Cardinality(links))
    PROVE  Along(links, reach[Cardinality(links)]) \subseteq reach[Cardinality(links)]
  <1> DEFINE N == Cardinality(links)
             both == [A \in {reach[n] : n \in 0..N} |-> {l \in links : l[1] \in A /\ l[2] \in A}]
             Done(n) == Along(links, reach[n]) \subseteq reach[n]
             P == {n \in Nat : n <= N => Done(n) \/ Cardinality(both[reach[n]]) >= n}
  <1>0. N \in Nat
    BY FS_CardinalityType
  <1>1. ASSUME NEW n \in 0..N
        PROVE  /\ both[reach[n]] = {l \in links : l[1] \in reach[n] /\ l[2] \in reach[n]}
               /\ both[reach[n]] \subseteq links /\ IsFiniteSet(both[reach[n]])
               /\ Cardinality(both[reach[n]]) \in Nat
    <2>1. both[reach[n]] = {l \in links : l[1] \in reach[n] /\ l[2] \in reach[n]}
      OBVIOUS
    <2>2. both[reach[n]] \subseteq links
      BY <2>1
    <2> HIDE DEF both
    <2> QED BY <2>1, <2>2, FS_Subset, FS_CardinalityType
  <1>2. \A n \in 0..N : n # 0 => reach[n] = Along(links, reach[n - 1])
    BY DEF IsReach
  <1> HIDE DEF both, N
  <1>3. 0 \in P
    <2>1. 0 \in 0..N
      BY <1>0
    <2> QED BY <1>1, <2>1
  <1>4. ASSUME NEW n \in Nat, n \in P PROVE n + 1 \in P
    <2> SUFFICES ASSUME n + 1 <= N, ~Done(n + 1)
                 PROVE  Cardinality(both[reach[n + 1]]) >= n + 1
      OBVIOUS
    <2> DEFINE A == reach[n]
               B == reach[n + 1]
    <2>1. n \in 0..N /\ n + 1 \in 0..N /\ n + 1 # 0 /\ (n + 1) - 1 = n
      BY <1>0
    <2>2. B = Along(links, A)
      BY <1>2, <2>1
    <2>3. ~(Along(links, A) \subseteq A)
      <3>1. CASE Along(links, A) \subseteq A
        <4>1. B = A
          BY <2>2, <3>1 DEF Along
        <4> QED BY <2>2, <4>1
      <3> QED BY <3>1
    <2>4. Cardinality(both[A]) >= n
      BY <1>4, <2>1, <2>3
    <2>5. PICK l \in links : l \in both[B] /\ l \notin both[A]
      <3>1. PICK l \in links : \/ l[1] \in A /\ l[2] \notin A
                               \/ l[2] \in A /\ l[1] \notin A
        BY <2>3 DEF Along
      <3>2. l[1] \in B /\ l[2] \in B
        BY <2>2, <3>1 DEF Along
      <3> QED BY <1>1, <2>1, <3>1, <3>2
    <2>6. both[A] \cup {l} \subseteq both[B]
      <3>1. A \subseteq B
        BY <2>2 DEF Along
      <3> QED BY <1>1, <2>1, <2>5, <3>1
    <2> DEFINE S == both[A]
               T == both[B]
    <2>7. IsFiniteSet(S) /\ IsFiniteSet(T) /\ Cardinality(S) \in Nat /\ Cardinality(T) \in Nat
      BY <1>1, <2>1
    <2>8. l \notin S /\ S \cup {l} \subseteq T /\ Cardinality(S) >= n
      BY <2>4, <2>5, <2>6
    <2> HIDE DEF S, T
    <2>9. Cardinality(S \cup {l}) = Cardinality(S) + 1 /\ Cardinality(S \cup {l}) <= Cardinality(T)
      BY <2>7, <2>8, FS_AddElement, FS_Subset
    <2> QED BY <2>7, <2>8, <2>9 DEF T
  <1>5. Nat \subseteq P
    <2> HIDE DEF P
    <2> QED BY <1>3, <1>4, EveryNatural
  <1>6. Done(N) \/ Cardinality(both[reach[N]]) >= N
    BY <1>0, <1>5
  <1>7. ASSUME Cardinality(both[reach[N]]) >= N PROVE Done(N)
    <2>1. N \in 0..N
      BY <1>0
    <2> DEFINE S == both[reach[N]]
    <2>2. S \subseteq links /\ Cardinality(S) \in Nat /\ Cardinality(S) >= N
      BY <1>1, <1>7, <2>1
    <2> HIDE DEF S
    <2>3. S = links
      BY <1>0, <2>2, FS_Subset DEF N
    <2>4. \A l \in links : l[1] \in reach[N] /\ l[2] \in reach[N]
      BY <1>1, <2>1, <2>3 DEF S
    <2> QED BY <2>4 DEF Along
  <1> QED BY <1>6, <1>7 DEF N

\* What can be reached from an identifier is its group.
LEMMA ReachIsGroup ==
    ASSUME NEW links, IsFiniteSet(links), NEW D, \A l \in links : l[1] \in D /\ l[2] \in D,
           NEW p, NEW root, Connects(p, root, links, D), NEW id \in D, NEW reach,
           IsReach(reach, links, id, Cardinality(links))
    PROVE  reach[Cardinality(links)] = {x \in D : root[x] = root[id]}
  <1> DEFINE N == Cardinality(links)
             K == {x \in D : root[x] = root[id]}
             P == {n \in Nat : n <= N => id \in reach[n] /\ reach[n] \subseteq K}
             A == reach[N]
  <1>0. N \in Nat
    BY FS_CardinalityType
  <1>1. /\ reach[0] = {id}
        /\ \A n \in 0..N : n # 0 => reach[n] = Along(links, reach[n - 1])
    <2>1. IsReach(reach, links, id, N)
      OBVIOUS
    <2> HIDE DEF N
    <2>2. 0 \in 0..N
      BY <1>0
    <2> QED BY <2>1, <2>2 DEF IsReach
  <1> HIDE DEF N
  <1>2. \A B \in SUBSET K : Along(links, B) \subseteq K
    BY DEF Connects, Along
  <1>3. 0 \in P
    BY <1>1
  <1>4. ASSUME NEW n \in Nat, n \in P PROVE n + 1 \in P
    <2> SUFFICES ASSUME n + 1 <= N PROVE id \in reach[n + 1] /\ reach[n + 1] \subseteq K
      OBVIOUS
    <2>1. n + 1 \in 0..N /\ n + 1 # 0 /\ (n + 1) - 1 = n /\ n <= N
      BY <1>0
    <2>2. reach[n + 1] = Along(links, reach[n])
      BY <1>1, <2>1
    <2>3. id \in reach[n] /\ reach[n] \subseteq K
      BY <1>4, <2>1
    <2> HIDE DEF K
    <2>4. id \in Along(links, reach[n])
      BY <2>3 DEF Along
    <2> QED BY <1>2, <2>2, <2>3, <2>4
  <1>5. Nat \subseteq P
    <2> HIDE DEF P
    <2> QED BY <1>3, <1>4, EveryNatural
  <1>6. id \in A /\ A \subseteq K
    BY <1>0, <1>5
  <1>7. Closed(A, links)
    <2>1. Along(links, A) \subseteq A
      BY ReachIsClosed DEF N
    <2> QED BY <2>1 DEF Along, Closed
  <1>8. K \subseteq A
    <2> HIDE DEF A
    <2>1. \A x \in D : x \in A <=> root[x] \in A
      BY <1>6, <1>7 DEF Connects
    <2> QED BY <1>6, <2>1
  <1> QED BY <1>6, <1>8 DEF N

\* Finitely many records and candidates have finitely many links.
LEMMA LinksAreFinite ==
    ASSUME NEW rs, IsFiniteSet(rs), NEW cs, IsFiniteSet(cs)
    PROVE  IsFiniteSet(GivenLinks(rs, cs))
  <1> DEFINE K == OfType(rs, "settlement_components")
             toSettlement == [c \in K |-> <<c.id, c.settlement>>]
             toEvent == [c \in K |-> <<c.id, c.event>>]
             ends == [c \in cs |-> <<c.source, c.target>>]
             A == {<<c.id, c.settlement>> : c \in K}
             B == {<<c.id, c.event>> : c \in K}
             C == {<<c.source, c.target>> : c \in {d \in cs : Joins(d, cs)}}
  <1>1. IsFiniteSet(K)
    BY FS_Subset DEF OfType
  <1>2. /\ \A y \in A : \E x \in K : y = toSettlement[x]
        /\ \A y \in B : \E x \in K : y = toEvent[x]
        /\ \A y \in C : \E x \in cs : y = ends[x]
    OBVIOUS
  <1>3. GivenLinks(rs, cs) \subseteq A \cup B \cup C
    BY DEF GivenLinks, Links
  <1> HIDE DEF K, toSettlement, toEvent, ends, A, B, C
  <1>4. IsFiniteSet(A) /\ IsFiniteSet(B) /\ IsFiniteSet(C)
    BY <1>1, <1>2, ValuesAreFinite
  <1>5. IsFiniteSet(A \cup B \cup C)
    BY <1>4, FS_Union
  <1> QED BY <1>3, <1>5, FS_Subset

-------------------------------------------------------------------------------
(* Confirmed cash.                                                          *)

\* Evidence of a receipt is the amount of a settlement and of a bank transaction.
BankEvidence(es, rs) ==
    \A e \in es : e.relationship = "settlement_bank" =>
        /\ e.amount \in Int
        /\ \E s \in OfType(rs, "settlements") : s.id = e.source /\ s.amount = e.amount
        /\ \E b \in OfType(rs, "bank_transactions") : b.id = e.target /\ b.signed = e.amount

\* What is allocated is a sum over the evidence of one function.
LEMMA AllocatedSum ==
    ASSUME NEW es, IsFiniteSet(es), NEW X \in SUBSET es
    PROVE  Allocated(X) = SumFunctionOnSet([e \in es |-> e.amount], X)
  <1> DEFINE f == [e \in es |-> e.amount]
             g == [e \in X |-> e.amount]
  <1>1. Allocated(X) = SumFunctionOnSet(g, X)
    <2>1. Allocated(X) = SumFunction(g) /\ DOMAIN g = X
      BY DEF Allocated
    <2> HIDE DEF g
    <2> QED BY <2>1, SumOfAll
  <1>2. IsFiniteSet(X) /\ \A e \in X : g[e] = f[e]
    BY FS_Subset
  <1>3. SumFunctionOnSet(g, X) = SumFunctionOnSet(f, X)
    <2> HIDE DEF f, g
    <2> QED BY <1>2, SumsAgree
  <1> QED BY <1>1, <1>3

\* A verified settlement whose evidence leads out of its case is worth nothing: INV-004
\* finds no receipt of it in the case.
LEMMA EvidenceLeadsOut ==
    ASSUME NEW c, NEW es, NEW over, VerifyCase(c, es, over) = {},
           NEW e \in es, e.relationship = "settlement_bank", e.amount \in Int,
           \A g \in es : g.relationship = "settlement_bank" /\ g.source = e.source => g = e,
           NEW s \in Settlements(c), s.id = e.source, s.amount = e.amount,
           e \notin EdgesOf(c, es, "settlement_bank")
    PROVE  e.amount = 0
  <1>1. Allocated(ReceiptsOf(c, es, s)) = OrZero(s.amount)
    BY HeldInvariants
  <1>2. ReceiptsOf(c, es, s) = {}
    BY DEF ReceiptsOf, EdgesOf, CaseEdges, Within
  <1>3. Allocated({}) = 0
    <2>1. Allocated({}) = SumFunctionOnSet([e0 \in {} |-> e0.amount], {})
      BY FS_EmptySet, AllocatedSum
    <2> QED BY <2>1, SumOfNothing
  <1> QED BY <1>1, <1>2, <1>3, NullAssumption DEF OrZero

\* Safe cash is what verified evidence allocates to the settlements of reconciled cases.
LEMMA ConfirmedCash ==
    ASSUME NEW rs, NEW C, CasesDivide(C, rs), \A c \in C : IsBuilt(c),
           NEW es, IsFiniteSet(es), BankEvidence(es, rs), NEW over,
           \A e, g \in es : e # g /\ e.relationship = g.relationship => e.source # g.source
    PROVE  LET V == {VerifiedCase(c, es, over) : c \in C}
               settled == {s.id : s \in UNION {Settlements(c) :
                                   c \in {d \in V : d.state = "RECONCILED"}}}
           IN  CalculateCashPosition(V).safe
                 = Allocated({e \in es : e.relationship = "settlement_bank" /\ e.source \in settled})
  <1> DEFINE V == {VerifiedCase(c, es, over) : c \in C}
             R == {d \in V : d.state = "RECONCILED"}
             settled == {s.id : s \in UNION {Settlements(c) : c \in R}}
             receipts == {e \in es : e.relationship = "settlement_bank" /\ e.source \in settled}
             E == [v \in R |-> EdgesOf(v, es, "settlement_bank")]
             f == [e \in es |-> e.amount]
             h == [v \in R |-> Contribution(v)]
             U == UNION {E[v] : v \in R}
  <1>1. CasesDivide(V, rs)
    BY VerifiedDivide
  <1>2. ASSUME NEW v \in R
        PROVE  \E c \in C : /\ v.records = c.records /\ v.entities = c.entities
                            /\ VerifyCase(c, es, over) = {} /\ v.bucket = "BANK_CONFIRMED"
                            /\ v.net = Total(c.records, "settlements")
    <2>1. PICK c \in C : v = VerifiedCase(c, es, over)
      OBVIOUS
    <2>2. v.state = "RECONCILED"
      OBVIOUS
    <2> HIDE DEF R, V
    <2>3. /\ v.records = c.records /\ v.entities = c.entities /\ v.net = c.net
          /\ v.failed = VerifyCase(c, es, over)
      BY <2>1, VerifiedFields
    <2>4. c.ambiguous = {} /\ v.failed = {} /\ v.bucket = "BANK_CONFIRMED"
      BY <2>1, <2>2, ReconciledCase
    <2> QED BY <2>3, <2>4 DEF IsBuilt
  <1>3. R = InBucket(V, "BANK_CONFIRMED")
    <2>1. \A v \in V : v.bucket = "BANK_CONFIRMED" <=> v.state = "RECONCILED"
      BY ReconciledCase
    <2> HIDE DEF V
    <2> QED BY <2>1 DEF InBucket
  <1>4. IsFiniteSet(R)
    <2>1. R \subseteq V
      OBVIOUS
    <2> HIDE DEF R, V
    <2> QED BY <1>1, <2>1, FS_Subset DEF CasesDivide
  <1>5. CalculateCashPosition(V).safe = SumFunctionOnSet(h, R)
    <2>1. CalculateCashPosition(V).safe
            = SumFunction([v \in InBucket(V, "BANK_CONFIRMED") |-> Contribution(v)])
      BY DEF CalculateCashPosition, CashBuckets
    <2> HIDE DEF V, R
    <2>2. CalculateCashPosition(V).safe = SumFunction(h) /\ DOMAIN h = R
      BY <1>3, <2>1
    <2> HIDE DEF h
    <2> QED BY <2>2, SumOfAll
  <1>6. ASSUME NEW v \in R
        PROVE  IsFiniteSet(E[v]) /\ E[v] \subseteq es /\ h[v] = SumFunctionOnSet(f, E[v])
    <2>1. PICK c \in C : /\ v.records = c.records /\ v.entities = c.entities
                         /\ VerifyCase(c, es, over) = {} /\ v.bucket = "BANK_CONFIRMED"
                         /\ v.net = Total(c.records, "settlements")
      BY <1>2
    <2> HIDE DEF R, V
    <2>2. E[v] = EdgesOf(c, es, "settlement_bank") /\ E[v] \subseteq es
      BY <2>1 DEF EdgesOf, CaseEdges, Within
    <2>3. h[v] = Allocated(E[v])
      BY <2>1, <2>2, HeldInvariants DEF Contribution
    <2> HIDE DEF E, f, h
    <2>4. IsFiniteSet(E[v]) /\ Allocated(E[v]) = SumFunctionOnSet(f, E[v])
      BY <2>2, FS_Subset, AllocatedSum DEF f
    <2> QED BY <2>2, <2>3, <2>4
  <1>7. \A v, w \in R : v # w => E[v] \cap E[w] = {}
    BY <1>1 DEF CasesDivide, EdgesOf, CaseEdges, Within
  <1>8. \A v \in R : \A e \in E[v] : f[e] \in Int
    BY DEF BankEvidence, EdgesOf, CaseEdges, Within
  <1>9. SumFunctionOnSet(h, R) = SumFunctionOnSet(f, U)
    <2> HIDE DEF R, E, f, h
    <2> QED BY <1>4, <1>6, <1>7, <1>8, SumOfFamily
  <1>10. U \subseteq receipts
    <2> SUFFICES ASSUME NEW v \in R, NEW e \in E[v] PROVE e \in receipts
      OBVIOUS
    <2>1. /\ e \in es /\ e.relationship = "settlement_bank"
          /\ e.source \in v.entities
      BY DEF EdgesOf, CaseEdges, Within
    <2>2. PICK s \in OfType(rs, "settlements") : s.id = e.source
      BY <2>1 DEF BankEvidence
    <2>3. s \in Settlements(v)
      BY <1>1, <2>1, <2>2 DEF CasesDivide, OfType, Settlements
    <2> QED BY <2>1, <2>2, <2>3
  <1>11. ASSUME NEW e \in receipts \ U PROVE f[e] = 0
    <2>1. PICK v \in R : \E s \in Settlements(v) : s.id = e.source
      OBVIOUS
    <2>2. PICK c \in C : /\ v.records = c.records /\ v.entities = c.entities
                         /\ VerifyCase(c, es, over) = {}
      BY <1>2
    <2>3. PICK s \in OfType(rs, "settlements") : s.id = e.source /\ s.amount = e.amount
      BY DEF BankEvidence
    <2>4. e.source \in v.entities
      BY <1>1, <2>1 DEF CasesDivide, Settlements, OfType
    <2>5. s \in Settlements(c)
      BY <1>1, <2>2, <2>3, <2>4 DEF CasesDivide, OfType, Settlements
    <2>6. e \notin EdgesOf(c, es, "settlement_bank")
      BY <2>2 DEF EdgesOf, CaseEdges, Within
    <2>7. e \in es /\ e.relationship = "settlement_bank" /\ e.amount \in Int
      BY DEF BankEvidence
    <2>8. e.amount = 0
      <3> HIDE DEF receipts, U, R, V, E
      <3> QED BY <2>2, <2>3, <2>5, <2>6, <2>7, EvidenceLeadsOut
    <2> QED BY <2>7, <2>8
  <1>12. SumFunctionOnSet(f, receipts) = SumFunctionOnSet(f, U)
    <2>1. IsFiniteSet(receipts) /\ receipts \subseteq es
      BY FS_Subset
    <2>2. \A e \in receipts : f[e] \in Int
      BY DEF BankEvidence
    <2> HIDE DEF receipts, U, f
    <2> QED BY <1>10, <1>11, <2>1, <2>2, SumOfRelevant
  <1>13. Allocated(receipts) = SumFunctionOnSet(f, receipts)
    <2>1. receipts \subseteq es
      OBVIOUS
    <2> HIDE DEF receipts
    <2> QED BY <2>1, AllocatedSum
  <1> QED BY <1>5, <1>9, <1>12, <1>13

-------------------------------------------------------------------------------
(* The calendar.                                                            *)

\* Of natural numbers one is the least.
LEMMA LeastNatural ==
    ASSUME NEW S \in SUBSET Nat, S # {}
    PROVE  \E m \in S : \A k \in S : m <= k
  <1> SUFFICES ASSUME \A m \in S : \E k \in S : ~(m <= k) PROVE FALSE
    OBVIOUS
  <1> DEFINE P == {n \in Nat : \A k \in 0..n : k \notin S}
  <1>1. 0 \in P
    OBVIOUS
  <1>2. ASSUME NEW n \in Nat, n \in P PROVE n + 1 \in P
    <2>1. \A k \in 0..(n + 1) : k \in 0..n \/ k = n + 1
      OBVIOUS
    <2>2. n + 1 \notin S
      <3> SUFFICES ASSUME n + 1 \in S PROVE FALSE
        OBVIOUS
      <3>1. PICK k \in S : ~(n + 1 <= k)
        OBVIOUS
      <3>2. k \in 0..n
        BY <3>1
      <3> QED BY <1>2, <3>2
    <2> QED BY <1>2, <2>1, <2>2
  <1>3. Nat \subseteq P
    <2> HIDE DEF P
    <2> QED BY <1>1, <1>2, EveryNatural
  <1>4. PICK m \in S : TRUE
    OBVIOUS
  <1>5. m \in Nat /\ m \in 0..m /\ m \in P
    BY <1>3
  <1> QED BY <1>4, <1>5

\* After the last holiday there is a day of every weekday.
LEMMA BusinessDayComes ==
    ASSUME NEW d \in Int
    PROVE  \E n \in Nat : IsBusinessDay(d + n)
  <1> DEFINE P == {T \in SUBSET Holidays : \E m \in Int : \A h \in T : h <= m}
  <1>1. {} \in P
    OBVIOUS
  <1>2. ASSUME NEW T \in SUBSET Holidays, NEW x \in T, T \ {x} \in P PROVE T \in P
    <2>0. \A h \in T : h \in Int
      BY CalendarAssumption
    <2>1. PICK m \in Int : \A h \in T \ {x} : h <= m
      BY <1>2
    <2>2. CASE x <= m
      <3>1. \A h \in T : h <= m
        BY <2>1, <2>2
      <3> QED BY <3>1
    <2>3. CASE ~(x <= m)
      <3>1. \A h \in T : h <= x
        BY <2>0, <2>1, <2>3
      <3> QED BY <2>0, <3>1
    <2> QED BY <2>2, <2>3
  <1>3. SUBSET Holidays \subseteq P
    <2> HIDE DEF P
    <2> QED BY <1>1, <1>2, OneByOne, CalendarAssumption
  <1>4. PICK m \in Int : \A h \in Holidays : h <= m
    BY <1>3
  <1>5. PICK w \in 0..6 : w \notin WeekendDays
    BY CalendarAssumption
  <1>6. PICK b \in Int : b > m /\ b >= d
    <2>1. CASE m >= d
      <3>1. m + 1 > m /\ m + 1 >= d /\ m + 1 \in Int
        BY <2>1
      <3> QED BY <3>1
    <2>2. CASE ~(m >= d)
      <3>1. d > m /\ d >= d
        BY <2>2
      <3> QED BY <3>1
    <2> QED BY <2>1, <2>2
  <1>7. PICK k \in 0..6 : (b + k) % 7 = w
    <2> DEFINE x == b % 7
    <2>1. x \in 0..6
      OBVIOUS
    <2>2. CASE w >= x
      <3>1. (b + (w - x)) % 7 = w /\ w - x \in 0..6
        BY <2>1, <2>2
      <3> QED BY <3>1
    <2>3. CASE ~(w >= x)
      <3>1. (b + (w - x + 7)) % 7 = w /\ w - x + 7 \in 0..6
        BY <2>1, <2>3
      <3> QED BY <3>1
    <2> QED BY <2>2, <2>3
  <1>8. b + k \notin Holidays
    <2>1. ~(b + k <= m)
      BY <1>6
    <2> QED BY <1>4, <2>1
  <1>9. IsBusinessDay(b + k)
    BY <1>5, <1>7, <1>8 DEF IsBusinessDay
  <1>10. b + k - d \in Nat /\ d + (b + k - d) = b + k
    BY <1>6
  <1> QED BY <1>9, <1>10

\* n days after d is the first business day from d on.
FirstFrom(d, n) == IsBusinessDay(d + n) /\ \A k \in Nat : k < n => ~IsBusinessDay(d + k)

\* From any day on there is a first business day: not every day is a weekend, and
\* holidays end.
LEMMA FirstBusinessDay ==
    ASSUME NEW d \in Int
    PROVE  \E n \in Nat : FirstFrom(d, n)
  <1> DEFINE S == {n \in Nat : IsBusinessDay(d + n)}
  <1>1. S # {}
    BY BusinessDayComes
  <1>2. PICK m \in S : \A k \in S : m <= k
    <2>1. S \in SUBSET Nat
      OBVIOUS
    <2> HIDE DEF S
    <2> QED BY <1>1, <2>1, LeastNatural
  <1>3. \A k \in Nat : k < m => k \notin S
    BY <1>2
  <1> QED BY <1>2, <1>3 DEF FirstFrom

\* A day later it is one day nearer, and it is the only one.
LEMMA FirstIsNext ==
    ASSUME NEW d \in Int, NEW n \in Nat, FirstFrom(d, n)
    PROVE  /\ n = 0 <=> IsBusinessDay(d)
           /\ n # 0 => n - 1 \in Nat /\ FirstFrom(d + 1, n - 1)
           /\ \A m \in Nat : FirstFrom(d, m) => m = n
  <1>0. d + 0 = d
    OBVIOUS
  <1>1. n = 0 <=> IsBusinessDay(d)
    <2>1. n = 0 => IsBusinessDay(d)
      BY <1>0 DEF FirstFrom
    <2>2. n # 0 => ~IsBusinessDay(d)
      <3>1. n # 0 => 0 < n
        OBVIOUS
      <3> QED BY <1>0, <3>1 DEF FirstFrom
    <2> QED BY <2>1, <2>2
  <1>2. ASSUME n # 0 PROVE n - 1 \in Nat /\ FirstFrom(d + 1, n - 1)
    <2>1. n - 1 \in Nat /\ (d + 1) + (n - 1) = d + n
      BY <1>2
    <2>2. ASSUME NEW k \in Nat, k < n - 1 PROVE ~IsBusinessDay((d + 1) + k)
      <3>1. (d + 1) + k = d + (k + 1) /\ k + 1 < n /\ k + 1 \in Nat
        BY <2>2
      <3> QED BY <3>1 DEF FirstFrom
    <2> QED BY <2>1, <2>2 DEF FirstFrom
  <1>3. ASSUME NEW m \in Nat, FirstFrom(d, m) PROVE m = n
    <2>1. ~(m < n) /\ ~(n < m)
      BY <1>3 DEF FirstFrom
    <2> QED BY <2>1
  <1> QED BY <1>1, <1>2, <1>3

\* The next business day is the first one from a day on, however many holidays and
\* weekends lie in between.
LEMMA NextIsFirst ==
    ASSUME NEW d \in Int, NEW n \in Nat, FirstFrom(d, n)
    PROVE  NextBusinessDay[d] = d + n
  <1> DEFINE Next(f) == [x \in Int |-> IF IsBusinessDay(x) THEN x ELSE f[x + 1]]
             wait == [x \in Int |-> CHOOSE m \in Nat : FirstFrom(x, m)]
             f == [x \in Int |-> x + wait[x]]
  <1>1. ASSUME NEW x \in Int PROVE wait[x] \in Nat /\ FirstFrom(x, wait[x])
    BY FirstBusinessDay
  <1>2. ASSUME NEW x \in Int PROVE f[x] = IF IsBusinessDay(x) THEN x ELSE f[x + 1]
    <2>1. CASE IsBusinessDay(x)
      <3>1. wait[x] = 0
        BY <1>1, <2>1, FirstIsNext
      <3>2. f[x] = x + 0 /\ x + 0 = x
        <4> HIDE DEF wait
        <4> QED BY <3>1
      <3> QED BY <2>1, <3>2
    <2>2. CASE ~IsBusinessDay(x)
      <3> DEFINE m == wait[x]
      <3>1. m # 0 /\ m \in Nat /\ m - 1 \in Nat /\ FirstFrom(x + 1, m - 1)
        BY <1>1, <2>2, FirstIsNext
      <3>2. x + 1 \in Int /\ wait[x + 1] \in Nat /\ FirstFrom(x + 1, wait[x + 1])
        BY <1>1
      <3>3. wait[x + 1] = m - 1
        <4> HIDE DEF wait, m
        <4> QED BY <3>1, <3>2, FirstIsNext
      <3>4. f[x + 1] = (x + 1) + wait[x + 1] /\ f[x] = x + m
        BY <3>2
      <3> HIDE DEF wait, f, m
      <3> QED BY <2>2, <3>1, <3>3, <3>4
    <2> QED BY <2>1, <2>2
  <1>3. f = Next(f)
    BY <1>2
  <1>4. NextBusinessDay = Next(NextBusinessDay)
    <2>1. \E g : g = Next(g)
      BY <1>3
    <2> QED BY <2>1 DEF NextBusinessDay
  <1> DEFINE P == {m \in Nat : \A x \in Int : FirstFrom(x, m) => NextBusinessDay[x] = x + m}
  <1>5. \A x \in Int : NextBusinessDay[x] = IF IsBusinessDay(x) THEN x ELSE NextBusinessDay[x + 1]
    BY <1>4
  <1>6. 0 \in P
    <2> SUFFICES ASSUME NEW x \in Int, FirstFrom(x, 0) PROVE NextBusinessDay[x] = x + 0
      OBVIOUS
    <2>1. IsBusinessDay(x)
      BY FirstIsNext
    <2> QED BY <1>5, <2>1
  <1>7. ASSUME NEW m \in Nat, m \in P PROVE m + 1 \in P
    <2> SUFFICES ASSUME NEW x \in Int, FirstFrom(x, m + 1)
                 PROVE  NextBusinessDay[x] = x + (m + 1)
      OBVIOUS
    <2>1. m + 1 # 0 /\ m + 1 \in Nat /\ (m + 1) - 1 = m
      OBVIOUS
    <2>2. ~IsBusinessDay(x) /\ FirstFrom(x + 1, m)
      BY <2>1, FirstIsNext
    <2>3. NextBusinessDay[x + 1] = (x + 1) + m
      BY <1>7, <2>2
    <2>4. NextBusinessDay[x] = NextBusinessDay[x + 1]
      BY <1>5, <2>2
    <2> QED BY <2>3, <2>4
  <1>8. Nat \subseteq P
    <2> HIDE DEF P
    <2> QED BY <1>6, <1>7, EveryNatural
  <1> QED BY <1>8

\* The next business day is a business day, and not before.
LEMMA NextBusinessDayIs ==
    ASSUME NEW d \in Int
    PROVE  /\ NextBusinessDay[d] \in Int /\ d <= NextBusinessDay[d]
           /\ IsBusinessDay(NextBusinessDay[d])
  <1>1. PICK n \in Nat : FirstFrom(d, n)
    BY FirstBusinessDay
  <1>2. NextBusinessDay[d] = d + n
    BY <1>1, NextIsFirst
  <1> QED BY <1>1, <1>2 DEF FirstFrom

-------------------------------------------------------------------------------
(* The forecast.                                                            *)

LEMMA NetSum ==
    ASSUME NEW V, IsFiniteSet(V), NEW X \in SUBSET V
    PROVE  Net(X) = SumFunctionOnSet([c \in V |-> c.net], X)
  <1> DEFINE f == [c \in V |-> c.net]
             g == [c \in X |-> c.net]
  <1>1. Net(X) = SumFunctionOnSet(g, X)
    <2>1. Net(X) = SumFunction(g) /\ DOMAIN g = X
      BY DEF Net
    <2> HIDE DEF g
    <2> QED BY <2>1, SumOfAll
  <1>2. IsFiniteSet(X) /\ \A c \in X : g[c] = f[c]
    BY FS_Subset
  <1>3. SumFunctionOnSet(g, X) = SumFunctionOnSet(f, X)
    <2> HIDE DEF f, g
    <2> QED BY <1>2, SumsAgree
  <1> QED BY <1>1, <1>3

\* What is expected of some cases is what is expected of a part of them and of the rest.
LEMMA NetOfParts ==
    ASSUME NEW V, IsFiniteSet(V), \A c \in V : c.net \in Int,
           NEW X \in SUBSET V, NEW Y \in SUBSET X
    PROVE  /\ Net(X) \in Int /\ Net(Y) \in Int /\ Net(X \ Y) \in Int
           /\ Net(X) = Net(Y) + Net(X \ Y)
  <1> DEFINE f == [c \in V |-> c.net]
             Z == X \ Y
  <1>1. /\ Net(X) = SumFunctionOnSet(f, X) /\ Net(Y) = SumFunctionOnSet(f, Y)
        /\ Net(Z) = SumFunctionOnSet(f, Z)
    <2>1. X \in SUBSET V /\ Y \in SUBSET V /\ Z \in SUBSET V
      OBVIOUS
    <2> HIDE DEF Z
    <2> QED BY <2>1, NetSum
  <1>2. /\ IsFiniteSet(X) /\ IsFiniteSet(Y) /\ IsFiniteSet(Z)
        /\ \A c \in X : f[c] \in Int
    BY FS_Subset
  <1>3. /\ SumFunctionOnSet(f, X) = SumFunctionOnSet(f, Y) + SumFunctionOnSet(f, X \ Y)
        /\ SumFunctionOnSet(f, X) \in Int /\ SumFunctionOnSet(f, Y) \in Int
        /\ SumFunctionOnSet(f, Z) \in Int
    <2>1. /\ \A c \in Y : f[c] \in Int
          /\ \A c \in Z : f[c] \in Int
      BY <1>2
    <2>2. Y \in SUBSET X /\ X \ Y = Z
      OBVIOUS
    <2> HIDE DEF f, Z
    <2>3. SumFunctionOnSet(f, X) = SumFunctionOnSet(f, Y) + SumFunctionOnSet(f, X \ Y)
      BY <1>2, <2>2, SumOfParts
    <2>4. /\ SumFunctionOnSet(f, X) \in Int /\ SumFunctionOnSet(f, Y) \in Int
          /\ SumFunctionOnSet(f, Z) \in Int
      BY <1>2, <2>1, SumIsInt
    <2> QED BY <2>3, <2>4
  <1> QED BY <1>1, <1>3

\* The balances of the days are a function of the horizon.
LEMMA ClosingIs ==
    ASSUME NEW inflow, \A d \in Horizon : inflow[d] \in Int, NEW safe \in Int
    PROVE  \A d \in Horizon :
              Closing(inflow, safe)[d]
                = inflow[d] + (IF d = 0 THEN safe ELSE Closing(inflow, safe)[d - 1])
  <1> DEFINE Next(g) == [d \in Horizon |-> inflow[d] + (IF d = 0 THEN safe ELSE g[d - 1])]
             f == [d \in Horizon |-> safe + SumFunctionOnSet(inflow, 0..d)]
  <1>1. ASSUME NEW d \in Horizon
        PROVE  f[d] = inflow[d] + (IF d = 0 THEN safe ELSE f[d - 1])
    <2> DEFINE D == 0..d
    <2>1. d \in 0..7 /\ d \in D /\ D \ {d} = 0..(d - 1)
      BY DEF Horizon
    <2>2. IsFiniteSet(D) /\ \A k \in D : inflow[k] \in Int
      <3>1. 0 \in Int /\ d \in Int /\ D \subseteq Horizon
        BY <2>1 DEF Horizon
      <3>2. IsFiniteSet(0..d)
        BY <3>1, FS_Interval
      <3> QED BY <3>1, <3>2
    <2>3. /\ SumFunctionOnSet(inflow, D) = inflow[d] + SumFunctionOnSet(inflow, D \ {d})
          /\ SumFunctionOnSet(inflow, D \ {d}) \in Int
      <3>1. IsFiniteSet(D \ {d}) /\ \A k \in D \ {d} : inflow[k] \in Int
        BY <2>2, FS_Subset
      <3> HIDE DEF D
      <3> QED BY <2>1, <2>2, <3>1, SumRemoves, SumIsInt
    <2>4. inflow[d] \in Int
      OBVIOUS
    <2>5. CASE d = 0
      <3>1. D \ {d} = {}
        <4>1. 0..(0 - 1) = {}
          OBVIOUS
        <4> HIDE DEF D
        <4> QED BY <2>1, <2>5, <4>1
      <3>2. SumFunctionOnSet(inflow, D \ {d}) = 0
        BY <3>1, SumOfNothing
      <3> DEFINE all == SumFunctionOnSet(inflow, D)
                 rest == SumFunctionOnSet(inflow, D \ {d})
                 day == inflow[d]
      <3>3. f[d] = safe + all
        OBVIOUS
      <3>4. all = day + rest /\ rest = 0 /\ day \in Int
        BY <2>3, <2>4, <3>2
      <3> HIDE DEF f, all, rest
      <3> QED BY <2>5, <3>3, <3>4
    <2>6. CASE d # 0
      <3>1. d - 1 \in Horizon /\ f[d - 1] = safe + SumFunctionOnSet(inflow, D \ {d})
        <4>1. d - 1 \in Horizon
          BY <2>1, <2>6 DEF Horizon
        <4>2. f[d - 1] = safe + SumFunctionOnSet(inflow, 0..(d - 1))
          BY <4>1
        <4> HIDE DEF f, D
        <4> QED BY <2>1, <4>1, <4>2
      <3> DEFINE rest == SumFunctionOnSet(inflow, D \ {d})
                 day == inflow[d]
      <3>2. f[d] = safe + (day + rest) /\ rest \in Int /\ day \in Int
        BY <2>3, <2>4
      <3>3. f[d - 1] = safe + rest
        BY <3>1
      <3> HIDE DEF f, rest
      <3> QED BY <2>6, <3>2, <3>3
    <2> QED BY <2>5, <2>6
  <1>2. f = Next(f)
    BY <1>1
  <1>3. Closing(inflow, safe) = Next(Closing(inflow, safe))
    <2>1. \E g : g = Next(g)
      BY <1>2
    <2> QED BY <2>1 DEF Closing
  <1> QED BY <1>3

\* Landing days are days, whatever weekends and holidays move them.
LEMMA LandingDayIsInt ==
    ASSUME NEW c, AreRecords(c.records), Dated(c) # {}
    PROVE  LandingDay(c) \in Int
  <1>1. AreRecords(Dated(c))
    BY FS_Subset DEF Dated, Settlements, OfType, AreRecords
  <1>2. FirstRecord(Dated(c)) \in Dated(c)
    BY <1>1, FirstOfRecords
  <1>3. FirstRecord(Dated(c)).due \in Int
    BY <1>1, <1>2 DEF Dated, AreRecords, IsRecord, Given
  <1> QED BY <1>3, NextBusinessDayIs DEF LandingDay

\* What a case expects is an amount.
LEMMA TotalIsInt ==
    ASSUME NEW S, AreRecords(S), NEW t
    PROVE  Total(S, t) \in Int
  <1> DEFINE X == OfType(S, t)
             f == [r \in X |-> OrZero(r.amount)]
  <1>1. IsFiniteSet(X) /\ \A r \in X : f[r] \in Int
    BY FS_Subset, OrZeroIsInt DEF OfType, AreRecords, IsRecord
  <1>2. Total(S, t) = SumFunction(f) /\ DOMAIN f = X
    BY DEF Total
  <1> HIDE DEF f, X
  <1> QED BY <1>1, <1>2, SumOfAll, SumIsInt

\* The net and the gross of a case are amounts.
LEMMA NetIsInt ==
    ASSUME NEW c, AreRecords(c.records), IsBuilt(c)
    PROVE  c.net \in Int /\ c.gross \in Int
  BY TotalIsInt DEF IsBuilt

\* Confirmed and expected cash is the net of the cases in it.
LEMMA BucketIsNet ==
    ASSUME NEW V, IsFiniteSet(V), \A c \in V : c.net \in Int,
           NEW b \in InTransitBuckets \cup {"BANK_CONFIRMED"}
    PROVE  /\ CalculateCashPosition(V).buckets[b] = Net(InBucket(V, b))
           /\ Net(InBucket(V, b)) \in Int
  <1> DEFINE X == InBucket(V, b)
             f == [c \in X |-> Contribution(c)]
             g == [c \in X |-> c.net]
  <1>1. \A c \in X : f[c] = g[c]
    BY DEF InBucket, Contribution
  <1>2. X \in SUBSET V /\ b \in CashBuckets
    BY DEF InBucket, CashBuckets, InTransitBuckets
  <1>3. f = g
    BY <1>1
  <1>4. CalculateCashPosition(V).buckets[b] = SumFunction(f)
    BY <1>2 DEF CalculateCashPosition
  <1>5. Net(X) = SumFunction(g)
    BY DEF Net
  <1>6. Net(X) \in Int
    <2> HIDE DEF X
    <2> QED BY <1>2, NetOfParts
  <1> QED BY <1>3, <1>4, <1>5, <1>6

\* What is in transit is what two of the buckets hold.
LEMMA TransitIsBuckets ==
    ASSUME NEW V, IsFiniteSet(V), \A c \in V : c.net \in Int
    PROVE  LET amount == CalculateCashPosition(V).buckets
           IN  amount["SETTLEMENT_CONFIRMED_IN_TRANSIT"] + amount["EXPECTED_SETTLEMENT"]
                 = Net(InTransit(V))
  <1> DEFINE X == InTransit(V)
             Y == InBucket(V, "SETTLEMENT_CONFIRMED_IN_TRANSIT")
             Z == InBucket(V, "EXPECTED_SETTLEMENT")
  <1>1. X \in SUBSET V /\ Y \in SUBSET X /\ X \ Y = Z
    BY DEF InTransit, InBucket, InTransitBuckets
  <1>2. /\ CalculateCashPosition(V).buckets["SETTLEMENT_CONFIRMED_IN_TRANSIT"] = Net(Y)
        /\ CalculateCashPosition(V).buckets["EXPECTED_SETTLEMENT"] = Net(Z)
    BY BucketIsNet DEF InTransitBuckets
  <1>3. Net(X) = Net(Y) + Net(X \ Y)
    <2> HIDE DEF X, Y, Z
    <2> QED BY <1>1, NetOfParts
  <1> QED BY <1>1, <1>2, <1>3

\* What is in transit is due within the horizon, overdue, undated or due later.
LEMMA ForecastAddsUp ==
    ASSUME NEW V, IsFiniteSet(V), \A c \in V : c.net \in Int /\ AreRecords(c.records),
           NEW safe \in Int, NEW asOf \in Int
    PROVE  LET forecast == CalculateCashForecast(V, safe, asOf)
               later == {c \in Scheduled(V) : \A d \in Horizon : LandingDay(c) > asOf + d}
           IN  Net(InTransit(V)) = forecast.closing[7] - safe
                                     + forecast.overdue + forecast.undated + Net(later)
  <1> DEFINE day == [c \in V |-> LandingDay(c)]
             S == Scheduled(V)
             From == [k \in 0..8 |-> {c \in S : day[c] >= asOf + k}]
             on == [d \in Horizon |-> Net(LandingOn(V, asOf + d))]
             total == Closing(on, safe)
             later == {c \in S : \A d \in Horizon : LandingDay(c) > asOf + d}
  <1>1. \A c \in S : c \in V /\ day[c] = LandingDay(c) /\ day[c] \in Int
    BY LandingDayIsInt DEF Scheduled, InTransit
  <1>2. S \in SUBSET InTransit(V) /\ InTransit(V) \in SUBSET V
    BY DEF Scheduled, InTransit
  <1>3. \A c \in V : c.net \in Int
    OBVIOUS
  <1>4. /\ Net(InTransit(V)) = Net(S) + Net(InTransit(V) \ S)
        /\ Net(S) \in Int /\ Net(InTransit(V) \ S) \in Int
    <2> HIDE DEF S
    <2> QED BY <1>2, <1>3, NetOfParts
  <1>5. /\ Net(S) = Net(Overdue(V, asOf)) + Net(From[0])
        /\ Net(Overdue(V, asOf)) \in Int /\ Net(From[0]) \in Int
    <2>1. Overdue(V, asOf) \in SUBSET S /\ S \ Overdue(V, asOf) = From[0]
      BY <1>1 DEF Overdue
    <2>2. S \in SUBSET V
      BY <1>2
    <2> HIDE DEF S, From
    <2> QED BY <1>3, <2>1, <2>2, NetOfParts
  <1>6. ASSUME NEW k \in 0..7
        PROVE  /\ Net(From[k]) = on[k] + Net(From[k + 1])
               /\ on[k] \in Int /\ Net(From[k + 1]) \in Int /\ Net(From[k]) \in Int
    <2> DEFINE X == From[k]
               Y == LandingOn(V, asOf + k)
    <2>0. k \in 0..8 /\ k + 1 \in 0..8
      OBVIOUS
    <2>1. Y \in SUBSET X
      BY <1>1, <2>0 DEF LandingOn
    <2>2. X \ Y = From[k + 1]
      BY <1>1, <2>0 DEF LandingOn
    <2>3. X \in SUBSET V
      BY <1>2, <2>0
    <2>4. on[k] = Net(Y)
      BY DEF Horizon
    <2> HIDE DEF X, Y, From
    <2>5. /\ Net(X) \in Int /\ Net(Y) \in Int /\ Net(X \ Y) \in Int
          /\ Net(X) = Net(Y) + Net(X \ Y)
      BY <1>3, <2>1, <2>3, NetOfParts
    <2> HIDE DEF on
    <2> QED BY <2>2, <2>4, <2>5 DEF X
  <1>7. \A d \in 0..7 : total[d] = on[d] + (IF d = 0 THEN safe ELSE total[d - 1])
    <2>1. \A d \in Horizon : on[d] \in Int
      BY <1>6 DEF Horizon
    <2> HIDE DEF on
    <2> QED BY <2>1, ClosingIs DEF Horizon
  <1> DEFINE left == [k \in 0..8 |-> Net(From[k])]
             P == {k \in Nat : k \in 0..7 =>
                      total[k] \in Int /\ total[k] - safe + left[k + 1] = left[0]}
  <1>8. \A k \in 0..7 : left[k] = on[k] + left[k + 1] /\ on[k] \in Int
                         /\ left[k] \in Int /\ left[k + 1] \in Int
    <2>1. \A k \in 0..7 : k \in 0..8 /\ k + 1 \in 0..8
      OBVIOUS
    <2> HIDE DEF From, on
    <2> QED BY <1>6, <2>1
  <1>9. 0 \in P
    <2> HIDE DEF left, total, on
    <2>1. total[0] = on[0] + safe
      BY <1>7
    <2>2. left[0] = on[0] + left[0 + 1] /\ on[0] \in Int /\ left[0 + 1] \in Int
      BY <1>8
    <2> QED BY <2>1, <2>2
  <1>10. ASSUME NEW k \in Nat, k \in P PROVE k + 1 \in P
    <2> HIDE DEF left, total, on
    <2> SUFFICES ASSUME k + 1 \in 0..7
                 PROVE  total[k + 1] \in Int /\ total[k + 1] - safe + left[(k + 1) + 1] = left[0]
      OBVIOUS
    <2>1. k \in 0..7 /\ k + 1 # 0 /\ (k + 1) - 1 = k
      OBVIOUS
    <2>2. total[k + 1] = on[k + 1] + total[k]
      BY <1>7, <2>1
    <2>3. total[k] \in Int /\ total[k] - safe + left[k + 1] = left[0]
      BY <1>10, <2>1
    <2>4. /\ left[k + 1] = on[k + 1] + left[(k + 1) + 1] /\ on[k + 1] \in Int
          /\ left[(k + 1) + 1] \in Int
      BY <1>8
    <2> DEFINE a == on[k + 1]
               b == left[(k + 1) + 1]
               t == total[k]
    <2>5. /\ total[k + 1] = a + t /\ t - safe + left[k + 1] = left[0] /\ left[k + 1] = a + b
          /\ a \in Int /\ b \in Int /\ t \in Int
      BY <2>2, <2>3, <2>4
    <2> HIDE DEF a, b, t
    <2>6. total[k + 1] \in Int /\ total[k + 1] - safe + b = left[0]
      BY <2>5
    <2> QED BY <2>6 DEF b
  <1>11. Nat \subseteq P
    <2> HIDE DEF P
    <2> QED BY <1>9, <1>10, EveryNatural
  <1>12. total[7] \in Int /\ total[7] - safe + Net(From[8]) = Net(From[0])
    <2>1. left[8] = Net(From[8]) /\ left[0] = Net(From[0])
      <3> HIDE DEF From
      <3> QED OBVIOUS
    <2>2. 7 \in P
      <3> HIDE DEF P
      <3> QED BY <1>11
    <2> HIDE DEF left, total, From
    <2>3. 7 + 1 = 8 /\ 7 \in 0..7
      OBVIOUS
    <2>4. total[7] \in Int /\ total[7] - safe + left[8] = left[0]
      BY <2>2, <2>3
    <2> QED BY <2>1, <2>4
  <1>13. later = From[8]
    <2>1. ASSUME NEW c \in S
          PROVE  (\A d \in 0..7 : day[c] > asOf + d) <=> day[c] >= asOf + 8
      <3>1. day[c] \in Int
        BY <1>1
      <3> DEFINE x == day[c]
      <3> HIDE DEF x
      <3>2. x \in Int => ((\A d \in 0..7 : x > asOf + d) <=> x >= asOf + 8)
        <4>1. ASSUME x \in Int, \A d \in 0..7 : x > asOf + d PROVE x >= asOf + 8
          <5>1. 7 \in 0..7
            OBVIOUS
          <5>2. x > asOf + 7
            BY <4>1, <5>1
          <5> QED BY <4>1, <5>2
        <4>2. ASSUME x \in Int, x >= asOf + 8 PROVE \A d \in 0..7 : x > asOf + d
          BY <4>2
        <4> QED BY <4>1, <4>2
      <3> QED BY <3>1, <3>2 DEF x
    <2> QED BY <1>1, <2>1 DEF Horizon
  <1>14. Net(From[8]) \in Int
    <2>1. From[7 + 1] = From[8]
      OBVIOUS
    <2> HIDE DEF From, on
    <2> QED BY <1>6, <2>1
  <1>15. /\ CalculateCashForecast(V, safe, asOf).closing = total
         /\ CalculateCashForecast(V, safe, asOf).overdue = Net(Overdue(V, asOf))
         /\ CalculateCashForecast(V, safe, asOf).undated = Net(InTransit(V) \ S)
    BY DEF CalculateCashForecast
  <1> HIDE DEF total, From, S, later
  <1>16. Net(InTransit(V)) = total[7] - safe + Net(Overdue(V, asOf)) + Net(InTransit(V) \ S)
                               + Net(later)
    BY <1>4, <1>5, <1>12, <1>13, <1>14
  <1> QED BY <1>15, <1>16 DEF S, later

-------------------------------------------------------------------------------
(* Outcomes.                                                                *)

ExceptionCodes ==
    {"CURRENCY_MISMATCH", "DOUBLE_ALLOCATION_ATTEMPT", "DATE_OUTSIDE_POLICY",
     "PAYMENT_STATUS_CONFLICT", "FEE_VARIANCE", "TAX_VARIANCE", "BANK_CREDIT_MISSING",
     "UNEXPLAINED_RESIDUAL", "CAPTURE_NOT_SETTLED"}

\* Of the exceptions that apply there is a first, and it is none of ambiguity.
LEMMA ExceptionIsNamed ==
    ASSUME NEW c, NEW es, NEW failed
    PROVE  ExceptionOf(c, es, failed) \in ExceptionCodes
  <1> DEFINE causes == << <<"CURRENCY_MISMATCH", "INV-001" \in failed>>,
                     <<"DOUBLE_ALLOCATION_ATTEMPT", "INV-006" \in failed>>,
                     <<"DATE_OUTSIDE_POLICY", {"INV-007", "INV-009"} \cap failed # {}>>,
                     <<"PAYMENT_STATUS_CONFLICT", "INV-008" \in failed>>,
                     <<"FEE_VARIANCE", "INV-FEE-001" \in failed>>,
                     <<"TAX_VARIANCE", "INV-TAX-001" \in failed>>,
                     <<"BANK_CREDIT_MISSING", MissingBankCredit(c, es)>>,
                     <<"UNEXPLAINED_RESIDUAL", {"INV-003", "INV-005"} \cap failed # {}>>,
                     <<"CAPTURE_NOT_SETTLED", Settlements(c) = {}
                                                /\ HasRecords(c, "payments")>>,
                     <<"UNEXPLAINED_RESIDUAL", TRUE>> >>
             First(k) == causes[k][2] /\ \A j \in 1..(k - 1) : ~causes[j][2]
             S == {k \in 1..10 : causes[k][2]}
  <1>1. DOMAIN causes = 1..10 /\ causes[10][2]
    OBVIOUS
  <1>2. \A k \in 1..10 : causes[k][1] \in ExceptionCodes
    BY DEF ExceptionCodes
  <1>3. ExceptionOf(c, es, failed) = causes[CHOOSE k \in DOMAIN causes : First(k)][1]
    BY DEF ExceptionOf
  <1>4. \E k \in DOMAIN causes : First(k)
    <2> HIDE DEF causes
    <2>1. S \in SUBSET Nat /\ S # {}
      BY <1>1
    <2>2. PICK k \in S : \A j \in S : k <= j
      <3> HIDE DEF S
      <3> QED BY <2>1, LeastNatural
    <2>3. \A j \in 1..(k - 1) : j \in 1..10 /\ ~(k <= j)
      BY <2>2
    <2> QED BY <1>1, <2>2, <2>3
  <1> HIDE DEF causes
  <1> QED BY <1>1, <1>2, <1>3, <1>4

\* The fee and the tax of the policy are amounts.
LEMMA ExpectedAreInt ==
    ASSUME NEW amount \in Int
    PROVE  ExpectedFee(amount) \in Int /\ ExpectedTax(amount) \in Int
  <1>1. ASSUME NEW n \in Int, NEW rate \in {FeeRate, TaxRate}
        PROVE  (n * rate[1]) \div rate[2] \in Int
    <2>1. n * rate[1] \in Int /\ rate[2] \in Nat /\ rate[2] > 0
      BY RatesAssumption
    <2> QED BY <2>1
  <1>2. ExpectedFee(amount) \in Int
    BY <1>1 DEF ExpectedFee
  <1>3. ExpectedTax(amount) \in Int
    BY <1>1, <1>2 DEF ExpectedTax
  <1> QED BY <1>2, <1>3

\* A case that can be read and passes its invariants has nothing left.
LEMMA NothingIsLeft ==
    ASSUME NEW c, AreRecords(c.records), NEW es, NEW over,
           VerifyCase(c, es, over) = {}, ~IsInvalid(c), c.ambiguous = {}
    PROVE  Residual(c, es) = 0
  <1> DEFINE X == {q \in OfType(c.records, "payments") : q.payment # Null}
             f == [p \in X |-> Abs(Actual(c, p, "GATEWAY_FEE") - ExpectedFee(OrZero(p.amount)))
                               + Abs(Actual(c, p, "TAX_ON_FEE") - ExpectedTax(OrZero(p.amount)))]
  <1>1. /\ \A p \in Priced(c) : /\ Actual(c, p, "GATEWAY_FEE") = ExpectedFee(p.amount)
                                /\ Actual(c, p, "TAX_ON_FEE") = ExpectedTax(p.amount)
        /\ BankAllocated(c, es) = Total(c.records, "settlements")
    BY DEF VerifyCase, Invariants, Fails, BankAllocated
  <1>2. ASSUME NEW p \in X
        PROVE  f[p] = 0
    <2>1. p \in c.records /\ p.issues = <<>> /\ p.amount # Null /\ p.amount \in Int
      BY DEF OfType, IsInvalid, AreRecords, IsRecord, Given
    <2>2. p \in Priced(c) /\ OrZero(p.amount) = p.amount
      BY <2>1 DEF Priced, OrZero
    <2> DEFINE fee == ExpectedFee(p.amount)
               tax == ExpectedTax(p.amount)
    <2>3. fee \in Int /\ tax \in Int
      BY <2>1, ExpectedAreInt
    <2>4. f[p] = Abs(fee - fee) + Abs(tax - tax)
      BY <1>1, <2>2
    <2> HIDE DEF fee, tax, f
    <2> QED BY <2>3, <2>4 DEF Abs
  <1>3. FeeTaxVariance(c) = 0
    <2>1. FeeTaxVariance(c) = SumFunction(f) /\ DOMAIN f = X
      BY DEF FeeTaxVariance
    <2>2. IsFiniteSet(X)
      BY FS_Subset DEF OfType, AreRecords
    <2> HIDE DEF f, X
    <2> QED BY <1>2, <2>1, <2>2, SumOfAll, SumIsZero
  <1>4. Total(c.records, "settlements") \in Int
    BY TotalIsInt
  <1> QED BY <1>1, <1>3, <1>4 DEF Residual, Abs

\* What classification makes of a case, state by state.
OutcomeIsSound(v) ==
    /\ v.state \in {"RECONCILED", "PENDING_WITHIN_SLA", "INVALID_INPUT", "ACTIONABLE_EXCEPTION"}
    /\ v.state = "RECONCILED" =>
          v.failed = {} /\ v.residual = 0 /\ v.code = NoCode /\ v.bucket = "BANK_CONFIRMED"
    /\ v.state = "PENDING_WITHIN_SLA" =>
          v.code = NoCode /\ v.bucket = "SETTLEMENT_CONFIRMED_IN_TRANSIT"
    /\ v.state = "INVALID_INPUT" =>
          v.failed # {} /\ v.code # "AMBIGUOUS_CANDIDATES" /\ v.bucket = "UNRESOLVED"
    /\ v.state = "ACTIONABLE_EXCEPTION" =>
          v.bucket = IF v.code = "AMBIGUOUS_CANDIDATES" THEN "UNRESOLVED" ELSE "AT_RISK"

\* Every outcome of classification is one that review can take up.
LEMMA OutcomesAreSound ==
    ASSUME NEW c, AreRecords(c.records), NEW es, NEW over
    PROVE  OutcomeIsSound(VerifiedCase(c, es, over))
  <1> DEFINE v == VerifiedCase(c, es, over)
             failed == VerifyCase(c, es, over)
             outcome == ClassifyCase(c, es, failed)
  <1> SUFFICES OutcomeIsSound(v)
    OBVIOUS
  <1>1. /\ v.failed = failed /\ v.state = outcome[1] /\ v.code = outcome[2]
        /\ v.residual = Residual(c, es) /\ v.bucket = CashBucketForCase(outcome[1], outcome[2])
    BY VerifiedFields
  <1>2. CASE IsInvalid(c)
    <2>1. outcome = <<"INVALID_INPUT", FirstIssue(c)>>
      BY <1>2 DEF ClassifyCase
    <2>2. FirstIssue(c) \in IssueCodes
      <3> DEFINE S == {r \in c.records : r.issues # <<>>}
      <3>1. AreRecords(S) /\ S # {}
        BY <1>2, FS_Subset DEF AreRecords, IsInvalid
      <3>2. FirstRecord(S) \in S
        <4> HIDE DEF S
        <4> QED BY <3>1, FirstOfRecords
      <3>3. FirstRecord(S).issues \in Seq(IssueCodes) /\ FirstRecord(S).issues # <<>>
        BY <3>1, <3>2 DEF AreRecords, IsRecord
      <3> HIDE DEF S
      <3>4. Head(FirstRecord(S).issues) \in IssueCodes
        BY <3>3
      <3> QED BY <3>4 DEF FirstIssue, S
    <2>3. "INV-010" \in failed
      BY <1>2 DEF VerifyCase, Invariants, Fails
    <2>4. outcome[1] = "INVALID_INPUT" /\ outcome[2] # "AMBIGUOUS_CANDIDATES"
      BY <2>1, <2>2 DEF IssueCodes
    <2> HIDE DEF v, outcome, failed
    <2> QED BY <1>1, <2>3, <2>4 DEF OutcomeIsSound, CashBucketForCase
  <1>3. CASE ~IsInvalid(c) /\ c.ambiguous # {}
    <2>1. outcome = <<"ACTIONABLE_EXCEPTION", "AMBIGUOUS_CANDIDATES">>
      BY <1>3 DEF ClassifyCase
    <2> HIDE DEF v, outcome, failed
    <2> QED BY <1>1, <2>1 DEF OutcomeIsSound, CashBucketForCase
  <1>4. CASE ~IsInvalid(c) /\ c.ambiguous = {}
    <2>1. \/ outcome = <<"PENDING_WITHIN_SLA", NoCode>>
          \/ outcome = <<"RECONCILED", NoCode>> /\ failed = {}
          \/ outcome = <<"ACTIONABLE_EXCEPTION", ExceptionOf(c, es, failed)>>
      BY <1>4 DEF ClassifyCase
    <2>2. ExceptionOf(c, es, failed) # "AMBIGUOUS_CANDIDATES"
      BY ExceptionIsNamed DEF ExceptionCodes
    <2>3. failed = {} => Residual(c, es) = 0
      BY <1>4, NothingIsLeft
    <2> HIDE DEF v, outcome, failed
    <2> QED BY <1>1, <2>1, <2>2, <2>3 DEF OutcomeIsSound, CashBucketForCase
  <1> QED BY <1>2, <1>3, <1>4

\* A reconciled case has a verified receipt.
LEMMA ReconciledIsConfirmed ==
    ASSUME NEW c, NEW es, NEW over, VerifiedCase(c, es, over).state = "RECONCILED"
    PROVE  \E e \in es : e.relationship = "settlement_bank" /\ e.source \in c.entities
  <1>1. HasCompleteEvidence(c, es)
    BY ReconciledCase
  <1> QED BY <1>1 DEF HasCompleteEvidence, Proves, EdgesOf, CaseEdges, Within

-------------------------------------------------------------------------------
(* The tax audit.                                                           *)

\* Records that a link joins are in one case.
LEMMA LinksStayInCases ==
    ASSUME NEW rs, NEW cs, IsFiniteSet(GivenLinks(rs, cs)), NEW amb,
           NEW b \in BuildCases(rs, cs, amb), NEW r \in b.records, NEW q \in rs,
           <<r.id, q.id>> \in GivenLinks(rs, cs)
    PROVE  q \in b.records
  <1> DEFINE ids == Identifiers(rs, cs)
  <1>1. PICK root : /\ Connects(Joined(rs, cs), root, GivenLinks(rs, cs), ids)
                    /\ CaseGroups(rs, cs) = {{x \in ids : root[x] = root[top]} : top \in ids}
    BY GroupsConnect
  <1>2. PICK g \in CaseGroups(rs, cs) : b.records = {x \in rs : x.id \in g}
    <2>1. PICK g \in CaseGroups(rs, cs) : b = BuildCase(g, rs, amb)
      BY DEF BuildCases
    <2> QED BY <2>1 DEF BuildCase
  <1>3. root[r.id] = root[q.id]
    <2> DEFINE l == <<r.id, q.id>>
    <2>1. l[1] = r.id /\ l[2] = q.id /\ l \in GivenLinks(rs, cs)
      OBVIOUS
    <2> HIDE DEF l
    <2>2. root[l[1]] = root[l[2]]
      BY <1>1, <2>1 DEF Connects
    <2> QED BY <2>1, <2>2
  <1>4. PICK top \in ids : g = {x \in ids : root[x] = root[top]}
    BY <1>1
  <1>5. r.id \in g /\ q.id \in ids
    BY <1>2 DEF Identifiers
  <1> HIDE DEF ids
  <1> QED BY <1>2, <1>3, <1>4, <1>5

\* What is recorded is a sum over the records of one function.
LEMMA RecordedIs ==
    ASSUME NEW rs, AreRecords(rs), NEW X \in SUBSET rs
    PROVE  /\ IsFiniteSet(X)
           /\ Recorded(X) = SumFunctionOnSet([r \in rs |-> OrZero(r.amount)], X)
           /\ Recorded(X) \in Int
  <1> DEFINE f == [r \in X |-> OrZero(r.amount)]
             g == [r \in rs |-> OrZero(r.amount)]
  <1>1. IsFiniteSet(X)
    BY FS_Subset DEF AreRecords
  <1>2. \A r \in X : f[r] = g[r] /\ f[r] \in Int
    BY OrZeroIsInt DEF AreRecords, IsRecord
  <1>3. Recorded(X) = SumFunction(f) /\ DOMAIN f = X
    BY DEF Recorded
  <1> SUFFICES /\ IsFiniteSet(X) /\ Recorded(X) = SumFunctionOnSet(g, X)
               /\ Recorded(X) \in Int
    OBVIOUS
  <1> HIDE DEF f, g
  <1> QED BY <1>1, <1>2, <1>3, SumOfAll, SumsAgree, SumIsInt

\* The charges of a payment that is audited are in its case.
TiedCharges(V, rs) ==
    \A v \in V : \A k \in v.records : \A p \in OfType(rs, "payments") :
        k.type = "settlement_components" /\ k.event = p.id => p \in v.records

\* What is supported of the tax of a payment and what is charged beyond it is what is
\* recorded for it.
LEMMA AuditSplits ==
    ASSUME NEW c, AreRecords(c.records), NEW p \in Audited(c)
    PROVE  LET q == <<c, p>>
               actual == Actual(c, p, "TAX_ON_FEE")
           IN  /\ SupportedTax(q) \in Int /\ OverchargedTax(q) \in Int /\ actual \in Int
               /\ SupportedTax(q) + OverchargedTax(q) = actual
               /\ actual = Recorded(Charges(c, p, "TAX_ON_FEE"))
  <1> DEFINE q == <<c, p>>
             actual == Actual(c, p, "TAX_ON_FEE")
             expected == ExpectedTax(p.amount)
  <1>1. Charges(c, p, "TAX_ON_FEE") \in SUBSET c.records
    BY DEF Charges, OfType
  <1>2. actual = Recorded(Charges(c, p, "TAX_ON_FEE"))
    BY DEF Actual, Recorded
  <1>3. actual \in Int
    BY <1>1, <1>2, RecordedIs
  <1>4. expected \in Int
    <2>1. p.amount \in Int
      BY DEF Audited, Priced, OfType, AreRecords, IsRecord, Given
    <2> QED BY <2>1, ExpectedAreInt
  <1>5. /\ SupportedTax(q) = IF actual > expected THEN expected ELSE actual
        /\ OverchargedTax(q) = IF actual - expected > 0 THEN actual - expected ELSE 0
    BY DEF SupportedTax, OverchargedTax, TaxVariance
  <1> HIDE DEF actual, expected
  <1> QED BY <1>2, <1>3, <1>4, <1>5 DEF actual

\* Every recorded tax is of a payment that is audited, of one that cannot be, or of none.
LEMMA TaxDivides ==
    ASSUME NEW rs, AreRecords(rs), NEW V, CasesDivide(V, rs), TiedCharges(V, rs)
    PROVE  LET taxed == {r \in OfType(rs, "settlement_components") : r.component = "TAX_ON_FEE"}
               known == KnownPayments(V)
               audited == UNION {{p.payment : p \in Audited(c)} : c \in V}
           IN  /\ UNION {Taxes(c) : c \in V} = taxed
               /\ UNION {{k \in Taxes(o[1]) : k.event = o[2]} : o \in Orphans(V)}
                    = {r \in taxed : r.event \notin known}
               /\ UNION {Charges(q[1], q[2], "TAX_ON_FEE") : q \in AuditedRows(V)}
                    = {r \in taxed : r.event \in audited}
               /\ audited \subseteq known
  <1> DEFINE taxed == {r \in OfType(rs, "settlement_components") : r.component = "TAX_ON_FEE"}
             known == KnownPayments(V)
             audited == UNION {{p.payment : p \in Audited(c)} : c \in V}
             orphaned == UNION {{k \in Taxes(o[1]) : k.event = o[2]} : o \in Orphans(V)}
             charged == UNION {Charges(q[1], q[2], "TAX_ON_FEE") : q \in AuditedRows(V)}
  <1>1. UNION {Taxes(c) : c \in V} = taxed
    BY DEF Taxes, Fees, OfType, CasesDivide
  <1>2. orphaned = {r \in taxed : r.event \notin known}
    <2>1. ASSUME NEW k \in orphaned PROVE k \in taxed /\ k.event \notin known
      <3>1. PICK c \in V : \E j \in Unmatched(c, V) : k \in Taxes(c) /\ k.event = j.event
        BY DEF Orphans
      <3> QED BY <1>1, <3>1 DEF Unmatched
    <2>2. ASSUME NEW k \in taxed, k.event \notin known PROVE k \in orphaned
      <3>1. PICK c \in V : k \in Taxes(c)
        BY <1>1
      <3>2. k \in Unmatched(c, V)
        BY <2>2, <3>1 DEF Unmatched, Taxes
      <3> DEFINE o == <<c, k.event>>
      <3>3. o \in Orphans(V) /\ k \in Taxes(o[1]) /\ k.event = o[2]
        BY <3>1, <3>2 DEF Orphans
      <3> HIDE DEF o
      <3> QED BY <3>3
    <2> HIDE DEF orphaned, taxed, known
    <2> QED BY <2>1, <2>2
  <1>3. audited \subseteq known
    BY DEF Audited, Priced, KnownPayments, Payments
  <1>4. ASSUME NEW k \in charged PROVE k \in taxed /\ k.event \in audited
    <2>1. PICK c \in V : \E p \in Audited(c) : k \in Charges(c, p, "TAX_ON_FEE")
      BY DEF AuditedRows
    <2>2. PICK p \in Audited(c) : k \in Charges(c, p, "TAX_ON_FEE")
      BY <2>1
    <2>3. k \in rs /\ p \in rs /\ p.type = "payments" /\ p.payment # Null
      BY <2>2 DEF Audited, Priced, OfType, Charges, CasesDivide
    <2>4. p.id = p.payment
      BY <2>3 DEF AreRecords, IsRecord
    <2> QED BY <2>2, <2>3, <2>4 DEF Charges, OfType
  <1>5. ASSUME NEW k \in taxed, k.event \in audited PROVE k \in charged
    <2>1. PICK c \in V : \E p \in Audited(c) : p.payment = k.event
      BY <1>5
    <2>2. PICK p \in Audited(c) : p.payment = k.event
      BY <2>1
    <2>3. /\ p \in c.records /\ p \in OfType(rs, "payments") /\ p.payment # Null
          /\ k \in rs /\ k.type = "settlement_components" /\ k.component = "TAX_ON_FEE"
      BY DEF Audited, Priced, OfType, CasesDivide
    <2>4. p.id = k.event
      BY <2>2, <2>3 DEF AreRecords, IsRecord, OfType
    <2>5. PICK v \in V : k \in v.records
      BY <2>3 DEF CasesDivide
    <2>6. p \in v.records
      BY <2>3, <2>4, <2>5 DEF TiedCharges
    <2>7. v = c
      <3>1. p.id \in v.entities /\ p.id \in c.entities
        BY <2>3, <2>6 DEF CasesDivide
      <3> QED BY <3>1 DEF CasesDivide
    <2>8. k \in Charges(c, p, "TAX_ON_FEE")
      BY <2>3, <2>4, <2>5, <2>7 DEF Charges, OfType
    <2> DEFINE q == <<c, p>>
    <2>9. q \in AuditedRows(V) /\ k \in Charges(q[1], q[2], "TAX_ON_FEE")
      BY <2>8 DEF AuditedRows
    <2> HIDE DEF q
    <2> QED BY <2>9
  <1>6. charged = {r \in taxed : r.event \in audited}
    <2> HIDE DEF charged, taxed, audited
    <2> QED BY <1>4, <1>5
  <1> QED BY <1>1, <1>2, <1>3, <1>6

\* The taxes of an orphan are records of the run, and no other orphan has them.
LEMMA OrphansDivide ==
    ASSUME NEW rs, AreRecords(rs), NEW V, CasesDivide(V, rs)
    PROVE  /\ IsFiniteSet(Orphans(V))
           /\ \A o \in Orphans(V) : {k \in Taxes(o[1]) : k.event = o[2]} \in SUBSET rs
           /\ \A o, t \in Orphans(V) : o # t =>
                 {k \in Taxes(o[1]) : k.event = o[2]} \cap {k \in Taxes(t[1]) : k.event = t[2]} = {}
  <1>1. \A o \in Orphans(V) : \E c \in V : \E k \in rs : o = <<c, k.event>>
    BY DEF Orphans, Unmatched, Fees, OfType, CasesDivide
  <1>2. IsFiniteSet(Orphans(V))
    <2>1. IsFiniteSet({k.event : k \in rs})
      <3> DEFINE event == [k \in rs |-> k.event]
      <3>1. DOMAIN event = rs /\ {event[x] : x \in DOMAIN event} = {k.event : k \in rs}
        OBVIOUS
      <3> HIDE DEF event
      <3>2. IsFiniteSet({event[x] : x \in DOMAIN event})
        BY <3>1, ImageIsFinite DEF AreRecords
      <3> QED BY <3>1, <3>2
    <2>2. IsFiniteSet(V \X {k.event : k \in rs})
      BY <2>1, FS_Product DEF CasesDivide
    <2>3. Orphans(V) \subseteq V \X {k.event : k \in rs}
      BY <1>1
    <2> QED BY <2>2, <2>3, FS_Subset
  <1>3. \A c \in V : Taxes(c) \subseteq c.records /\ c.records \subseteq rs
    BY DEF Taxes, Fees, OfType, CasesDivide
  <1>4. ASSUME NEW o \in Orphans(V), NEW t \in Orphans(V),
               NEW k \in Taxes(o[1]), k \in Taxes(t[1]), k.event = o[2], k.event = t[2]
        PROVE  o = t
    <2>1. PICK c \in V, i \in rs : o = <<c, i.event>>
      BY <1>1
    <2>2. PICK d \in V, j \in rs : t = <<d, j.event>>
      BY <1>1
    <2>3. k \in c.records /\ k \in d.records
      BY <1>3, <1>4, <2>1, <2>2
    <2>4. k.id \in c.entities /\ k.id \in d.entities
      BY <2>3 DEF CasesDivide
    <2>5. c = d
      BY <2>4 DEF CasesDivide
    <2> QED BY <1>4, <2>1, <2>2, <2>5
  <1>5. \A o \in Orphans(V) : Taxes(o[1]) \subseteq rs
    BY <1>1, <1>3
  <1> QED BY <1>2, <1>4, <1>5

\* What an orphan has is disputed or credited.
LEMMA OrphanSplits ==
    ASSUME NEW rs, AreRecords(rs), NEW o, {k \in Taxes(o[1]) : k.event = o[2]} \in SUBSET rs
    PROVE  LET credit == IF OrphanTax(o) < 0 THEN OrphanTax(o) ELSE 0
           IN  /\ DisputedOrphan(o) \in Int /\ credit \in Int
               /\ OrphanTax(o) = DisputedOrphan(o) + credit
  <1>1. OrphanTax(o) \in Int
    BY RecordedIs DEF OrphanTax
  <1> QED BY <1>1 DEF DisputedOrphan

\* Recorded tax is supported, disputed, credited to a payment the run does not have, or of
\* a payment whose row cannot be audited, where no payment is recorded twice.
LEMMA TaxAddsUp ==
    ASSUME NEW rs, AreRecords(rs), NEW V, CasesDivide(V, rs), TiedCharges(V, rs),
           \A p, q \in OfType(rs, "payments") : p.id = q.id => p = q
    PROVE  LET audit == CalculateTaxAudit(V)
               audited == UNION {{p.payment : p \in Audited(c)} : c \in V}
               unread == {r \in OfType(rs, "settlement_components") :
                             r.component = "TAX_ON_FEE" /\ r.event \in KnownPayments(V) \ audited}
               credit == SumFunction([o \in Orphans(V) |->
                                         IF OrphanTax(o) < 0 THEN OrphanTax(o) ELSE 0])
           IN  audit.supported + audit.disputed + Recorded(unread) + credit = audit.tax
  <1> DEFINE audit == CalculateTaxAudit(V)
             taxed == {r \in OfType(rs, "settlement_components") : r.component = "TAX_ON_FEE"}
             known == KnownPayments(V)
             audited == UNION {{p.payment : p \in Audited(c)} : c \in V}
             unread == {r \in OfType(rs, "settlement_components") :
                           r.component = "TAX_ON_FEE" /\ r.event \in known \ audited}
             charged == {r \in taxed : r.event \in audited}
             stray == {r \in taxed : r.event \notin known}
             Q == AuditedRows(V)
             value == [r \in rs |-> OrZero(r.amount)]
             E == [q \in Q |-> Charges(q[1], q[2], "TAX_ON_FEE")]
             actual == [q \in Q |-> Actual(q[1], q[2], "TAX_ON_FEE")]
             supported == [q \in Q |-> SupportedTax(q)]
             over == [q \in Q |-> OverchargedTax(q)]
             O == Orphans(V)
             F == [o \in O |-> {k \in Taxes(o[1]) : k.event = o[2]}]
             orphan == [o \in O |-> OrphanTax(o)]
             disputed == [o \in O |-> DisputedOrphan(o)]
             credit == [o \in O |-> IF OrphanTax(o) < 0 THEN OrphanTax(o) ELSE 0]
  <1>1. /\ UNION {Taxes(c) : c \in V} = taxed
        /\ UNION {{k \in Taxes(o[1]) : k.event = o[2]} : o \in O} = stray
        /\ UNION {Charges(q[1], q[2], "TAX_ON_FEE") : q \in Q} = charged
        /\ audited \subseteq known
    BY TaxDivides
  <1>2. /\ audit.supported = SumFunction(supported)
        /\ audit.disputed = SumFunction(over) + SumFunction(disputed)
        /\ audit.tax = Recorded(taxed)
    <2> DEFINE mine == UNION {Taxes(c) : c \in V}
    <2>1. /\ audit.supported = SumFunction(supported)
          /\ audit.disputed = SumFunction(over) + SumFunction(disputed)
          /\ audit.tax = Recorded(mine)
      BY DEF CalculateTaxAudit
    <2>2. mine = taxed
      BY <1>1
    <2> HIDE DEF mine, taxed, audit, supported, over, disputed
    <2> QED BY <2>1, <2>2
  <1>3. IsFiniteSet(Q)
    <2>1. Q \subseteq V \X rs
      BY DEF AuditedRows, Audited, Priced, OfType, CasesDivide
    <2>2. IsFiniteSet(V \X rs)
      BY FS_Product DEF CasesDivide, AreRecords
    <2> HIDE DEF Q
    <2> QED BY <2>1, <2>2, FS_Subset
  <1>4. ASSUME NEW q \in Q
        PROVE  /\ supported[q] \in Int /\ over[q] \in Int /\ actual[q] = supported[q] + over[q]
               /\ IsFiniteSet(E[q]) /\ E[q] \subseteq rs
               /\ actual[q] = SumFunctionOnSet(value, E[q])
    <2>1. PICK c \in V : \E p \in Audited(c) : q = <<c, p>>
      BY DEF AuditedRows
    <2>2. PICK p \in Audited(c) : q = <<c, p>>
      BY <2>1
    <2>3. AreRecords(c.records) /\ c.records \subseteq rs
      BY FS_Subset DEF CasesDivide, AreRecords
    <2> DEFINE mine == Charges(c, p, "TAX_ON_FEE")
    <2>4. /\ SupportedTax(q) \in Int /\ OverchargedTax(q) \in Int
          /\ SupportedTax(q) + OverchargedTax(q) = Actual(c, p, "TAX_ON_FEE")
          /\ Actual(c, p, "TAX_ON_FEE") = Recorded(mine)
      BY <2>2, <2>3, AuditSplits
    <2>5. mine \in SUBSET rs
      BY <2>3 DEF Charges, OfType
    <2>6. IsFiniteSet(mine) /\ Recorded(mine) = SumFunctionOnSet(value, mine)
      BY <2>5, RecordedIs
    <2>7. /\ supported[q] = SupportedTax(q) /\ over[q] = OverchargedTax(q)
          /\ actual[q] = Actual(c, p, "TAX_ON_FEE") /\ E[q] = mine
      BY <2>2
    <2> HIDE DEF supported, over, actual, E, mine, value
    <2> QED BY <2>4, <2>5, <2>6, <2>7
  <1>5. ASSUME NEW q \in Q, NEW t \in Q, q # t PROVE E[q] \cap E[t] = {}
    <2>1. PICK c \in V : \E p \in Audited(c) : q = <<c, p>>
      BY DEF AuditedRows
    <2>2. PICK p \in Audited(c) : q = <<c, p>>
      BY <2>1
    <2>3. PICK d \in V : \E u \in Audited(d) : t = <<d, u>>
      BY DEF AuditedRows
    <2>4. PICK u \in Audited(d) : t = <<d, u>>
      BY <2>3
    <2>5. /\ p \in c.records /\ u \in d.records
          /\ p \in OfType(rs, "payments") /\ u \in OfType(rs, "payments")
      BY DEF Audited, Priced, OfType, CasesDivide
    <2>6. E[q] = Charges(c, p, "TAX_ON_FEE") /\ E[t] = Charges(d, u, "TAX_ON_FEE")
      BY <2>2, <2>4
    <2> HIDE DEF E
    <2> SUFFICES ASSUME NEW k \in E[q], k \in E[t] PROVE FALSE
      OBVIOUS
    <2>7. p.id = u.id
      BY <2>6 DEF Charges
    <2>8. p = u
      BY <2>5, <2>7
    <2>9. c = d
      <3>1. p.id \in c.entities /\ p.id \in d.entities
        BY <2>5, <2>8 DEF CasesDivide
      <3> QED BY <3>1 DEF CasesDivide
    <2> QED BY <1>5, <2>2, <2>4, <2>8, <2>9
  <1>6. \A r \in rs : value[r] \in Int
    BY OrZeroIsInt DEF AreRecords, IsRecord
  <1>7. UNION {E[q] : q \in Q} = charged
    BY <1>1
  <1>8. /\ taxed \in SUBSET rs /\ stray \in SUBSET rs /\ charged \in SUBSET rs
        /\ unread \in SUBSET rs
        /\ taxed = charged \cup (unread \cup stray)
        /\ charged \cap (unread \cup stray) = {} /\ unread \cap stray = {}
    BY <1>1 DEF OfType
  <1>9. /\ DOMAIN supported = Q /\ DOMAIN over = Q
        /\ DOMAIN disputed = O /\ DOMAIN credit = O
    OBVIOUS
  <1>10. /\ IsFiniteSet(O)
         /\ \A o, t \in O : o # t => F[o] \cap F[t] = {}
         /\ \A o \in O : F[o] \in SUBSET rs
    BY OrphansDivide
  <1>11. ASSUME NEW o \in O
         PROVE  /\ disputed[o] \in Int /\ credit[o] \in Int
                /\ orphan[o] = disputed[o] + credit[o]
                /\ IsFiniteSet(F[o]) /\ orphan[o] = SumFunctionOnSet(value, F[o])
    <2> DEFINE mine == {k \in Taxes(o[1]) : k.event = o[2]}
               given == IF OrphanTax(o) < 0 THEN OrphanTax(o) ELSE 0
    <2>1. mine \in SUBSET rs
      BY <1>10
    <2>2. /\ DisputedOrphan(o) \in Int /\ given \in Int
          /\ OrphanTax(o) = DisputedOrphan(o) + given
      BY <2>1, OrphanSplits
    <2>3. IsFiniteSet(mine) /\ Recorded(mine) = SumFunctionOnSet(value, mine)
      BY <2>1, RecordedIs
    <2>4. OrphanTax(o) = Recorded(mine)
      BY DEF OrphanTax
    <2>5. /\ disputed[o] = DisputedOrphan(o) /\ credit[o] = given
          /\ orphan[o] = OrphanTax(o) /\ F[o] = mine
      OBVIOUS
    <2> HIDE DEF disputed, credit, orphan, F, mine, given, value
    <2> QED BY <2>2, <2>3, <2>4, <2>5
  <1>12. UNION {F[o] : o \in O} = stray
    BY <1>1
  <1> SUFFICES audit.supported + audit.disputed + Recorded(unread) + SumFunction(credit)
                 = audit.tax
    OBVIOUS
  <1> HIDE DEF audit, taxed, known, audited, unread, charged, stray, Q, E, actual, supported, over,
               O, F, orphan, disputed, credit
  <1>13. Recorded(stray) = SumFunction(disputed) + SumFunction(credit)
    <2> HIDE DEF value
    <2>1. SumFunction(disputed) = SumFunctionOnSet(disputed, O)
          /\ SumFunction(credit) = SumFunctionOnSet(credit, O)
      BY <1>9, SumOfAll
    <2>2. \A o \in O : disputed[o] \in Int /\ credit[o] \in Int
                         /\ orphan[o] = disputed[o] + credit[o]
      BY <1>11
    <2>3. SumFunctionOnSet(orphan, O)
            = SumFunctionOnSet(disputed, O) + SumFunctionOnSet(credit, O)
      BY <1>10, <2>2, SumsAdd
    <2>4. \A o \in O : \A x \in F[o] : value[x] \in Int
      BY <1>6, <1>10
    <2>5. \A o \in O : IsFiniteSet(F[o]) /\ orphan[o] = SumFunctionOnSet(value, F[o])
      BY <1>11
    <2>6. SumFunctionOnSet(orphan, O) = SumFunctionOnSet(value, UNION {F[o] : o \in O})
      BY <1>10, <2>4, <2>5, SumOfFamily
    <2>7. Recorded(stray) = SumFunctionOnSet(value, stray)
      BY <1>8, RecordedIs DEF value
    <2> QED BY <1>12, <2>1, <2>3, <2>6, <2>7
  <1>14. SumFunctionOnSet(actual, Q) = SumFunction(supported) + SumFunction(over)
    <2>1. SumFunction(supported) = SumFunctionOnSet(supported, Q)
          /\ SumFunction(over) = SumFunctionOnSet(over, Q)
      BY <1>9, SumOfAll
    <2>2. \A q \in Q : supported[q] \in Int /\ over[q] \in Int
                         /\ actual[q] = supported[q] + over[q]
      BY <1>4
    <2> QED BY <1>3, <2>1, <2>2, SumsAdd
  <1>15. SumFunctionOnSet(actual, Q) = SumFunctionOnSet(value, charged)
    <2> HIDE DEF value
    <2>1. \A q \in Q : \A x \in E[q] : value[x] \in Int
      BY <1>4, <1>6
    <2>2. \A q \in Q : IsFiniteSet(E[q]) /\ actual[q] = SumFunctionOnSet(value, E[q])
      BY <1>4
    <2>3. \A q, t \in Q : q # t => E[q] \cap E[t] = {}
      BY <1>5
    <2>4. SumFunctionOnSet(actual, Q) = SumFunctionOnSet(value, UNION {E[q] : q \in Q})
      BY <1>3, <2>1, <2>2, <2>3, SumOfFamily
    <2> QED BY <1>7, <2>4
  <1>16. /\ Recorded(taxed) = SumFunctionOnSet(value, taxed) /\ IsFiniteSet(taxed)
         /\ Recorded(stray) = SumFunctionOnSet(value, stray) /\ IsFiniteSet(stray)
         /\ Recorded(unread) = SumFunctionOnSet(value, unread) /\ IsFiniteSet(unread)
         /\ IsFiniteSet(charged)
         /\ Recorded(stray) \in Int /\ Recorded(unread) \in Int
    BY <1>8, RecordedIs
  <1>17. SumFunctionOnSet(value, taxed)
           = SumFunctionOnSet(value, charged)
               + (SumFunctionOnSet(value, unread) + SumFunctionOnSet(value, stray))
    <2> HIDE DEF value
    <2>1. IsFiniteSet(unread \cup stray)
      BY <1>16, FS_Union
    <2>2. SumFunctionOnSet(value, unread \cup stray)
            = SumFunctionOnSet(value, unread) + SumFunctionOnSet(value, stray)
      <3>1. \A x \in unread \cup stray : value[x] \in Int
        BY <1>6, <1>8
      <3> QED BY <1>8, <1>16, <3>1, SumOfUnion
    <2>3. SumFunctionOnSet(value, charged \cup (unread \cup stray))
            = SumFunctionOnSet(value, charged) + SumFunctionOnSet(value, unread \cup stray)
      <3>1. \A x \in charged \cup (unread \cup stray) : value[x] \in Int
        BY <1>6, <1>8
      <3> QED BY <1>8, <1>16, <2>1, <3>1, SumOfUnion
    <2> QED BY <1>8, <2>2, <2>3
  <1>18. /\ SumFunction(supported) \in Int /\ SumFunction(over) \in Int
         /\ SumFunction(disputed) \in Int /\ SumFunction(credit) \in Int
    <2>1. SumFunction(supported) \in Int /\ SumFunction(over) \in Int
      BY <1>3, <1>4, <1>9, SumOfAll, SumIsInt
    <2>2. SumFunction(disputed) \in Int /\ SumFunction(credit) \in Int
      BY <1>9, <1>10, <1>11, SumOfAll, SumIsInt
    <2> QED BY <2>1, <2>2
  <1> HIDE DEF value
  <1> DEFINE a == SumFunction(supported)
             b == SumFunction(over)
             d == SumFunction(disputed)
             e == SumFunction(credit)
             u == Recorded(unread)
  <1>19. /\ a \in Int /\ b \in Int /\ d \in Int /\ e \in Int /\ u \in Int
         /\ audit.supported = a /\ audit.disputed = b + d
         /\ audit.tax = (a + b) + (u + (d + e))
    BY <1>2, <1>14, <1>15, <1>16, <1>17, <1>18, <1>13
  <1> HIDE DEF a, b, d, e, u
  <1> QED BY <1>19 DEF u, e

-------------------------------------------------------------------------------
(* Residuals.                                                               *)

\* A candidate that ties: an amount, and what the candidates are ordered by.
Ties(a) ==
    /\ a.amount \in Int /\ a.place[1] \in Int /\ a.place[2] \in Int
    /\ \E k \in DOMAIN Rules : a.rule = Rules[k].rule

\* One of the candidates that tie is the first the rules found.
LEMMA FirstOfCandidates ==
    ASSUME NEW S, IsFiniteSet(S), S # {}, \A a \in S : Ties(a)
    PROVE  FirstCandidate(S) \in S
  <1> DEFINE NotAfter(c, d) == \/ RuleNumber(c) < RuleNumber(d)
                               \/ RuleNumber(c) = RuleNumber(d) /\ ~Before(d.place, c.place)
             Has(T) == \E c \in T : \A d \in T : NotAfter(c, d)
             P == {T \in SUBSET S : T # {} => Has(T)}
  <1>1. ASSUME NEW a \in S
        PROVE  RuleNumber(a) \in Int
    <2>1. RuleNumber(a) \in DOMAIN Rules
      BY DEF Ties, RuleNumber
    <2>2. DOMAIN Rules = 1..5
      BY DEF Rules
    <2> QED BY <2>1, <2>2
  <1>2. \A a \in S : a.place[1] \in Int /\ a.place[2] \in Int
    BY DEF Ties
  <1>3. \A c, d \in S : NotAfter(c, d) <=>
           \/ RuleNumber(c) < RuleNumber(d)
           \/ /\ RuleNumber(c) = RuleNumber(d)
              /\ \/ c.place[1] < d.place[1]
                 \/ c.place[1] = d.place[1] /\ c.place[2] <= d.place[2]
    BY <1>1, <1>2 DEF Before
  <1> HIDE DEF NotAfter
  <1>4. /\ \A c, d \in S : NotAfter(c, d) \/ NotAfter(d, c)
        /\ \A c, d, e \in S : NotAfter(c, d) /\ NotAfter(d, e) => NotAfter(c, e)
    BY <1>1, <1>2, <1>3
  <1>5. ASSUME NEW T \in SUBSET S, NEW x \in T, T \ {x} \in P PROVE T \in P
    <2>1. NotAfter(x, x)
      BY <1>4
    <2>2. CASE T \ {x} = {}
      <3>1. \A d \in T : d = x
        BY <2>2
      <3> QED BY <2>1, <3>1
    <2>3. CASE T \ {x} # {}
      <3>1. PICK c \in T \ {x} : \A d \in T \ {x} : NotAfter(c, d)
        BY <1>5, <2>3
      <3>2. CASE NotAfter(c, x)
        BY <3>1, <3>2
      <3>3. CASE NotAfter(x, c)
        <4>1. \A d \in T : NotAfter(x, d)
          BY <1>4, <2>1, <3>1, <3>3
        <4> QED BY <4>1
      <3> QED BY <1>4, <3>2, <3>3
    <2> QED BY <2>2, <2>3
  <1>6. SUBSET S \subseteq P
    <2> HIDE DEF P
    <2>1. {} \in P
      BY DEF P
    <2> QED BY <1>5, <2>1, OneByOne
  <1>7. \E c \in S : \A d \in S : \/ RuleNumber(c) < RuleNumber(d)
                                  \/ RuleNumber(c) = RuleNumber(d) /\ ~Before(d.place, c.place)
    BY <1>6 DEF NotAfter
  <1> QED BY <1>7 DEF FirstCandidate

\* What fees and taxes differ by is an amount.
LEMMA VarianceIsInt ==
    ASSUME NEW c, AreRecords(c.records)
    PROVE  FeeTaxVariance(c) \in Int
  <1> DEFINE X == {q \in OfType(c.records, "payments") : q.payment # Null}
             f == [p \in X |-> Abs(Actual(c, p, "GATEWAY_FEE") - ExpectedFee(OrZero(p.amount)))
                               + Abs(Actual(c, p, "TAX_ON_FEE") - ExpectedTax(OrZero(p.amount)))]
  <1>1. ASSUME NEW p, NEW kind
        PROVE  Actual(c, p, kind) \in Int
    <2> DEFINE Y == Charges(c, p, kind)
               g == [r \in Y |-> OrZero(r.amount)]
    <2>1. IsFiniteSet(Y) /\ \A r \in Y : g[r] \in Int
      BY FS_Subset, OrZeroIsInt DEF Charges, OfType, AreRecords, IsRecord
    <2>2. Actual(c, p, kind) = SumFunction(g) /\ DOMAIN g = Y
      BY DEF Actual
    <2> HIDE DEF g, Y
    <2> QED BY <2>1, <2>2, SumOfAll, SumIsInt
  <1>2. ASSUME NEW p \in X
        PROVE  f[p] \in Int
    <2>1. OrZero(p.amount) \in Int
      BY OrZeroIsInt DEF OfType, AreRecords, IsRecord
    <2> DEFINE fee == Actual(c, p, "GATEWAY_FEE") - ExpectedFee(OrZero(p.amount))
               tax == Actual(c, p, "TAX_ON_FEE") - ExpectedTax(OrZero(p.amount))
    <2>2. fee \in Int /\ tax \in Int
      BY <1>1, <2>1, ExpectedAreInt
    <2>3. f[p] = Abs(fee) + Abs(tax)
      OBVIOUS
    <2> HIDE DEF fee, tax, f
    <2> QED BY <2>2, <2>3 DEF Abs
  <1>3. IsFiniteSet(X)
    BY FS_Subset DEF OfType, AreRecords
  <1>4. FeeTaxVariance(c) = SumFunction(f) /\ DOMAIN f = X
    BY DEF FeeTaxVariance
  <1> HIDE DEF f, X
  <1> QED BY <1>2, <1>3, <1>4, SumOfAll, SumIsInt

\* What is left of a case is an amount, whichever way it is reckoned.
LEMMA ResidualIsInt ==
    ASSUME NEW c, AreRecords(c.records), c.gross \in Int,
           IsFiniteSet(c.ambiguous), \A a \in c.ambiguous : Ties(a),
           NEW es, IsFiniteSet(es), \A e \in es : e.amount \in Int
    PROVE  Residual(c, es) \in Int
  <1> DEFINE X == EdgesOf(c, es, "settlement_bank")
             f == [e \in X |-> e.amount]
  <1>1. IsFiniteSet(X) /\ \A e \in X : f[e] \in Int
    BY FS_Subset DEF EdgesOf, CaseEdges, Within
  <1>2. BankAllocated(c, es) = SumFunction(f) /\ DOMAIN f = X
    BY DEF BankAllocated, Allocated
  <1>3. BankAllocated(c, es) \in Int
    <2> HIDE DEF f, X
    <2> QED BY <1>1, <1>2, SumOfAll, SumIsInt
  <1>4. c.ambiguous # {} => FirstCandidate(c.ambiguous).amount \in Int
    BY FirstOfCandidates DEF Ties
  <1>5. Total(c.records, "settlements") \in Int /\ FeeTaxVariance(c) \in Int
    BY TotalIsInt, VarianceIsInt
  <1> HIDE DEF f, X
  <1> QED BY <1>3, <1>4, <1>5 DEF Residual, Abs

\* Which invariants a case fails is a matter of its records and its evidence.
LEMMA SameFailures ==
    ASSUME NEW v, NEW b, NEW es, NEW fs, NEW over, NEW other, over = other,
           v.records = b.records, CaseEdges(v, es) = CaseEdges(b, fs)
    PROVE  VerifyCase(v, es, over) = VerifyCase(b, fs, other)
  <1>1. \A rel : EdgesOf(v, es, rel) = EdgesOf(b, fs, rel)
    BY DEF EdgesOf
  <1>2. /\ \A id : Record(v, id) = Record(b, id)
        /\ Settlements(v) = Settlements(b)
        /\ IsInvalid(v) <=> IsInvalid(b)
        /\ Priced(v) = Priced(b)
        /\ Currencies(v) = Currencies(b)
        /\ \A s : ComponentSum(v, s) = ComponentSum(b, s)
    BY DEF Record, Settlements, IsInvalid, Priced, Currencies, ComponentSum
  <1>3. \A s : ReceiptsOf(v, es, s) = ReceiptsOf(b, fs, s)
    BY <1>1 DEF ReceiptsOf
  <1>4. \A p, kind : Actual(v, p, kind) = Actual(b, p, kind)
    BY DEF Actual, Charges
  <1>5. ASSUME NEW i \in Invariants
        PROVE  Fails(i, v, es, over) <=> Fails(i, b, fs, other)
    <2>1. CASE i \in {"INV-001", "INV-002", "INV-003", "INV-004"}
      BY <1>1, <1>2, <1>3, <2>1 DEF Fails
    <2>2. CASE i \in {"INV-005", "INV-006", "INV-007", "INV-008"}
      BY <1>1, <1>2, <2>2 DEF Fails
    <2>3. CASE i \in {"INV-009", "INV-010", "INV-FEE-001", "INV-TAX-001"}
      BY <1>2, <1>4, <2>3 DEF Fails
    <2> QED BY <2>1, <2>2, <2>3 DEF Invariants
  <1> QED BY <1>5 DEF VerifyCase

-------------------------------------------------------------------------------
(* What a cash position says of cases.                                      *)

\* Every bucket holds the cases it names, and their contributions.
SameCash(k, V) ==
    /\ \A b \in CashBuckets :
          /\ k.buckets[b] = SumFunction([c \in InBucket(V, b) |-> Contribution(c)])
          /\ k.members[b] = {c.id : c \in InBucket(V, b)}
    /\ k.safe = k.buckets["BANK_CONFIRMED"]

\* The cash position of cases says of them what it should.
LEMMA CalculatedCash ==
    ASSUME NEW V
    PROVE  SameCash(CalculateCashPosition(V), V)
  BY DEF SameCash, CalculateCashPosition, CashBuckets

\* Cases that say the same of cash make the same position.
LEMMA CashRenamed ==
    ASSUME NEW V, IsFiniteSet(V), NEW m, \A v, w \in V : m[v] = m[w] => v = w,
           \A v \in V : /\ m[v].id = v.id /\ m[v].bucket = v.bucket
                        /\ Contribution(m[v]) = Contribution(v) /\ Contribution(v) \in Int,
           NEW k
    PROVE  SameCash(k, {m[v] : v \in V}) <=> SameCash(k, V)
  <1> DEFINE W == {m[v] : v \in V}
  <1>1. ASSUME NEW b
        PROVE  /\ SumFunction([c \in InBucket(W, b) |-> Contribution(c)])
                    = SumFunction([c \in InBucket(V, b) |-> Contribution(c)])
               /\ {c.id : c \in InBucket(W, b)} = {c.id : c \in InBucket(V, b)}
    <2> DEFINE S == InBucket(V, b)
               T == InBucket(W, b)
               h == [c \in S |-> Contribution(c)]
               f == [c \in T |-> Contribution(c)]
    <2>1. T = {m[x] : x \in S}
      BY DEF InBucket
    <2>2. \A x \in S : x \in V /\ m[x] \in T
      BY <2>1 DEF InBucket
    <2>3. \A x \in S : h[x] = f[m[x]] /\ h[x] \in Int
      BY <2>2
    <2>4. IsFiniteSet(S) /\ \A x, y \in S : m[x] = m[y] => x = y
      BY <2>2, FS_Subset
    <2>5. DOMAIN h = S /\ DOMAIN f = T
      OBVIOUS
    <2>6. {c.id : c \in T} = {c.id : c \in S}
      <3>1. \A x \in S : m[x].id = x.id
        BY <2>2
      <3> HIDE DEF S, T
      <3> QED BY <2>1, <3>1
    <2> SUFFICES SumFunction(f) = SumFunction(h)
      BY <2>6
    <2> HIDE DEF S, T, h, f
    <2>7. SumFunctionOnSet(h, S) = SumFunctionOnSet(f, {m[x] : x \in S})
      BY <2>3, <2>4, SumRenamed
    <2> QED BY <2>1, <2>5, <2>7, SumOfAll
  <1> HIDE DEF W
  <1> QED BY <1>1 DEF SameCash, W

\* There are as many rows as cases where each has the identifier of one of the other.
LEMMA RowsCount ==
    ASSUME NEW C, IsFiniteSet(C), NEW R,
           \A v, w \in C : v.id = w.id => v = w,
           \A r, q \in R : r.id = q.id => r = q,
           \A r \in R : \E v \in C : r.id = v.id,
           \A v \in C : \E r \in R : r.id = v.id
    PROVE  /\ IsFiniteSet(R) /\ Cardinality(R) = Cardinality(C)
           /\ Cardinality({r.id : r \in R}) = Cardinality(C)
  <1> DEFINE row == [v \in C |-> CHOOSE r \in R : r.id = v.id]
             id == [r \in R |-> r.id]
  <1>1. \A v \in C : row[v] \in R /\ row[v].id = v.id
    OBVIOUS
  <1>2. \A r \in R : id[r] = r.id
    OBVIOUS
  <1>3. {r.id : r \in R} = {id[r] : r \in R}
    BY <1>2
  <1> HIDE DEF row, id
  <1>4. R = {row[v] : v \in C}
    BY <1>1
  <1>5. IsFiniteSet({row[v] : v \in C}) /\ Cardinality({row[v] : v \in C}) = Cardinality(C)
    BY <1>1, ImagesCount
  <1>6. IsFiniteSet(R) /\ Cardinality(R) = Cardinality(C)
    BY <1>4, <1>5
  <1>7. Cardinality({id[r] : r \in R}) = Cardinality(R)
    BY <1>2, <1>6, ImagesCount
  <1> QED BY <1>3, <1>6, <1>7

=============================================================================
