------------------------------- MODULE Ingestion -------------------------------
(***************************************************************************)
(* From five CSV files to normalized records: services/ingestion/service   *)
(* .py, services/normalization/service.py and identifiers.py.              *)
(*                                                                         *)
(* A row is a record of the values its columns mean.  An identifier is a   *)
(* natural number, the one normalize_id makes of the text: it ignores case *)
(* and punctuation, so that one identifier has several spellings, told     *)
(* apart by "spelling".  "flaw" says what cannot be read in the row.       *)
(***************************************************************************)
EXTENDS Integers, Sequences, FiniteSets

CONSTANT Null   \* a value a row does not give

ASSUME NullAssumption == Null \notin Int

\* In the order run_reconciliation reads them.
SourceTypes == <<"orders", "payments", "settlements", "settlement_components",
                 "bank_transactions">>

TypeSet == {SourceTypes[k] : k \in DOMAIN SourceTypes}

OrZero(value) == IF value = Null THEN 0 ELSE value

\* A column whose name no row of the type uses is Null.
BlankRow ==
    [id |-> Null, spelling |-> 0, flaw |-> "none", order |-> Null, settlement |-> Null,
     event |-> Null, component |-> Null, amount |-> Null, debit |-> FALSE, currency |-> Null,
     merchant |-> Null, status |-> Null, day |-> Null, late |-> FALSE, due |-> Null, utr |-> Null,
     utrs |-> {}, references |-> {}, cells |-> "all"]

Given(S) == S \cup {Null}

\* What may be written in a row, and the files that can be uploaded: no row that can be
\* read misses its amount, whatever its type.  A row that is "cut" ends before the column
\* of its identifier, a "short" one after it.
SourceRow ==
    [id : Given(Nat), spelling : Nat, flaw : STRING, order : Given(Nat), settlement : Given(Nat),
     event : Given(Nat), component : Given(STRING), amount : Given(Int), debit : BOOLEAN,
     currency : Given(STRING), merchant : Given(Nat), status : Given(STRING), day : Given(Int),
     late : BOOLEAN, due : Given(Int), utr : Given(Nat), utrs : SUBSET Nat,
     references : SUBSET Nat, cells : {"all", "short", "surplus", "cut"}]

SourceFile ==
    {file \in [columns : Given(TypeSet), complete : BOOLEAN, rows : Seq(SourceRow)] :
        file.complete => \A i \in DOMAIN file.rows :
            file.rows[i].flaw = "none" => file.rows[i].amount # Null}

\* What is kept of a row: a cell it is short of is empty, a surplus cell is dropped.
RawValues(row) == [row EXCEPT !.cells = "all"]

-------------------------------------------------------------------------------
(* Ingestion of one file.  "columns" is the type whose columns the header   *)
(* row shares most with, "complete" says that none of them is missing.      *)

DetectedType(file, requested) == IF file.columns = Null THEN requested ELSE file.columns

\* Row numbers count the header line.
RowNumber(i) == i + 1

RowIssues(row) ==
    CASE row.id = Null \/ row.flaw # "none" -> <<"MALFORMED_INPUT">>
      [] OTHER -> <<>>

\* source_record_id: what is written in the row, else the place of the row.
SameSourceId(p, q) == p.id # Null /\ p.id = q.id /\ p.spelling = q.spelling

Others(rows, i) == DOMAIN rows \ {i}

DuplicateIssues(rows, i) ==
    (IF \E j \in Others(rows, i) : SameSourceId(rows[j], rows[i])
        THEN <<"DUPLICATE_SOURCE_RECORD">> ELSE <<>>)
    \o (IF \E j \in Others(rows, i) : RawValues(rows[j]) = RawValues(rows[i])
        THEN <<"DUPLICATE_SOURCE_RECORD">> ELSE <<>>)

FileIssues(file) == IF file.complete THEN <<>> ELSE <<"MISSING_REQUIRED_FIELD">>

TypeNumber(type) == CHOOSE k \in DOMAIN SourceTypes : SourceTypes[k] = type

\* A missing column rejects every row before duplicates are looked for.  A row
\* that is rejected for an issue of its own loses its parsed record.
IngestedRow(file, requested, i) ==
    LET row == file.rows[i]
        issues == RowIssues(row) \o (IF file.complete THEN DuplicateIssues(file.rows, i)
                                                      ELSE FileIssues(file))
    IN  [raw |-> row, file |-> TypeNumber(requested), type |-> DetectedType(file, requested),
         row |-> RowNumber(i), issues |-> issues,
         quality |-> IF issues = <<>> THEN "VALID" ELSE "INVALID",
         parsed |-> RowIssues(row) = <<>> /\ (issues = <<>> \/ ~file.complete)]

\* ingest_file raises on a row that has no cell for its identifier.
Raises(file) == \E i \in DOMAIN file.rows : file.rows[i].cells = "cut"

IngestFile(file, requested) == {IngestedRow(file, requested, i) : i \in DOMAIN file.rows}

\* Files are read one after the other, of each the accepted rows before the rejected ones.
ReadBefore(p, q) ==
    \/ p.file < q.file
    \/ p.file = q.file /\ p.quality = "VALID" /\ q.quality = "INVALID"
    \/ p.file = q.file /\ p.quality = q.quality /\ p.row < q.row

\* _quality_for_result.
FileQuality(file, requested) ==
    LET rows == IngestFile(file, requested)
        rejected == {r \in rows : r.quality = "INVALID"}
    IN  CASE ~file.complete \/ (rejected # {} /\ rejected = rows) -> "INVALID"
          [] rejected # {} /\ rejected # rows -> "PARTIAL"
          [] OTHER -> "VALID"

-------------------------------------------------------------------------------
(* Normalization of one row.                                                *)

\* An identifier that stands for a row without one.
PlaceId(r) == -(10 * r.row + TypeNumber(r.type))
EntityId(r) == IF r.raw.id = Null THEN PlaceId(r) ELSE r.raw.id

PrimaryAmount(row) == IF row.flaw = "amount" THEN Null ELSE row.amount

SignedAmount(row) ==
    IF PrimaryAmount(row) # Null /\ row.debit THEN -PrimaryAmount(row) ELSE PrimaryAmount(row)

\* The dates matching uses come from the parsed record only, everything else from the
\* text: "eventDay" is the day the text gives.
BuildNormalizedRecord(r, pos) ==
    LET raw == r.raw
    IN  [type |-> r.type, id |-> EntityId(r), row |-> r.row, quality |-> r.quality,
         issues |-> r.issues, order |-> IF r.type = "orders" THEN raw.id ELSE raw.order,
         settlement |-> IF r.type = "settlements" THEN raw.id ELSE raw.settlement,
         payment |-> IF r.type = "payments" THEN raw.id ELSE Null,
         event |-> raw.event, component |-> raw.component, amount |-> PrimaryAmount(raw),
         signed |-> SignedAmount(raw), currency |-> raw.currency, merchant |-> raw.merchant,
         status |-> raw.status, utr |-> raw.utr, references |-> raw.references,
         late |-> raw.late, utrs |-> raw.utrs \cup ({raw.utr} \ {Null}),
         eventDay |-> IF raw.flaw = "date" THEN Null ELSE raw.day,
         day |-> IF r.parsed THEN raw.day ELSE Null,
         due |-> IF r.parsed THEN raw.due ELSE Null, pos |-> pos]

\* The records of a run; "pos" is the order every later stage reads them in.
NormalizeRecords(rows) ==
    {BuildNormalizedRecord(r, Cardinality({q \in rows : ReadBefore(q, r)})) : r \in rows}

OfType(records, type) == {r \in records : r.type = type}

=============================================================================
