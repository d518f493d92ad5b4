----------------------------- MODULE LegacyRows -----------------------------
(***************************************************************************)
(* The rows of one legacy response                                         *)
(* (src/internal/legacy/layers/layer.go: ChangeSet, BuildRowType,          *)
(* toEntity; src/internal/legacy/web/datasethandler.go).                   *)
(*                                                                         *)
(* The rows of a result are scanned one after the other into the same      *)
(* cells, and each is mapped to an entity with the table mapping that was  *)
(* looked up when the response began and with the base URI that is         *)
(* configured at that moment.  A row that cannot be scanned or that gets   *)
(* no id is left out.  The continuation token follows the last row, also   *)
(* when the result has broken off.                                         *)
(*                                                                         *)
(* LegacyRead has the pool, the connection and the digest; here the result *)
(* is at hand and the configuration may be replaced while it is streamed.  *)
(*                                                                         *)
(* A cell holds one of a few values: Null, an empty string, or 0, 1 and 2, *)
(* which stand for a number or a text; what the types make of them is what *)
(* matters.  External: database/sql, whose Scan fills the cells from the   *)
(* left and stops at the first that it cannot convert.                     *)
(***************************************************************************)
EXTENDS Integers, FiniteSets, Sequences

CONSTANTS
  Tables,     \* the results: sequences of columns [name, type]
  Mappings,   \* the table mappings: [cdc, types, columns], columns by name
  Base,       \* values of Datalayer.BaseUri
  MaxRows,    \* bound: rows of the result
  MaxReloads, \* bound: reloads of the configuration during the response
  Null,       \* SQL's NULL, and JSON's
  Unmapped,   \* no column mapping
  NoRow       \* no row yet

ASSUME MaxRowsAssumption == MaxRows \in Nat /\ MaxReloads \in Nat

(* A column mapping; property is the name it is given, "" for none. *)
ColumnMapping == [ignore : BOOLEAN, isId : BOOLEAN, isReference : BOOLEAN, property : STRING]

ASSUME MappingsAssumption ==
  \A m \in Mappings :
    m.cdc \in BOOLEAN /\ \A n \in DOMAIN m.columns : m.columns[n] \in ColumnMapping

ASSUME TablesAssumption ==
  Tables \subseteq
    Seq([name : STRING, type : {"string", "int", "bigint", "bit", "float", "other"}])

(* An id is not null. *)
ASSUME NullAssumption == \A b \in Base, t \in {"1", "2"} : [base |-> b, text |-> t] # Null

(* The column of the capture table that tells what happened to the row. *)
Operation == "__$operation"

(* What a column of each type may hold.  "float" stands for times and blobs *)
(* as well, "other" for every type that BuildRowType and toEntity do not    *)
(* know, CHAR and unsigned ones included.                                   *)
CellsOf(type) ==
  CASE type = "string" -> {Null, "", "1"}
    [] type \in {"int", "bigint"} -> {Null, "1", "2"}
    [] type = "bit" -> {Null, "0", "1", "2"}
    [] type \in {"float", "other"} -> {Null, "1"}

VARIABLES
  columns,  \* the columns of the result
  base,     \* Datalayer.BaseUri, as configured now
  tableDef, \* the mapping of the response
  pc,       \* where the response is
  total,    \* the number of rows of the result
  at,       \* how many of them were taken
  cells,    \* nullableRowData: what the cells hold
  row,      \* history: the row that was scanned last
  last,     \* history: what toEntity made of it, with its types; or NoEntity
  sent,     \* the rows whose entity was sent
  mapped,   \* history: the rows that have an id and were scanned
  token,    \* the continuation token was sent
  broken,   \* history: the result broke off
  bases,    \* history: the base URIs configured during the response
  reloads   \* bound: reloads so far

vars == <<columns, base, tableDef, pc, total, at, cells, row, last, sent, mapped, token,
          broken, bases, reloads>>

Column == DOMAIN columns

-----------------------------------------------------------------------------
(***************************************************************************)
(* Scanning.                                                               *)
(***************************************************************************)

(* The cells before the first row, by type.  (Mutant: a bit cell is nullable too.) *)
EmptyCellNull(type) == Null
EmptyCell(type) == IF type = "bit" THEN FALSE ELSE Null

(* What Scan leaves in a cell that held old.  A bit column keeps what it    *)
(* held unless the value is 0 or 1, or NULL, which is false.                *)
(* (Mutant: NULL does not reach the cell either.) *)
ScannedNotNull(type, old, new) ==
  IF new = Null THEN old ELSE IF type = "bit" THEN new = "1" ELSE new
Scanned(type, old, new) ==
  IF type # "bit" THEN new
  ELSE IF new = "2" THEN old ELSE new = "1"

(* The cells after the first n columns of r were scanned. *)
ScannedRow(r, n) ==
  [c \in Column |-> IF c =< n THEN Scanned(columns[c].type, cells[c], r[c]) ELSE cells[c]]

-----------------------------------------------------------------------------
(***************************************************************************)
(* toEntity: the columns one after the other.                              *)
(***************************************************************************)

NewEntity == [id |-> Null, deleted |-> FALSE, properties |-> <<>>, references |-> <<>>]

(* toEntity returned nil, or nothing yet. *)
NoEntity == [id |-> Null]

(* The map m with k set to v. *)
Set(m, k, v) == [x \in DOMAIN m \cup {k} |-> IF x = k THEN v ELSE m[x]]

MappingOf(c) ==
  IF columns[c].name \in DOMAIN tableDef.columns THEN tableDef.columns[columns[c].name]
  ELSE Unmapped

(* Columns that are not sent: those to ignore and, of a capture table,      *)
(* those of the capture unless they are mapped.                             *)
Hidden(c) ==
  IF MappingOf(c) = Unmapped THEN tableDef.cdc /\ columns[c].name = Operation
  ELSE MappingOf(c).ignore

PropertyName(c) ==
  IF MappingOf(c) # Unmapped /\ MappingOf(c).property # "" THEN MappingOf(c).property
  ELSE columns[c].name

(* val and strVal: what is sent for a cell and the text an id or a          *)
(* reference is made of.  Only strings and integers have a text.            *)
Value(type, cell) == IF type = "other" THEN Null ELSE cell
Text(type, cell) ==
  IF type \in {"string", "int", "bigint"} /\ cell \notin {Null, ""} THEN cell ELSE ""

(* What one column adds to the entity e. *)
AddColumn(e, c) ==
  LET m == MappingOf(c)
      name == PropertyName(c)
      text == Text(columns[c].type, cells[c])
      flagged == [e EXCEPT !.deleted = @ \/ (columns[c].name = Operation /\ cells[c] = "1")]
  IN IF Hidden(c) THEN flagged
     ELSE [flagged EXCEPT
            !.properties = Set(@, name, Value(columns[c].type, cells[c])),
            !.id = IF m # Unmapped /\ m.isId /\ text # "" THEN [base |-> base, text |-> text]
                   ELSE @,
            !.references = IF m # Unmapped /\ m.isReference /\ text # ""
                           THEN Set(@, name, text) ELSE @]

(* What a deletion leaves of the entity.  (Mutant: its references stay.) *)
ClearedProperties(e) == IF e.deleted THEN [e EXCEPT !.properties = <<>>] ELSE e
Cleared(e) == IF e.deleted THEN [e EXCEPT !.properties = <<>>, !.references = <<>>] ELSE e

(* The entity when the first n columns are in it. *)
EntityUpTo[n \in 0 .. Len(columns)] ==
  IF n = 0 THEN NewEntity ELSE AddColumn(EntityUpTo[n - 1], n)

ToEntity ==
  LET e == Cleared(EntityUpTo[Len(columns)]) IN IF e.id = Null THEN NoEntity ELSE e

(* The type of a mapping with one type, set on deletions as well. *)
WithType(e) ==
  IF e # NoEntity /\ tableDef.types = 1
  THEN [e EXCEPT !.references = Set(@, "rdf:type", "type")] ELSE e

(* toEntity asserts that the cell of the operation is an integer. *)
Panics == \E c \in Column : columns[c].name = Operation /\ columns[c].type # "int"

-----------------------------------------------------------------------------
(***************************************************************************)
(* The response.                                                           *)
(***************************************************************************)

Init ==
  /\ columns \in Tables
  /\ base \in Base
  /\ tableDef \in Mappings
  /\ pc = "rows"
  /\ total \in 0 .. MaxRows
  /\ at = 0
  /\ cells = [c \in Column |-> EmptyCell(columns[c].type)]
  /\ row = NoRow /\ last = NoEntity
  /\ sent = {} /\ mapped = {}
  /\ token = FALSE /\ broken = FALSE
  /\ bases = {base} /\ reloads = 0

Row == {r \in [Column -> UNION {CellsOf(columns[c].type) : c \in Column}] :
          \A c \in Column : r[c] \in CellsOf(columns[c].type)}

(* Does the row have an id, whatever the cells held before? *)
HasId(r) ==
  \E c \in Column : /\ ~Hidden(c) /\ MappingOf(c) # Unmapped /\ MappingOf(c).isId
                    /\ Text(columns[c].type, r[c]) # ""

(* rows.Next and rows.Scan. *)
ScanRow(r) ==
  /\ pc = "rows" /\ at < total
  /\ at' = at + 1
  /\ cells' = ScannedRow(r, Len(columns))
  /\ row' = r
  /\ mapped' = IF HasId(r) THEN mapped \cup {at'} ELSE mapped
  /\ pc' = "map"
  /\ UNCHANGED <<columns, base, tableDef, total, last, sent, token, broken, bases, reloads>>

(* A value that does not fit its cell: the error is logged and the row is   *)
(* left out; the cells to the left have been filled.                        *)
ScanFails(r) ==
  /\ pc = "rows" /\ at < total
  /\ at' = at + 1
  /\ \E n \in 0 .. Len(columns) - 1 : cells' = ScannedRow(r, n)
  /\ UNCHANGED <<columns, base, tableDef, pc, total, row, last, sent, mapped, token, broken,
                 bases, reloads>>

(* Where the loop goes on after a row.  (Mutant: a row without id ends it.) *)
AfterEnds(e) == IF e = NoEntity THEN "token" ELSE "rows"
After(e) == "rows"

(* toEntity and the callback, which encodes the entity at once. *)
MapRow ==
  /\ pc = "map"
  /\ ~Panics
  /\ last' = WithType(ToEntity)
  /\ sent' = IF last' = NoEntity THEN sent ELSE sent \cup {at}
  /\ pc' = After(last')
  /\ UNCHANGED <<columns, base, tableDef, total, at, cells, row, mapped, token, broken, bases,
                 reloads>>

(* The panic ends the request: the recover middleware writes after what was *)
(* sent.                                                                    *)
MapPanics ==
  /\ pc = "map"
  /\ Panics
  /\ pc' = "gone"
  /\ UNCHANGED <<columns, base, tableDef, total, at, cells, row, last, sent, mapped, token,
                 broken, bases, reloads>>

(* rows.Next returns false: after the last row, or because the result broke *)
(* off.                                                                     *)
RowsEnd ==
  /\ pc = "rows"
  /\ broken' = (at < total)
  /\ pc' = "token"
  /\ UNCHANGED <<columns, base, tableDef, total, at, cells, row, last, sent, mapped, token,
                 bases, reloads>>

(* The token, before rows.Err is looked at. *)
SendToken ==
  /\ pc = "token"
  /\ token' = tableDef.cdc
  /\ pc' = "done"
  /\ UNCHANGED <<columns, base, tableDef, total, at, cells, row, last, sent, mapped, broken,
                 bases, reloads>>

(* The configuration is replaced; the mapping of the response stays. *)
Reload(b) ==
  /\ pc \in {"rows", "map", "token"}
  /\ reloads < MaxReloads /\ reloads' = reloads + 1
  /\ b # base /\ base' = b /\ bases' = bases \cup {b}
  /\ UNCHANGED <<columns, tableDef, pc, total, at, cells, row, last, sent, mapped, token,
                 broken>>

Next ==
  \/ \E r \in Row : ScanRow(r) \/ ScanFails(r)
  \/ MapRow \/ MapPanics \/ RowsEnd \/ SendToken
  \/ \E b \in Base : Reload(b)

Spec == Init /\ [][Next]_vars

-----------------------------------------------------------------------------
(***************************************************************************)
(* Properties.                                                             *)
(***************************************************************************)

(* The values the variables range over. *)
TypeOK ==
  /\ columns \in Tables /\ tableDef \in Mappings
  /\ base \in Base /\ bases \subseteq Base
  /\ pc \in {"rows", "map", "token", "done", "gone"}
  /\ total \in 0 .. MaxRows /\ at \in 0 .. total
  /\ \A c \in Column :
       cells[c] \in IF columns[c].type = "bit" THEN BOOLEAN ELSE CellsOf(columns[c].type)
  /\ row = NoRow \/ row \in Row
  /\ last # NoEntity => /\ DOMAIN last = {"id", "deleted", "properties", "references"}
                        /\ last.id.base \in Base /\ last.deleted \in BOOLEAN
  /\ sent \subseteq 1 .. total /\ mapped \subseteq 1 .. total
  /\ token \in BOOLEAN /\ broken \in BOOLEAN
  /\ reloads \in 0 .. MaxReloads

(* What the row r alone says: the columns that are sent; of those with a    *)
(* name the last; of those that make the id the last that has a text.       *)
Shown == {c \in Column : ~Hidden(c)}
Named(n) == {c \in Shown : PropertyName(c) = n}
LastOf(S) == CHOOSE c \in S : \A d \in S : d =< c
IsDeletion(r) == \E c \in Column : columns[c].name = Operation /\ r[c] = "1"
WithText(r, S) == {c \in S : Text(columns[c].type, r[c]) # ""}
IdColumns == {c \in Shown : MappingOf(c) # Unmapped /\ MappingOf(c).isId}
ReferenceColumns == {c \in Shown : MappingOf(c) # Unmapped /\ MappingOf(c).isReference}

(* What the column c of r is sent as: any truth value if it is a bit column *)
(* with another value than 0 and 1.                                         *)
ValuesOf(r, c) ==
  IF columns[c].type # "bit" THEN {Value(columns[c].type, r[c])}
  ELSE IF r[c] = "2" THEN BOOLEAN ELSE {r[c] = "1"}

(* The entity e is that of the row r alone. *)
EntityOf(e, r) ==
  LET ids == WithText(r, IdColumns)
      refs == WithText(r, ReferenceColumns)
      deletion == IsDeletion(r)
      types == IF tableDef.types = 1 THEN {"rdf:type"} ELSE {}
  IN IF ids = {} THEN e = NoEntity
     ELSE /\ e # NoEntity
          /\ e.id.text = r[LastOf(ids)] /\ e.id.base \in bases
          /\ e.deleted = deletion
          /\ DOMAIN e.properties = IF deletion THEN {} ELSE {PropertyName(c) : c \in Shown}
          /\ \A n \in DOMAIN e.properties :
               e.properties[n] \in ValuesOf(r, LastOf(Named(n)))
          /\ DOMAIN e.references =
               types \cup IF deletion THEN {} ELSE {PropertyName(c) : c \in refs}
          /\ \A n \in DOMAIN e.references :
               e.references[n] = IF n \in types THEN "type"
                                 ELSE r[LastOf({c \in refs : PropertyName(c) = n})]

(* A row is sent if and only if it has an id, and the entity is that of the *)
(* row alone (layer.go:299-420): no value, id, reference or deletion of an  *)
(* earlier row gets into it, in spite of the cells they share, except that  *)
(* a bit column whose value is neither 0 nor 1 may be sent with the one of  *)
(* an earlier row.  The columns that are to be ignored are never sent, a    *)
(* deletion is sent without its columns, and the base of the id is one that *)
(* was configured during the response.                                      *)
SentIsTheRow == row # NoRow /\ pc # "map" /\ pc # "gone" => EntityOf(last, row)

(* A response that ends with a token has sent every row that has an id,     *)
(* unless the result broke off: a row that is left out, for want of an id   *)
(* or because it could not be scanned, does not end the others.             *)
TokenCoversRows == token /\ ~broken => at = total /\ sent = mapped
=============================================================================
