-------------------------- MODULE LegacyRowsProofs --------------------------
(***************************************************************************)
(* Theorems about the rows of a legacy response, for results of any number *)
(* of columns and rows, any mapping and any number of reloads.             *)
(***************************************************************************)
EXTENDS LegacyRows, TLAPS, WellFoundedInduction

-----------------------------------------------------------------------------
(***************************************************************************)
(* Counting.                                                               *)
(***************************************************************************)

LEMMA LeastOf ==
  ASSUME NEW T \in SUBSET Nat, T # {} PROVE \E x \in T : \A y \in T : x =< y
<1>1. PICK x \in T : \A y \in T : <<y, x>> \notin OpToRel(<, Nat)
  BY NatLessThanWellFounded, WFMin
<1>2. ASSUME NEW y \in T PROVE x =< y
  <2>1. x \in Nat /\ y \in Nat
    OBVIOUS
  <2>2. CASE y < x
    <3>1. <<y, x>> \in OpToRel(<, Nat)
      BY <2>1, <2>2 DEF OpToRel
    <3> QED BY <1>1, <3>1
  <2> QED BY <2>1, <2>2
<1> QED BY <1>2

(* What holds for none and for one more than any holds for all: no set has  *)
(* an element whose predecessors are all outside.                           *)
LEMMA NoLeast ==
  ASSUME NEW L \in Nat, NEW T \in SUBSET (0 .. L), 0 \notin T,
         \A n \in 1 .. L : n - 1 \notin T => n \notin T
  PROVE  T = {}
<1> SUFFICES ASSUME T # {} PROVE FALSE
  OBVIOUS
<1>1. T \in SUBSET Nat
  OBVIOUS
<1>2. PICK x \in T : \A y \in T : x =< y
  BY <1>1, LeastOf
<1>3. x \in 1 .. L /\ x - 1 \notin T
  BY <1>2
<1> QED BY <1>3

(* A column of a set is the last one of it. *)
LEMMA LastOfSome ==
  ASSUME NEW L \in Nat, NEW S \in SUBSET (1 .. L), S # {}
  PROVE  LastOf(S) \in S /\ \A d \in S : d =< LastOf(S)
<1> DEFINE T == {L - s : s \in S}
<1>1. T \in SUBSET Nat /\ T # {}
  <2>1. ASSUME NEW s \in S PROVE L - s \in Nat
    <3>1. s \in 1 .. L
      OBVIOUS
    <3> QED BY <3>1
  <2> QED BY <2>1
<1>2. PICK x \in T : \A y \in T : x =< y
  <2> HIDE DEF T
  <2> QED BY <1>1, LeastOf
<1>3. PICK s \in S : x = L - s
  OBVIOUS
<1>4. ASSUME NEW d \in S PROVE d =< s
  <2>1. L - d \in T /\ d \in 1 .. L /\ s \in 1 .. L
    OBVIOUS
  <2>2. x =< L - d
    BY <1>2, <2>1
  <2> QED BY <1>3, <2>1, <2>2
<1>5. \E c \in S : \A d \in S : d =< c
  BY <1>4
<1> QED BY <1>5 DEF LastOf

-----------------------------------------------------------------------------
(***************************************************************************)
(* The function that maps the columns one after the other is what its      *)
(* definition says.                                                        *)
(***************************************************************************)

LEMMA EntityUpToIs ==
  ASSUME Len(columns) \in Nat
  PROVE  /\ EntityUpTo[0] = NewEntity
         /\ \A n \in 1 .. Len(columns) : EntityUpTo[n] = AddColumn(EntityUpTo[n - 1], n)
<1> DEFINE L == Len(columns)
           Maps(g, m) == g = [n \in 0 .. m |->
                                IF n = 0 THEN NewEntity ELSE AddColumn(g[n - 1], n)]
           Bad == {m \in 0 .. L : ~ \E g : Maps(g, m)}
<1>1. 0 \notin Bad
  <2> DEFINE g == [n \in 0 .. 0 |-> NewEntity]
  <2>1. Maps(g, 0)
    OBVIOUS
  <2> HIDE DEF Maps
  <2> QED BY <2>1
<1>2. ASSUME NEW m \in 1 .. L, m - 1 \notin Bad PROVE m \notin Bad
  <2>1. PICK g : Maps(g, m - 1)
    BY <1>2
  <2> DEFINE h == [n \in 0 .. m |-> IF n = m THEN AddColumn(g[m - 1], m) ELSE g[n]]
  <2>2. ASSUME NEW n \in 0 .. m
        PROVE  h[n] = IF n = 0 THEN NewEntity ELSE AddColumn(h[n - 1], n)
    <3>1. CASE n = m
      <4>1. h[n] = AddColumn(g[m - 1], m) /\ h[m - 1] = g[m - 1] /\ n # 0
        BY <3>1
      <4> QED BY <3>1, <4>1
    <3>2. CASE n # m
      <4>1. n \in 0 .. m - 1 /\ h[n] = g[n]
        BY <3>2
      <4>2. g[n] = IF n = 0 THEN NewEntity ELSE AddColumn(g[n - 1], n)
        BY <2>1, <4>1
      <4>3. n # 0 => h[n - 1] = g[n - 1]
        BY <4>1
      <4> QED BY <4>1, <4>2, <4>3
    <3> QED BY <3>1, <3>2
  <2>3. h = [n \in 0 .. m |-> h[n]]
    OBVIOUS
  <2>4. Maps(h, m)
    <3> HIDE DEF h
    <3> QED BY <2>2, <2>3
  <2> HIDE DEF Maps, h
  <2> QED BY <2>4
<1>3. Bad = {}
  <2>1. L \in Nat /\ Bad \in SUBSET (0 .. L)
    OBVIOUS
  <2> HIDE DEF Bad, L
  <2> QED BY <1>1, <1>2, <2>1, NoLeast
<1>4. \E g : Maps(g, L)
  BY <1>3
<1>5. EntityUpTo = CHOOSE g : Maps(g, L)
  BY DEF EntityUpTo
<1>6. Maps(EntityUpTo, L)
  <2> HIDE DEF Maps
  <2> QED BY <1>4, <1>5
<1> QED BY <1>6

-----------------------------------------------------------------------------
(***************************************************************************)
(* What toEntity makes of a row that is in the cells.                      *)
(***************************************************************************)

(* The cells hold the row, but for bit columns with another value than 0    *)
(* and 1, which hold a truth value.                                         *)
CellsHold ==
  \A c \in Column :
    IF columns[c].type = "bit"
    THEN cells[c] \in BOOLEAN /\ (row[c] # "2" => cells[c] = (row[c] = "1"))
    ELSE cells[c] = row[c]

(* The columns of S among the first n. *)
First(S, n) == {c \in S : c =< n}

(* e has the fields of an entity. *)
IsEntity(e) ==
  e = [id |-> e.id, deleted |-> e.deleted, properties |-> e.properties,
       references |-> e.references]

Deletes(c) == columns[c].name = Operation /\ cells[c] = "1"

(* What the first n columns of the row say, in the entity e.                *)
IdUpTo(e, n) ==
  LET ids == First(WithText(row, IdColumns), n)
  IN /\ ids = {} => e.id = Null
     /\ \A c \in ids : (\A d \in ids : d =< c) => e.id = [base |-> base, text |-> row[c]]

DeletedUpTo(e, n) == e.deleted <=> \E c \in First(Column, n) : Deletes(c)

PropertiesUpTo(e, n) ==
  /\ DOMAIN e.properties = {PropertyName(c) : c \in First(Shown, n)}
  /\ \A c \in First(Shown, n) :
       (\A d \in First(Shown, n) : PropertyName(d) = PropertyName(c) => d =< c) =>
         e.properties[PropertyName(c)] = Value(columns[c].type, cells[c])

ReferencesUpTo(e, n) ==
  LET refs == First(WithText(row, ReferenceColumns), n)
  IN /\ DOMAIN e.references = {PropertyName(c) : c \in refs}
     /\ \A c \in refs : (\A d \in refs : PropertyName(d) = PropertyName(c) => d =< c) =>
          e.references[PropertyName(c)] = row[c]

MappedUpTo(e, n) ==
  /\ IsEntity(e) /\ e.deleted \in BOOLEAN
  /\ IdUpTo(e, n) /\ DeletedUpTo(e, n) /\ PropertiesUpTo(e, n) /\ ReferencesUpTo(e, n)

LEMMA ElementOf ==
  ASSUME NEW S, NEW s \in Seq(S), NEW i \in 1 .. Len(s) PROVE s[i] \in S
OBVIOUS

LEMMA ColumnIs ==
  ASSUME columns \in Tables
  PROVE  /\ Len(columns) \in Nat /\ Column = 1 .. Len(columns)
         /\ \A c \in Column :
              columns[c].type \in {"string", "int", "bigint", "bit", "float", "other"}
<1>1. columns \in Seq([name : STRING,
                       type : {"string", "int", "bigint", "bit", "float", "other"}])
  BY TablesAssumption
<1>2. Len(columns) \in Nat /\ Column = 1 .. Len(columns)
  BY <1>1 DEF Column
<1>3. ASSUME NEW c \in Column
      PROVE  columns[c].type \in {"string", "int", "bigint", "bit", "float", "other"}
  <2>1. columns[c] \in [name : STRING,
                        type : {"string", "int", "bigint", "bit", "float", "other"}]
    BY <1>1, <1>2, ElementOf
  <2> QED BY <2>1
<1> QED BY <1>2, <1>3

(* The text of a cell is that of the row; a truth value has none. *)
LEMMA TextOfRow ==
  ASSUME CellsHold, NEW c \in Column
  PROVE  /\ Text(columns[c].type, cells[c]) = Text(columns[c].type, row[c])
         /\ Text(columns[c].type, row[c]) # "" => Text(columns[c].type, row[c]) = row[c]
BY DEF CellsHold, Text

(* What one column does to the fields of an entity. *)
LEMMA AddedColumn ==
  ASSUME NEW c, NEW e, IsEntity(e)
  PROVE  LET a == AddColumn(e, c)
             m == MappingOf(c)
             name == PropertyName(c)
             text == Text(columns[c].type, cells[c])
         IN /\ IsEntity(a)
            /\ a.deleted = (e.deleted \/ Deletes(c))
            /\ Hidden(c) => /\ a.id = e.id /\ a.properties = e.properties
                            /\ a.references = e.references
            /\ ~Hidden(c) =>
                 /\ a.id = IF m # Unmapped /\ m.isId /\ text # ""
                           THEN [base |-> base, text |-> text] ELSE e.id
                 /\ a.properties = Set(e.properties, name, Value(columns[c].type, cells[c]))
                 /\ a.references = IF m # Unmapped /\ m.isReference /\ text # ""
                                   THEN Set(e.references, name, text) ELSE e.references
<1> DEFINE m == MappingOf(c)
           name == PropertyName(c)
           text == Text(columns[c].type, cells[c])
           val == Value(columns[c].type, cells[c])
           del == e.deleted \/ Deletes(c)
           flagged == [e EXCEPT !.deleted = @ \/ Deletes(c)]
           props == Set(e.properties, name, val)
           id == IF m # Unmapped /\ m.isId /\ text # ""
                 THEN [base |-> base, text |-> text] ELSE e.id
           refs == IF m # Unmapped /\ m.isReference /\ text # ""
                   THEN Set(e.references, name, text) ELSE e.references
<1>1. flagged = [id |-> e.id, deleted |-> del, properties |-> e.properties,
                 references |-> e.references]
  BY DEF IsEntity
<1>2. AddColumn(e, c) =
        IF Hidden(c) THEN flagged
        ELSE [flagged EXCEPT
               !.properties = Set(@, name, val),
               !.id = IF m # Unmapped /\ m.isId /\ text # "" THEN [base |-> base, text |-> text]
                      ELSE @,
               !.references = IF m # Unmapped /\ m.isReference /\ text # ""
                              THEN Set(@, name, text) ELSE @]
  BY DEF AddColumn, Deletes
<1> HIDE DEF m, name, text, val, del, flagged
<1>3. CASE Hidden(c)
  <2>1. AddColumn(e, c) = [id |-> e.id, deleted |-> del, properties |-> e.properties,
                           references |-> e.references]
    BY <1>1, <1>2, <1>3
  <2> QED BY <1>3, <2>1 DEF IsEntity, del
<1>4. CASE ~Hidden(c)
  <2>1. AddColumn(e, c) = [flagged EXCEPT !.properties = props, !.id = id, !.references = refs]
    BY <1>1, <1>2, <1>4
  <2> HIDE DEF props, id, refs
  <2>2. AddColumn(e, c) = [id |-> id, deleted |-> del, properties |-> props,
                           references |-> refs]
    BY <1>1, <2>1
  <2>3. /\ IsEntity(AddColumn(e, c)) /\ AddColumn(e, c).deleted = del
        /\ AddColumn(e, c).id = id /\ AddColumn(e, c).properties = props
        /\ AddColumn(e, c).references = refs
    BY <2>2 DEF IsEntity
  <2> QED BY <1>4, <2>3 DEF props, id, refs, m, name, text, val, del
<1> QED BY <1>3, <1>4

(* One column more. *)
LEMMA FirstIs ==
  ASSUME NEW L \in Nat, NEW S \in SUBSET (1 .. L), NEW n \in 1 .. L
  PROVE  /\ First(S, n) = IF n \in S THEN First(S, n - 1) \cup {n} ELSE First(S, n - 1)
         /\ \A c \in First(S, n - 1) : c \in Nat /\ c =< n /\ c # n
<1>1. \A c \in S : c \in Nat /\ 1 =< c /\ c =< L
  OBVIOUS
<1>2. \A c \in S : c =< n <=> c =< n - 1 \/ c = n
  BY <1>1
<1>3. First(S, n) = IF n \in S THEN First(S, n - 1) \cup {n} ELSE First(S, n - 1)
  <2>1. \A c : c \in First(S, n) <=> c \in First(S, n - 1) \/ (c = n /\ n \in S)
    BY <1>2 DEF First
  <2> QED BY <2>1
<1>4. \A c \in First(S, n - 1) : c \in Nat /\ c =< n /\ c # n
  BY <1>1 DEF First
<1> QED BY <1>3, <1>4

LEMMA FirstNone ==
  ASSUME NEW L \in Nat, NEW S \in SUBSET (1 .. L)
  PROVE  First(S, 0) = {} /\ First(S, L) = S
<1>1. \A c \in S : c \in Nat /\ 1 =< c /\ c =< L
  OBVIOUS
<1>2. \A c \in S : ~(c =< 0)
  BY <1>1
<1> QED BY <1>1, <1>2 DEF First

LEMMA NothingMapped ==
  ASSUME columns \in Tables PROVE MappedUpTo(NewEntity, 0)
<1>1. Len(columns) \in Nat /\ Column = 1 .. Len(columns)
  BY ColumnIs
<1>2. \A S \in SUBSET Column : First(S, 0) = {}
  BY <1>1, FirstNone
<1>3. /\ Shown \in SUBSET Column /\ WithText(row, IdColumns) \in SUBSET Column
      /\ WithText(row, ReferenceColumns) \in SUBSET Column
  BY DEF Shown, WithText, IdColumns, ReferenceColumns
<1>4. /\ NewEntity.id = Null /\ NewEntity.deleted = FALSE
      /\ DOMAIN NewEntity.properties = {} /\ DOMAIN NewEntity.references = {}
      /\ IsEntity(NewEntity)
  BY DEF NewEntity, IsEntity
<1>5. IdUpTo(NewEntity, 0)
  BY <1>2, <1>3, <1>4 DEF IdUpTo
<1>6. DeletedUpTo(NewEntity, 0)
  BY <1>2, <1>4 DEF DeletedUpTo
<1>7. PropertiesUpTo(NewEntity, 0)
  BY <1>2, <1>3, <1>4 DEF PropertiesUpTo
<1>8. ReferencesUpTo(NewEntity, 0)
  BY <1>2, <1>3, <1>4 DEF ReferencesUpTo
<1> QED BY <1>4, <1>5, <1>6, <1>7, <1>8 DEF MappedUpTo

LEMMA OneMapped ==
  ASSUME columns \in Tables, CellsHold, NEW n \in 1 .. Len(columns), NEW e,
         MappedUpTo(e, n - 1)
  PROVE  MappedUpTo(AddColumn(e, n), n)
<1> DEFINE L == Len(columns)
           a == AddColumn(e, n)
           m == MappingOf(n)
           name == PropertyName(n)
           text == Text(columns[n].type, cells[n])
           val == Value(columns[n].type, cells[n])
           IdS == WithText(row, IdColumns)
           RefS == WithText(row, ReferenceColumns)
<1>1. L \in Nat /\ Column = 1 .. L
  BY ColumnIs
<1>2. Shown \in SUBSET (1 .. L) /\ IdS \in SUBSET (1 .. L) /\ RefS \in SUBSET (1 .. L)
  BY <1>1 DEF Shown, WithText, IdColumns, ReferenceColumns
<1>3. /\ IsEntity(e) /\ e.deleted \in BOOLEAN
      /\ IdUpTo(e, n - 1) /\ DeletedUpTo(e, n - 1) /\ PropertiesUpTo(e, n - 1)
      /\ ReferencesUpTo(e, n - 1)
  BY DEF MappedUpTo
<1>4. /\ IsEntity(a) /\ a.deleted = (e.deleted \/ Deletes(n))
      /\ Hidden(n) => /\ a.id = e.id /\ a.properties = e.properties
                      /\ a.references = e.references
      /\ ~Hidden(n) =>
           /\ a.id = IF m # Unmapped /\ m.isId /\ text # ""
                     THEN [base |-> base, text |-> text] ELSE e.id
           /\ a.properties = Set(e.properties, name, val)
           /\ a.references = IF m # Unmapped /\ m.isReference /\ text # ""
                             THEN Set(e.references, name, text) ELSE e.references
  BY <1>3, AddedColumn
<1>5. /\ text = Text(columns[n].type, row[n])
      /\ text # "" => text = row[n]
  BY <1>1, TextOfRow
<1>6. /\ n \in Shown <=> ~Hidden(n)
      /\ n \in IdS <=> ~Hidden(n) /\ m # Unmapped /\ m.isId /\ text # ""
      /\ n \in RefS <=> ~Hidden(n) /\ m # Unmapped /\ m.isReference /\ text # ""
  BY <1>1, <1>5 DEF Shown, WithText, IdColumns, ReferenceColumns
<1>7. ASSUME NEW S \in SUBSET (1 .. L)
      PROVE  /\ First(S, n) = IF n \in S THEN First(S, n - 1) \cup {n} ELSE First(S, n - 1)
             /\ \A c \in First(S, n - 1) : c \in Nat /\ c =< n /\ c # n
  BY <1>1, FirstIs
<1>a. n \in Nat
  OBVIOUS
<1> HIDE DEF L, a, m, name, text, val, IdS, RefS
<1>8. IdUpTo(a, n)
  <2>1. CASE n \in IdS
    <3>1. a.id = [base |-> base, text |-> row[n]]
      BY <1>4, <1>5, <1>6, <2>1
    <3>2. n \in First(IdS, n)
      BY <1>2, <1>7, <2>1
    <3>3. ASSUME NEW c \in First(IdS, n), \A d \in First(IdS, n) : d =< c PROVE c = n
      BY <1>2, <1>7, <1>a, <2>1, <3>2, <3>3
    <3> QED BY <3>1, <3>2, <3>3 DEF IdUpTo, IdS
  <2>2. CASE n \notin IdS
    <3>1. a.id = e.id /\ First(IdS, n) = First(IdS, n - 1)
      BY <1>2, <1>4, <1>6, <1>7, <2>2
    <3> QED BY <1>3, <3>1 DEF IdUpTo, IdS
  <2> QED BY <2>1, <2>2
<1>9. DeletedUpTo(a, n) /\ a.deleted \in BOOLEAN
  <2>1. First(Column, n) = First(Column, n - 1) \cup {n}
    BY <1>1, <1>7 DEF L
  <2>2. e.deleted <=> \E c \in First(Column, n - 1) : Deletes(c)
    BY <1>3 DEF DeletedUpTo
  <2>3. a.deleted <=> \E c \in First(Column, n) : Deletes(c)
    BY <1>4, <2>1, <2>2
  <2> QED BY <1>3, <1>4, <2>3 DEF DeletedUpTo
<1>10. PropertiesUpTo(a, n)
  <2>1. CASE n \in Shown
    <3>1. /\ First(Shown, n) = First(Shown, n - 1) \cup {n}
          /\ a.properties = Set(e.properties, name, val)
      BY <1>2, <1>4, <1>6, <1>7, <2>1
    <3>2. /\ DOMAIN a.properties = DOMAIN e.properties \cup {name}
          /\ a.properties[name] = val
          /\ \A x \in DOMAIN e.properties : x # name => a.properties[x] = e.properties[x]
      <4> DEFINE p == e.properties
      <4>1. /\ DOMAIN Set(p, name, val) = DOMAIN p \cup {name}
            /\ Set(p, name, val)[name] = val
            /\ \A x \in DOMAIN p : x # name => Set(p, name, val)[x] = p[x]
        BY DEF Set
      <4> QED BY <3>1, <4>1
    <3>3. DOMAIN a.properties = {PropertyName(c) : c \in First(Shown, n)}
      BY <1>3, <3>1, <3>2 DEF PropertiesUpTo, name
    <3>4. ASSUME NEW c \in First(Shown, n),
                 \A d \in First(Shown, n) : PropertyName(d) = PropertyName(c) => d =< c
          PROVE  a.properties[PropertyName(c)] = Value(columns[c].type, cells[c])
      <4>1. CASE PropertyName(c) = name
        <5>1. n =< c
          BY <3>1, <3>4, <4>1 DEF name
        <5>2. c = n
          BY <1>2, <1>7, <1>a, <3>1, <5>1
        <5> QED BY <3>2, <4>1, <5>2 DEF val
      <4>2. CASE PropertyName(c) # name
        <5>1. c \in First(Shown, n - 1)
          BY <3>1, <4>2 DEF name
        <5>2. e.properties[PropertyName(c)] = Value(columns[c].type, cells[c])
          BY <1>3, <3>1, <3>4, <5>1 DEF PropertiesUpTo
        <5>3. PropertyName(c) \in DOMAIN e.properties
          BY <1>3, <5>1 DEF PropertiesUpTo
        <5> QED BY <3>2, <4>2, <5>2, <5>3
      <4> QED BY <4>1, <4>2
    <3> QED BY <3>3, <3>4 DEF PropertiesUpTo
  <2>2. CASE n \notin Shown
    <3>1. a.properties = e.properties /\ First(Shown, n) = First(Shown, n - 1)
      BY <1>2, <1>4, <1>6, <1>7, <2>2
    <3> QED BY <1>3, <3>1 DEF PropertiesUpTo
  <2> QED BY <2>1, <2>2
<1>11. ReferencesUpTo(a, n)
  <2>1. CASE n \in RefS
    <3>1. /\ First(RefS, n) = First(RefS, n - 1) \cup {n}
          /\ a.references = Set(e.references, name, row[n])
      BY <1>2, <1>4, <1>5, <1>6, <1>7, <2>1
    <3>2. /\ DOMAIN a.references = DOMAIN e.references \cup {name}
          /\ a.references[name] = row[n]
          /\ \A x \in DOMAIN e.references : x # name => a.references[x] = e.references[x]
      <4> DEFINE p == e.references
      <4>1. /\ DOMAIN Set(p, name, row[n]) = DOMAIN p \cup {name}
            /\ Set(p, name, row[n])[name] = row[n]
            /\ \A x \in DOMAIN p : x # name => Set(p, name, row[n])[x] = p[x]
        BY DEF Set
      <4> QED BY <3>1, <4>1
    <3>3. DOMAIN a.references = {PropertyName(c) : c \in First(RefS, n)}
      BY <1>3, <3>1, <3>2 DEF ReferencesUpTo, name, RefS
    <3>4. ASSUME NEW c \in First(RefS, n),
                 \A d \in First(RefS, n) : PropertyName(d) = PropertyName(c) => d =< c
          PROVE  a.references[PropertyName(c)] = row[c]
      <4>1. CASE PropertyName(c) = name
        <5>1. n =< c
          BY <3>1, <3>4, <4>1 DEF name
        <5>2. c = n
          BY <1>2, <1>7, <1>a, <3>1, <5>1
        <5> QED BY <3>2, <4>1, <5>2
      <4>2. CASE PropertyName(c) # name
        <5>1. c \in First(RefS, n - 1)
          BY <3>1, <4>2 DEF name
        <5>2. e.references[PropertyName(c)] = row[c]
          BY <1>3, <3>1, <3>4, <5>1 DEF ReferencesUpTo, RefS
        <5>3. PropertyName(c) \in DOMAIN e.references
          BY <1>3, <5>1 DEF ReferencesUpTo, RefS
        <5> QED BY <3>2, <4>2, <5>2, <5>3
      <4> QED BY <4>1, <4>2
    <3> QED BY <3>3, <3>4 DEF ReferencesUpTo, RefS
  <2>2. CASE n \notin RefS
    <3>1. a.references = e.references /\ First(RefS, n) = First(RefS, n - 1)
      BY <1>2, <1>4, <1>6, <1>7, <2>2
    <3> QED BY <1>3, <3>1 DEF ReferencesUpTo, RefS
  <2> QED BY <2>1, <2>2
<1> QED BY <1>4, <1>8, <1>9, <1>10, <1>11 DEF MappedUpTo, a

(* When all columns are mapped, the entity says what the row says. *)
LEMMA AllMapped ==
  ASSUME columns \in Tables, CellsHold
  PROVE  MappedUpTo(EntityUpTo[Len(columns)], Len(columns))
<1> DEFINE L == Len(columns)
           Bad == {n \in 0 .. L : ~MappedUpTo(EntityUpTo[n], n)}
<1>1. L \in Nat
  BY ColumnIs
<1>2. EntityUpTo[0] = NewEntity /\ \A n \in 1 .. L : EntityUpTo[n] = AddColumn(EntityUpTo[n - 1], n)
  BY <1>1, EntityUpToIs
<1>3. 0 \notin Bad
  BY <1>2, NothingMapped
<1>4. ASSUME NEW n \in 1 .. L, n - 1 \notin Bad PROVE n \notin Bad
  <2>1. MappedUpTo(EntityUpTo[n - 1], n - 1)
    BY <1>1, <1>4
  <2>2. MappedUpTo(AddColumn(EntityUpTo[n - 1], n), n)
    BY <2>1, OneMapped
  <2> QED BY <1>2, <2>2
<1>5. Bad = {}
  <2>1. Bad \in SUBSET (0 .. L)
    OBVIOUS
  <2> HIDE DEF Bad, L
  <2> QED BY <1>1, <1>3, <1>4, <2>1, NoLeast
<1> QED BY <1>1, <1>5

(* The value a column is sent with is the one of the row, or any truth      *)
(* value if it is a bit column with another value than 0 and 1.             *)
LEMMA ValueOfRow ==
  ASSUME CellsHold, NEW c \in Column
  PROVE  Value(columns[c].type, cells[c]) \in ValuesOf(row, c)
<1>1. CASE columns[c].type = "bit"
  <2>1. Value(columns[c].type, cells[c]) = cells[c]
    BY <1>1 DEF Value
  <2>2. cells[c] \in BOOLEAN /\ (row[c] # "2" => cells[c] = (row[c] = "1"))
    BY <1>1 DEF CellsHold
  <2>3. ValuesOf(row, c) = IF row[c] = "2" THEN BOOLEAN ELSE {row[c] = "1"}
    BY <1>1 DEF ValuesOf
  <2> QED BY <2>1, <2>2, <2>3
<1>2. CASE columns[c].type # "bit"
  BY <1>2 DEF CellsHold, ValuesOf
<1> QED BY <1>1, <1>2

(* A column that makes an id has a text, and the text is no empty one. *)
LEMMA IdText ==
  ASSUME columns \in Tables, row \in Row, NEW c \in WithText(row, IdColumns)
  PROVE  row[c] \in {"1", "2"}
<1>1. c \in Column /\ Text(columns[c].type, row[c]) # ""
  BY DEF WithText, IdColumns, Shown
<1>2. columns[c].type \in {"string", "int", "bigint"} /\ row[c] \notin {Null, ""}
  BY <1>1 DEF Text
<1>3. row[c] \in CellsOf(columns[c].type)
  BY <1>1 DEF Row
<1>4. CASE columns[c].type = "string"
  <2>1. CellsOf(columns[c].type) = {Null, "", "1"}
    BY <1>4 DEF CellsOf
  <2> QED BY <1>2, <1>3, <2>1
<1>5. CASE columns[c].type # "string"
  <2>1. CellsOf(columns[c].type) = {Null, "1", "2"}
    BY <1>2, <1>5 DEF CellsOf
  <2> QED BY <1>2, <1>3, <2>1
<1> QED BY <1>4, <1>5

(* A record with four fields is not NoEntity. *)
LEMMA EntityIsSome ==
  ASSUME NEW i, NEW d, NEW p, NEW r
  PROVE  [id |-> i, deleted |-> d, properties |-> p, references |-> r] # NoEntity
<1> DEFINE e == [id |-> i, deleted |-> d, properties |-> p, references |-> r]
<1>1. "deleted" \in DOMAIN e /\ "deleted" \notin DOMAIN NoEntity
  BY DEF NoEntity
<1> HIDE DEF e
<1> QED BY <1>1

(* What toEntity returns and ChangeSet sends is the entity of the row in    *)
(* the cells.                                                               *)
LEMMA MappedIsTheRow ==
  ASSUME columns \in Tables, CellsHold, row \in Row, ~Panics, base \in bases, base \in Base
  PROVE  LET e == WithType(ToEntity)
         IN /\ EntityOf(e, row)
            /\ e # NoEntity => /\ DOMAIN e = {"id", "deleted", "properties", "references"}
                               /\ e.id.base \in Base /\ e.deleted \in BOOLEAN
<1> DEFINE L == Len(columns)
           f == EntityUpTo[L]
           e == WithType(ToEntity)
           ids == WithText(row, IdColumns)
           refs == WithText(row, ReferenceColumns)
           types == IF tableDef.types = 1 THEN {"rdf:type"} ELSE {}
<1>1. L \in Nat /\ Column = 1 .. L
  BY ColumnIs
<1>2. Shown \in SUBSET (1 .. L) /\ ids \in SUBSET (1 .. L) /\ refs \in SUBSET (1 .. L)
  BY <1>1 DEF Shown, WithText, IdColumns, ReferenceColumns
<1>3. /\ First(Shown, L) = Shown /\ First(ids, L) = ids /\ First(refs, L) = refs
      /\ First(Column, L) = Column
  BY <1>1, <1>2, FirstNone
<1>4. /\ IsEntity(f) /\ f.deleted \in BOOLEAN
      /\ IdUpTo(f, L) /\ DeletedUpTo(f, L) /\ PropertiesUpTo(f, L) /\ ReferencesUpTo(f, L)
  BY AllMapped DEF MappedUpTo
<1>5. f.deleted = IsDeletion(row)
  <2>1. ASSUME NEW c \in Column, columns[c].name = Operation PROVE cells[c] = row[c]
    <3>1. columns[c].type = "int"
      BY <2>1 DEF Panics
    <3> QED BY <3>1 DEF CellsHold
  <2>2. f.deleted <=> \E c \in Column : Deletes(c)
    BY <1>3, <1>4 DEF DeletedUpTo
  <2>3. f.deleted <=> IsDeletion(row)
    BY <2>1, <2>2 DEF IsDeletion, Deletes
  <2>4. IsDeletion(row) \in BOOLEAN
    BY DEF IsDeletion
  <2> QED BY <1>4, <2>3, <2>4
<1>6. CASE ids = {}
  <2>1. f.id = Null
    BY <1>3, <1>4, <1>6 DEF IdUpTo
  <2>2. Cleared(f).id = Null
    <3> HIDE DEF f
    <3>1. IsEntity(f)
      BY <1>4
    <3> QED BY <2>1, <3>1 DEF Cleared, IsEntity
  <2>3. e = NoEntity
    BY <2>2 DEF ToEntity, WithType
  <2> QED BY <1>6, <2>3 DEF EntityOf
<1>7. CASE ids # {}
  <2> DEFINE l == LastOf(ids)
             props == IF f.deleted THEN <<>> ELSE f.properties
             frefs == IF f.deleted THEN <<>> ELSE f.references
             erefs == IF tableDef.types = 1 THEN Set(frefs, "rdf:type", "type") ELSE frefs
  <2>1. l \in ids /\ \A d \in ids : d =< l
    BY <1>1, <1>2, <1>7, LastOfSome
  <2>2. f.id = [base |-> base, text |-> row[l]]
    BY <1>3, <1>4, <2>1 DEF IdUpTo
  <2>3. f.id # Null
    BY <2>1, <2>2, IdText, NullAssumption
  <2>4. ToEntity = [id |-> f.id, deleted |-> f.deleted, properties |-> props,
                    references |-> frefs]
    <3>1. Cleared(f) = [id |-> f.id, deleted |-> f.deleted, properties |-> props,
                        references |-> frefs]
      <4> HIDE DEF f
      <4>1. IsEntity(f)
        BY <1>4
      <4> QED BY <4>1 DEF Cleared, IsEntity
    <3> HIDE DEF props, frefs
    <3> QED BY <2>3, <3>1 DEF ToEntity
  <2>5. e = [id |-> f.id, deleted |-> f.deleted, properties |-> props, references |-> erefs]
    <3> HIDE DEF f, props, frefs
    <3>1. ToEntity # NoEntity
      BY <2>4, EntityIsSome
    <3> QED BY <2>4, <3>1 DEF WithType
  <2> HIDE DEF f, e, props, frefs, erefs, ids, l
  <2>6. /\ e # NoEntity /\ DOMAIN e = {"id", "deleted", "properties", "references"}
        /\ e.id = f.id /\ e.deleted = f.deleted /\ e.properties = props
        /\ e.references = erefs
    BY <2>5, EntityIsSome
  <2>7. /\ e.id.text = row[l] /\ e.id.base = base /\ e.deleted = IsDeletion(row)
        /\ e.deleted \in BOOLEAN
    BY <1>4, <1>5, <2>2, <2>6
  <2>8. DOMAIN e.properties = IF IsDeletion(row) THEN {} ELSE {PropertyName(c) : c \in Shown}
    <3>1. CASE f.deleted
      BY <1>5, <2>6, <3>1 DEF props
    <3>2. CASE ~f.deleted
      BY <1>3, <1>4, <1>5, <2>6, <3>2 DEF props, PropertiesUpTo
    <3> QED BY <3>1, <3>2
  <2>9. ASSUME NEW n \in DOMAIN e.properties
        PROVE  e.properties[n] \in ValuesOf(row, LastOf(Named(n)))
    <3> DEFINE c == LastOf(Named(n))
    <3>1. ~f.deleted /\ e.properties = f.properties
      BY <1>5, <2>6, <2>8, <2>9 DEF props
    <3>2. Named(n) # {} /\ Named(n) \in SUBSET (1 .. L)
      BY <1>2, <1>5, <2>8, <2>9, <3>1 DEF Named
    <3>3. c \in Named(n) /\ \A d \in Named(n) : d =< c
      BY <1>1, <3>2, LastOfSome
    <3>4. c \in Shown /\ PropertyName(c) = n
      BY <3>3 DEF Named
    <3> HIDE DEF c
    <3>5. f.properties[n] = Value(columns[c].type, cells[c])
      BY <1>3, <1>4, <3>3, <3>4 DEF PropertiesUpTo, Named
    <3>6. c \in Column
      BY <3>4 DEF Shown
    <3> QED BY <3>1, <3>5, <3>6, ValueOfRow DEF c
  <2>10. DOMAIN frefs = IF IsDeletion(row) THEN {} ELSE {PropertyName(c) : c \in refs}
    <3>1. CASE f.deleted
      BY <1>5, <3>1 DEF frefs
    <3>2. CASE ~f.deleted
      BY <1>3, <1>4, <1>5, <3>2 DEF frefs, ReferencesUpTo
    <3> QED BY <3>1, <3>2
  <2>11. ASSUME NEW n \in DOMAIN frefs
         PROVE  frefs[n] = row[LastOf({c \in refs : PropertyName(c) = n})]
    <3> DEFINE S == {x \in refs : PropertyName(x) = n}
               c == LastOf(S)
    <3>1. ~f.deleted /\ frefs = f.references
      BY <1>5, <2>10, <2>11 DEF frefs
    <3>2. S # {} /\ S \in SUBSET (1 .. L)
      BY <1>2, <1>5, <2>10, <2>11, <3>1
    <3>3. c \in S /\ \A d \in S : d =< c
      <4> HIDE DEF S
      <4> QED BY <1>1, <3>2, LastOfSome
    <3>4. c \in refs /\ PropertyName(c) = n /\ \A d \in refs : PropertyName(d) = n => d =< c
      BY <3>3
    <3> HIDE DEF c, S
    <3>5. f.references[n] = row[c]
      BY <1>3, <1>4, <3>4 DEF ReferencesUpTo
    <3> QED BY <3>1, <3>5 DEF c, S
  <2>12. /\ DOMAIN erefs = types \cup DOMAIN frefs
         /\ \A n \in DOMAIN erefs :
              erefs[n] = IF n \in types THEN "type" ELSE frefs[n]
    BY DEF erefs, Set
  <2> HIDE DEF refs, types
  <2>13. /\ DOMAIN e.references =
              types \cup IF IsDeletion(row) THEN {} ELSE {PropertyName(c) : c \in refs}
         /\ \A n \in DOMAIN e.references :
              e.references[n] = IF n \in types THEN "type"
                                ELSE row[LastOf({c \in refs : PropertyName(c) = n})]
    BY <2>6, <2>10, <2>11, <2>12
  <2>14. EntityOf(e, row)
    BY <1>7, <2>6, <2>7, <2>8, <2>9, <2>13 DEF EntityOf, ids, refs, types, l
  <2>15. e.id.base \in Base
    BY <2>7
  <2> QED BY <2>6, <2>7, <2>14, <2>15 DEF e
<1> QED BY <1>6, <1>7

-----------------------------------------------------------------------------
(***************************************************************************)
(* The response.                                                           *)
(***************************************************************************)

(* Between scanning and mapping the cells hold the row; what was sent are   *)
(* the rows with an id that were scanned, but for the one in the cells; the *)
(* token comes last, and after all rows unless the result broke off.        *)
ResponseInv ==
  /\ base \in bases
  /\ pc = "map" => /\ row \in Row /\ CellsHold /\ at \in 1 .. total
                   /\ mapped = IF HasId(row) THEN sent \cup {at} ELSE sent
  /\ pc \in {"rows", "token", "done"} => mapped = sent
  /\ pc \in {"token", "done"} /\ ~broken => at = total
  /\ token => pc = "done"

RowsInv == TypeOK /\ ResponseInv /\ SentIsTheRow

LEMMA HasIdIs == \A r : HasId(r) <=> WithText(r, IdColumns) # {}
BY DEF HasId, WithText, IdColumns, Shown

LEMMA RowsOfInit == Init => RowsInv
<1> SUFFICES ASSUME Init PROVE RowsInv
  OBVIOUS
<1>1. \A c \in Column : cells[c] \in IF columns[c].type = "bit" THEN BOOLEAN
                                     ELSE CellsOf(columns[c].type)
  <2> SUFFICES ASSUME NEW c \in Column
               PROVE  cells[c] \in IF columns[c].type = "bit" THEN BOOLEAN
                                   ELSE CellsOf(columns[c].type)
    OBVIOUS
  <2>1. columns[c].type \in {"string", "int", "bigint", "bit", "float", "other"}
    BY ColumnIs DEF Init
  <2>2. cells[c] = EmptyCell(columns[c].type)
    BY DEF Init
  <2> QED BY <2>1, <2>2 DEF EmptyCell, CellsOf
<1>2. TypeOK
  <2>1. total \in 0 .. MaxRows /\ at \in 0 .. total /\ reloads \in 0 .. MaxReloads
    BY MaxRowsAssumption DEF Init
  <2>2. columns \in Tables /\ tableDef \in Mappings /\ base \in Base /\ bases \subseteq Base
    BY DEF Init
  <2>3. /\ pc = "rows" /\ row = NoRow /\ last = NoEntity /\ sent = {} /\ mapped = {}
        /\ token \in BOOLEAN /\ broken \in BOOLEAN
    BY DEF Init
  <2> QED BY <1>1, <2>1, <2>2, <2>3 DEF TypeOK
<1>3. ResponseInv /\ SentIsTheRow
  BY DEF Init, ResponseInv, SentIsTheRow
<1> QED BY <1>2, <1>3 DEF RowsInv

(* The cells keep to their types, however far a scan gets. *)
LEMMA CellsOfScan ==
  ASSUME TypeOK, NEW r \in Row, NEW n \in Int
  PROVE  \A c \in Column : ScannedRow(r, n)[c] \in
           IF columns[c].type = "bit" THEN BOOLEAN ELSE CellsOf(columns[c].type)
<1> SUFFICES ASSUME NEW c \in Column
             PROVE  ScannedRow(r, n)[c] \in
                      IF columns[c].type = "bit" THEN BOOLEAN ELSE CellsOf(columns[c].type)
  OBVIOUS
<1>1. cells[c] \in IF columns[c].type = "bit" THEN BOOLEAN ELSE CellsOf(columns[c].type)
  BY DEF TypeOK
<1>2. r[c] \in CellsOf(columns[c].type)
  BY DEF Row
<1>3. ScannedRow(r, n)[c] = IF c =< n THEN Scanned(columns[c].type, cells[c], r[c]) ELSE cells[c]
  BY DEF ScannedRow
<1>4. Scanned(columns[c].type, cells[c], r[c]) \in
        IF columns[c].type = "bit" THEN BOOLEAN ELSE CellsOf(columns[c].type)
  BY <1>1, <1>2 DEF Scanned
<1> QED BY <1>1, <1>3, <1>4

(* A scan that gets through leaves the row in the cells. *)
LEMMA ScannedHolds ==
  ASSUME TypeOK, NEW r \in Row, cells' = ScannedRow(r, Len(columns)), row' = r,
         UNCHANGED columns
  PROVE  CellsHold'
<1> SUFFICES ASSUME NEW c \in Column
             PROVE  IF columns[c].type = "bit"
                    THEN cells'[c] \in BOOLEAN /\ (r[c] # "2" => cells'[c] = (r[c] = "1"))
                    ELSE cells'[c] = r[c]
  BY DEF CellsHold, Column
<1>1. Len(columns) \in Nat /\ c \in 1 .. Len(columns)
  BY ColumnIs DEF TypeOK
<1>2. cells'[c] = Scanned(columns[c].type, cells[c], r[c])
  BY <1>1 DEF ScannedRow
<1>3. columns[c].type = "bit" => cells[c] \in BOOLEAN
  BY DEF TypeOK
<1>4. columns[c].type = "bit" =>
        cells'[c] \in BOOLEAN /\ (r[c] # "2" => cells'[c] = (r[c] = "1"))
  BY <1>2, <1>3 DEF Scanned
<1>5. columns[c].type # "bit" => cells'[c] = r[c]
  BY <1>2 DEF Scanned
<1> QED BY <1>4, <1>5

(* What an entity is does not depend on what a step changes in the cells. *)
LEMMA EntityStays ==
  ASSUME NEW e, NEW r, EntityOf(e, r), UNCHANGED <<columns, tableDef>>, bases \subseteq bases'
  PROVE  EntityOf(e, r)'
<1>1. Column' = Column /\ \A c : MappingOf(c)' = MappingOf(c)
  BY DEF Column, MappingOf
<1>2. \A c : /\ Hidden(c)' <=> Hidden(c)
             /\ PropertyName(c)' = PropertyName(c) /\ ValuesOf(r, c)' = ValuesOf(r, c)
  BY <1>1 DEF Hidden, PropertyName, ValuesOf
<1>3. Shown' = Shown
  BY <1>1, <1>2 DEF Shown
<1>4. /\ IdColumns' = IdColumns /\ ReferenceColumns' = ReferenceColumns
      /\ \A n : Named(n)' = Named(n)
  BY <1>1, <1>2, <1>3 DEF IdColumns, ReferenceColumns, Named
<1>5. IsDeletion(r)' = IsDeletion(r)
  BY <1>1 DEF IsDeletion
<1>6. /\ WithText(r, IdColumns)' = WithText(r, IdColumns)
      /\ WithText(r, ReferenceColumns)' = WithText(r, ReferenceColumns)
  BY <1>4 DEF WithText
<1>7. {PropertyName(c) : c \in Shown}' = {PropertyName(c) : c \in Shown}
  BY <1>2, <1>3
<1>8. /\ {PropertyName(c) : c \in WithText(r, ReferenceColumns)}' =
           {PropertyName(c) : c \in WithText(r, ReferenceColumns)}
      /\ \A n : {c \in WithText(r, ReferenceColumns) : PropertyName(c) = n}' =
                {c \in WithText(r, ReferenceColumns) : PropertyName(c) = n}
  BY <1>2, <1>6
<1> QED BY <1>2, <1>4, <1>5, <1>6, <1>7, <1>8 DEF EntityOf

LEMMA RowsOfScan ==
  ASSUME RowsInv, NEW r \in Row, ScanRow(r) PROVE RowsInv'
<1>1. TypeOK /\ ResponseInv
  BY DEF RowsInv
<1>2. /\ pc = "rows" /\ at < total /\ at' = at + 1 /\ row' = r /\ pc' = "map"
      /\ cells' = ScannedRow(r, Len(columns))
      /\ mapped' = IF HasId(r) THEN mapped \cup {at'} ELSE mapped
      /\ UNCHANGED <<columns, base, tableDef, total, last, sent, token, broken, bases, reloads>>
  BY DEF ScanRow
<1>3. at \in Nat /\ total \in Nat /\ total =< MaxRows /\ at' \in 1 .. total
  BY <1>1, <1>2, MaxRowsAssumption DEF TypeOK
<1>4. row' \in Row' /\ (HasId(row)' <=> HasId(r)) /\ Column' = Column
  BY <1>2 DEF Row, Column, HasId, Hidden, MappingOf
<1>5. Len(columns) \in Int
  BY <1>1, ColumnIs DEF TypeOK
<1>6. TypeOK'
  <2>1. \A c \in Column' : cells'[c] \in IF columns'[c].type = "bit" THEN BOOLEAN
                                         ELSE CellsOf(columns'[c].type)
    BY <1>1, <1>2, <1>4, <1>5, CellsOfScan
  <2>2. mapped' \subseteq 1 .. total'
    BY <1>1, <1>2, <1>3 DEF TypeOK
  <2> QED BY <1>1, <1>2, <1>3, <1>4, <2>1, <2>2 DEF TypeOK
<1>7. CellsHold'
  BY <1>1, <1>2, ScannedHolds
<1>8. ResponseInv'
  <2>1. mapped = sent /\ token = FALSE
    BY <1>1, <1>2 DEF ResponseInv, TypeOK
  <2> QED BY <1>1, <1>2, <1>3, <1>4, <1>7, <2>1 DEF ResponseInv
<1>9. SentIsTheRow'
  BY <1>2 DEF SentIsTheRow
<1> QED BY <1>6, <1>8, <1>9 DEF RowsInv

LEMMA RowsOfFailure ==
  ASSUME RowsInv, NEW r \in Row, ScanFails(r) PROVE RowsInv'
<1>1. TypeOK /\ ResponseInv /\ SentIsTheRow
  BY DEF RowsInv
<1>2. /\ pc = "rows" /\ at < total /\ at' = at + 1
      /\ UNCHANGED <<columns, base, tableDef, pc, total, row, last, sent, mapped, token, broken,
                     bases, reloads>>
  BY DEF ScanFails
<1>3. at \in Nat /\ total \in Nat /\ total =< MaxRows /\ at' \in 1 .. total
  BY <1>1, <1>2, MaxRowsAssumption DEF TypeOK
<1>4. PICK n \in 0 .. Len(columns) - 1 : cells' = ScannedRow(r, n)
  BY DEF ScanFails
<1>5. TypeOK'
  <2>1. Column' = Column /\ Row' = Row
    BY <1>2 DEF Column, Row
  <2>2. \A c \in Column' : cells'[c] \in IF columns'[c].type = "bit" THEN BOOLEAN
                                         ELSE CellsOf(columns'[c].type)
    BY <1>1, <1>2, <1>4, <2>1, CellsOfScan
  <2> QED BY <1>1, <1>2, <1>3, <2>1, <2>2 DEF TypeOK
<1>6. ResponseInv'
  BY <1>1, <1>2 DEF ResponseInv
<1>7. SentIsTheRow'
  BY <1>1, <1>2, EntityStays DEF SentIsTheRow
<1> QED BY <1>5, <1>6, <1>7 DEF RowsInv

LEMMA RowsOfMap ==
  ASSUME RowsInv, MapRow PROVE RowsInv'
<1>1. TypeOK /\ ResponseInv
  BY DEF RowsInv
<1> DEFINE e == WithType(ToEntity)
<1>2. /\ pc = "map" /\ ~Panics /\ last' = e /\ pc' = "rows"
      /\ sent' = IF e = NoEntity THEN sent ELSE sent \cup {at}
      /\ UNCHANGED <<columns, base, tableDef, total, at, cells, row, mapped, token, broken,
                     bases, reloads>>
  BY DEF MapRow, After
<1>3. /\ EntityOf(e, row)
      /\ e # NoEntity => /\ DOMAIN e = {"id", "deleted", "properties", "references"}
                         /\ e.id.base \in Base /\ e.deleted \in BOOLEAN
  BY <1>1, <1>2, MappedIsTheRow DEF TypeOK, ResponseInv
<1>4. e = NoEntity <=> ~HasId(row)
  <2>1. HasId(row) <=> WithText(row, IdColumns) # {}
    BY HasIdIs
  <2> QED BY <1>3, <2>1 DEF EntityOf
<1> HIDE DEF e
<1>5. at \in 1 .. total /\ row \in Row
      /\ mapped = IF HasId(row) THEN sent \cup {at} ELSE sent
  BY <1>1, <1>2 DEF ResponseInv
<1>6. TypeOK'
  <2>1. Column' = Column /\ Row' = Row /\ sent' \subseteq 1 .. total
    BY <1>1, <1>2, <1>5 DEF Column, Row, TypeOK
  <2> QED BY <1>1, <1>2, <1>3, <2>1 DEF TypeOK
<1>7. ResponseInv'
  BY <1>1, <1>2, <1>4, <1>5 DEF ResponseInv
<1>8. SentIsTheRow'
  BY <1>2, <1>3, EntityStays DEF SentIsTheRow
<1> QED BY <1>6, <1>7, <1>8 DEF RowsInv

(* The steps that touch neither the rows nor the cells. *)
LEMMA RowsOfRest ==
  ASSUME RowsInv,
         \/ MapPanics \/ RowsEnd \/ SendToken \/ \E b \in Base : Reload(b)
         \/ UNCHANGED vars
  PROVE  RowsInv'
<1>1. TypeOK /\ ResponseInv /\ SentIsTheRow
  BY DEF RowsInv
<1>2. /\ UNCHANGED <<columns, tableDef, total, at, cells, row, last, sent, mapped>>
      /\ bases \subseteq bases' /\ base' \in bases'
  BY <1>1 DEF MapPanics, RowsEnd, SendToken, Reload, vars, ResponseInv
<1>3. Column' = Column /\ Row' = Row /\ (CellsHold' <=> CellsHold)
      /\ (HasId(row)' <=> HasId(row))
  BY <1>2 DEF Column, Row, CellsHold, HasId, Hidden, MappingOf
<1>4. TypeOK'
  <2>1. /\ base' \in Base /\ bases' \subseteq Base /\ reloads' \in 0 .. MaxReloads
        /\ pc' \in {"rows", "map", "token", "done", "gone"}
    BY <1>1, MaxRowsAssumption DEF MapPanics, RowsEnd, SendToken, Reload, vars, TypeOK
  <2>2. broken' \in BOOLEAN
    <3>1. broken' = broken \/ broken' = (at < total)
      BY DEF MapPanics, RowsEnd, SendToken, Reload, vars
    <3>2. (at < total) \in BOOLEAN /\ broken \in BOOLEAN
      BY <1>1 DEF TypeOK
    <3> QED BY <3>1, <3>2
  <2>3. token' \in BOOLEAN
    BY <1>1, MappingsAssumption DEF MapPanics, RowsEnd, SendToken, Reload, vars, TypeOK
  <2> QED BY <1>1, <1>2, <1>3, <2>1, <2>2, <2>3 DEF TypeOK
<1>5. ResponseInv'
  <2>1. at \in Nat /\ total \in Nat /\ at =< total
    BY <1>1, MaxRowsAssumption DEF TypeOK
  <2>2. CASE MapPanics
    BY <1>1, <1>2, <2>2 DEF MapPanics, ResponseInv
  <2>3. CASE RowsEnd
    <3>1. ~broken' => at = total
      <4>1. ~broken' => ~(at < total)
        BY <2>3 DEF RowsEnd
      <4> QED BY <2>1, <4>1
    <3>2. pc = "rows" /\ pc' = "token" /\ UNCHANGED token
      BY <2>3 DEF RowsEnd
    <3> QED BY <1>1, <1>2, <3>1, <3>2 DEF ResponseInv
  <2>4. CASE SendToken
    BY <1>1, <1>2, <2>4 DEF SendToken, ResponseInv
  <2>5. CASE (\E b \in Base : Reload(b)) \/ UNCHANGED vars
    <3>1. UNCHANGED <<pc, token, broken>>
      BY <2>5 DEF Reload, vars
    <3> QED BY <1>1, <1>2, <1>3, <3>1 DEF ResponseInv
  <2> QED BY <2>2, <2>3, <2>4, <2>5
<1>6. SentIsTheRow'
  <2>1. pc' # "map" /\ pc' # "gone" => pc # "map" /\ pc # "gone"
    BY DEF MapPanics, RowsEnd, SendToken, Reload, vars
  <2> QED BY <1>1, <1>2, <2>1, EntityStays DEF SentIsTheRow
<1> QED BY <1>4, <1>5, <1>6 DEF RowsInv

LEMMA RowsStep == RowsInv /\ [Next]_vars => RowsInv'
BY RowsOfScan, RowsOfFailure, RowsOfMap, RowsOfRest DEF Next

LEMMA RowsAlways == Spec => []RowsInv
BY RowsOfInit, RowsStep, PTL DEF Spec

(* The variables keep to their types: the cells that the rows share hold    *)
(* values of their columns, however far a scan got, and an entity that is   *)
(* sent has an id.                                                          *)
THEOREM TypeCorrect == Spec => []TypeOK
<1>1. RowsInv => TypeOK
  BY DEF RowsInv
<1> QED BY <1>1, RowsAlways, PTL

(* A row is sent if and only if it has an id, and its entity is that of the *)
(* row alone, whatever rows came before it in the same cells, however many  *)
(* columns share a name and whichever configuration came in between.        *)
THEOREM SentIsTheRowAlways == Spec => []SentIsTheRow
<1>1. RowsInv => SentIsTheRow
  BY DEF RowsInv
<1> QED BY <1>1, RowsAlways, PTL

(* A response that ends with a token has sent every row that has an id and  *)
(* could be scanned, unless the result broke off.                           *)
THEOREM TokenCoversRowsAlways == Spec => []TokenCoversRows
<1>1. RowsInv => TokenCoversRows
  BY DEF RowsInv, ResponseInv, TokenCoversRows
<1> QED BY <1>1, RowsAlways, PTL
=============================================================================
