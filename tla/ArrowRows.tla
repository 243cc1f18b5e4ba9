----------------------------- MODULE ArrowRows -----------------------------
(***************************************************************************)
(* The payload of an ARROW message, from the columns that Arrow holds to   *)
(* the rows that a client is shown (ArrowSerialization).                   *)
(*                                                                         *)
(* A schema is a forest of fields: each is a column, or the item of a list *)
(* field, or a member of a struct field.  An entry of an array is a value  *)
(* and a bit that says whether it is valid: a null entry has a value too,  *)
(* as a null list may have items and a null struct members.  A value of a  *)
(* list field is the sequence of its items, a value of a struct field the  *)
(* function from its members to theirs.  Offsets of lists begin at 0, as   *)
(* in the messages that Arrow writes.                                      *)
(***************************************************************************)
EXTENDS Naturals, Sequences, SequencesExt

CONSTANTS Field,            \* the fields of the schema, on all levels
          Kind,             \* kind of each: primitive, list or struct
          Parent,           \* field in which it is nested
          NoField,          \* parent of a column
          MaxDepth,         \* bound: levels of nesting
          Value,            \* values of each field
          Row,              \* rows a device may put in a table
          BatchSize,        \* rows of a slice
          MaxRows,          \* bound: rows of a table
          MaxBatches,       \* bound: record batches of a table
          Undefined         \* what is read through a failed FindMember

Children(f) == {g \in Field : Parent[g] = f}

Columns == Children(NoField)

\* The field of the items of a list field.
Item(f) == CHOOSE g \in Children(f) : TRUE

Entry(f) == [valid : BOOLEAN, value : Value[f]]

IsNull(entry) == ~entry.valid

ASSUME SchemaAssumption ==
    /\ NoField \notin Field
    /\ Kind \in [Field -> {"primitive", "list", "struct"}]
    /\ Parent \in [Field -> Field \cup {NoField}]
    /\ \A f \in Field :
        /\ Kind[f] = "primitive" => Children(f) = {}
        /\ Kind[f] = "list" => \E g \in Field : Children(f) = {g}

\* No field is nested in itself.
ASSUME NestingAssumption ==
    /\ MaxDepth \in Nat
    /\ \E depth \in [Field -> 0..MaxDepth] :
        \A f \in Field : Parent[f] # NoField => depth[Parent[f]] < depth[f]

ASSUME ValueAssumption ==
    \A f \in Field : \A v \in Value[f] :
        /\ Kind[f] = "list" => \A g \in Children(f) : v \in Seq(Entry(g))
        /\ Kind[f] = "struct" =>
            DOMAIN v = Children(f) /\ \A g \in Children(f) : v[g] \in Entry(g)

ASSUME RowAssumption ==
    \A row \in Row : DOMAIN row = Columns /\ \A c \in Columns : row[c] \in Entry(c)

ASSUME SizesAssumption == BatchSize \in Nat \ {0} /\ {MaxRows, MaxBatches} \subseteq Nat

VARIABLE table              \* the record batches of the message, each a sequence of rows

Init == table = <<>>

AddBatch ==
    /\ Len(table) < MaxBatches
    /\ table' = Append(table, <<>>)

AddRow(row) ==
    /\ table # <<>>
    /\ Len(FlattenSeq(table)) < MaxRows
    /\ table' = [table EXCEPT ![Len(table)] = Append(@, row)]

Next == AddBatch \/ \E row \in Row : AddRow(row)

Spec == Init /\ [][Next]_table

-----------------------------------------------------------------------------
(* Arrow: how values lie in arrays, and what a slice is.                   *)

\* values() of a list array: the items of all its lists, null ones included.
Items(lists) == FlattenSeq([i \in DOMAIN lists |-> lists[i].value])

\* The array of a field in that of its parent.  The members of a null struct are
\* in it as well.
Nested(f, array) ==
    IF Kind[Parent[f]] = "list" THEN Items(array)
    ELSE [i \in DOMAIN array |-> array[i].value[f]]

\* The array of each field in a record batch.
Arrays(batch) ==
    LET array[f \in Field] ==
            IF Parent[f] = NoField THEN [i \in DOMAIN batch |-> batch[i][f]]
            ELSE Nested(f, array[Parent[f]])
    IN  array

\* Is a field nested in a list, at any level?
InList ==
    LET inList[f \in Field] ==
            /\ Parent[f] # NoField
            /\ Kind[Parent[f]] = "list" \/ inList[Parent[f]]
    IN  inList

\* No copy is made: a slice of a list array keeps all items, and values()
\* returns them whatever the slice.
Slice(arrays, from, to) ==
    [f \in Field |-> IF InList[f] THEN arrays[f] ELSE SubSeq(arrays[f], from, to)]

-----------------------------------------------------------------------------
(* RowBatchBuilder: the member that the visit of an array adds to each of  *)
(* its rows, given the members that the arrays nested in it add to theirs. *)

\* A row has a member for each of the fields whose entry is not null.
Object(fields, arrays, members, i) ==
    [g \in {h \in fields : ~IsNull(arrays[h][i])} |-> members[g][i]]

\* Fault: the place in the items is reset for every list.
FaultyFirstItem(lists, i) == 1

\* values_i when the loop over the lists reaches the ith: a null list leaves it,
\* whatever items it has.
FirstItem(lists, i) ==
    LET Passed(k) == IF IsNull(lists[k]) THEN <<>> ELSE lists[k].value
    IN  Len(FlattenSeq([k \in 1..(i - 1) |-> Passed(k)])) + 1

\* FindMember of a member that was not added is the end, and is read all the same.
List(f, arrays, members, i) ==
    [j \in 1..Len(arrays[f][i].value) |->
        LET k == FirstItem(arrays[f], i) + j - 1
        IN  IF IsNull(arrays[Item(f)][k]) THEN Undefined ELSE members[Item(f)][k]]

Member(f, arrays, members, i) ==
    IF Kind[f] = "primitive" THEN arrays[f][i].value
    ELSE IF Kind[f] = "list" THEN List(f, arrays, members, i)
    ELSE Object(Children(f), arrays, members, i)

\* Visit of each array.
Visit(arrays) ==
    LET members[f \in Field] ==
            [i \in {k \in DOMAIN arrays[f] : ~IsNull(arrays[f][k])} |->
                Member(f, arrays, members, i)]
    IN  members

\* ConvertToVector: the rows of n entries of all columns.
ConvertToVector(arrays, n) ==
    [i \in 1..n |-> Object(Columns, arrays, Visit(arrays), i)]

\* Fault: what is left over after the last full slice is forgotten.
FaultySliceEnds(n) == [k \in 1..(n \div BatchSize) |-> BatchSize * k]

\* Last entries of the slices of n rows.
SliceEnds(n) ==
    [k \in 1..((n + BatchSize - 1) \div BatchSize) |->
        IF BatchSize * k < n THEN BatchSize * k ELSE n]

\* ConvertToIterator over the columns of one record batch.
BatchRows(batch) ==
    LET ends == SliceEnds(Len(batch))
        First(k) == BatchSize * (k - 1) + 1
    IN  FlattenSeq([k \in DOMAIN ends |->
            ConvertToVector(Slice(Arrays(batch), First(k), ends[k]), ends[k] - First(k) + 1)])

\* toJson: TableBatchReader does not let a slice cross two batches.
Rows == FlattenSeq([b \in DOMAIN table |-> BatchRows(table[b])])

-----------------------------------------------------------------------------
(* Properties.                                                             *)

\* Null entries are no members, and as items of a list undefined.
ObjectMeaning(fields, meaning, v) ==
    [g \in {h \in fields : ~IsNull(v[h])} |-> meaning[g][v[g].value]]

ListMeaning(f, meaning, v) ==
    [j \in 1..Len(v) |-> IF IsNull(v[j]) THEN Undefined ELSE meaning[Item(f)][v[j].value]]

MeaningOf(f, meaning, v) ==
    IF Kind[f] = "primitive" THEN v
    ELSE IF Kind[f] = "list" THEN ListMeaning(f, meaning, v)
    ELSE ObjectMeaning(Children(f), meaning, v)

\* What each value of each field means.
Meaning ==
    LET meaning[f \in Field] == [v \in Value[f] |-> MeaningOf(f, meaning, v)]
    IN  meaning

RowMeaning(row) == ObjectMeaning(Columns, Meaning, row)

\* Does an entry hold no null list with items, given which ones nested in it do?
TightEntry(f, tight, entry) ==
    /\ Kind[f] = "list" =>
        /\ IsNull(entry) => entry.value = <<>>
        /\ \A j \in 1..Len(entry.value) : entry.value[j] \in tight[Item(f)]
    /\ Kind[f] = "struct" => \A g \in Children(f) : entry.value[g] \in tight[g]

\* The entries of each field that hold no null list with items, at any level.
Tight ==
    LET tight[f \in Field] == {entry \in Entry(f) : TightEntry(f, tight, entry)}
    IN  tight

\* Is the ith row of a batch in its first slice, with no null list that has items
\* in it or before it?
IsSafe(batch, i) ==
    /\ i <= BatchSize
    /\ \A k \in 1..i : \A c \in Columns : batch[k][c] \in Tight[c]

\* Every row in the first slice of a batch is right up to the first null list that
\* has items, whatever is nested in what and wherever else entries are null.
FirstSliceIsExact ==
    LET rows == Rows
        all == FlattenSeq(table)
        safe == FlattenSeq([b \in DOMAIN table |->
                    [i \in DOMAIN table[b] |-> IsSafe(table[b], i)]])
    IN  \A i \in DOMAIN all : safe[i] => rows[i] = RowMeaning(all[i])

MembersOf(objects, f) == {object[f] : object \in {o \in objects : f \in DOMAIN o}}

\* The member of a row, or of a struct in it, for each field: the set of it, or
\* empty.
Shown(row) ==
    LET shown[f \in {g \in Field : ~InList[g]}] ==
            MembersOf(IF Parent[f] = NoField THEN {row} ELSE shown[Parent[f]], f)
    IN  shown

\* Numbers are equal, lists have equal lengths and structs equal members.
SameShape(f, shown, meant) ==
    /\ Kind[f] = "primitive" => shown = meant
    /\ Kind[f] = "list" => {Len(v) : v \in shown} = {Len(v) : v \in meant}
    /\ Kind[f] = "struct" => {DOMAIN v : v \in shown} = {DOMAIN v : v \in meant}

\* In any slice there is one row for each row of the table, with the members it
\* should have, on all levels: numbers are right, and lists have the right
\* lengths, if not the right items.
RowsKeepShape ==
    LET rows == Rows
        all == FlattenSeq(table)
    IN  /\ Len(rows) = Len(all)
        /\ \A i \in DOMAIN all : \A f \in {g \in Field : ~InList[g]} :
            SameShape(f, Shown(rows[i])[f], Shown(RowMeaning(all[i]))[f])

\* "set the values of the corresponding fields in each row": the comment on
\* RowBatchBuilder, taken for the whole table.
RowsAreSet == Rows = [i \in DOMAIN FlattenSeq(table) |-> RowMeaning(FlattenSeq(table)[i])]

=============================================================================
