------------------------------- MODULE Schema -------------------------------
\* What a migration can do to a schema, of Postgres or of MySQL.  A schema is the set of its
\* items: <<table, name, aspect>> says that the table has a column or key of
\* that name and, of the column, that it has a default, an enum type, or must
\* be given.  A statement says which items it looks for first, which it cannot
\* do without, and what it adds, removes and renames.
\* Rows are left out: a statement that fails because of the data (a SET NOT
\* NULL, a foreign key) is taken to succeed.
EXTENDS Naturals, Sequences, SequencesExt

Table(t)         == <<t, "", "table">>
Column(t, c)     == <<t, c, "column">>
DefaultOf(t, c)  == <<t, c, "default">>
Required(t, c)   == <<t, c, "required">>   \* NOT NULL, where it matters
Key(t, name)     == <<t, name, "key">>
UniqueKey(t, name) == <<t, name, "unique">>
Short(t, c)      == <<t, c, "short">>      \* a varchar shorter than its values
Type(name)       == <<"", name, "type">>
Typed(t, c, name) == <<t, c, name>>        \* the column has that enum type

\* A transaction in which a statement failed: every later statement fails too.
Broken == {}

\* A pattern <<t, c>> stands for the items of a column or key, <<t, "*">> for
\* those of a whole table, <<"*", "*">> for all.
Of(x, p) == p[1] \in {x[1], "*"} /\ p[2] \in {x[2], "*"}
\* An item renamed from one pattern to another, and what refers to its table.
Moved(x, p, q) ==
  <<IF Of(x, p) THEN q[1] ELSE x[1],
    IF Of(x, p) /\ q[2] # "*" THEN q[2] ELSE x[2],
    IF p[2] = "*" /\ x[3] = p[1] THEN q[1] ELSE x[3]>>

\* A statement is skipped unless the schema has all of onlyIf and none of
\* unless; it fails when an item of needs is missing, one of clash is there, or
\* a column still has one of the types in unused.  MySQL commits when a
\* statement is ddl.
Statement == [onlyIf |-> {}, unless |-> {}, needs |-> {}, clash |-> {}, unused |-> {},
              adds |-> {}, drops |-> {}, gone |-> {}, move |-> << <<"", "">>, <<"", "">> >>, ddl |-> TRUE]

Applies(s, st) == /\ s # Broken
                  /\ st.onlyIf \subseteq s
                  /\ st.unless \cap s = {}

Succeeds(s, st) == /\ st.needs \subseteq s
                   /\ st.clash \cap s = {}
                   /\ \A x \in s : x[3] \notin st.unused

Result(s, st) ==
  LET kept == {x \in s \ st.drops : \A p \in st.gone : ~Of(x, p)}
  IN  {Moved(x, st.move[1], st.move[2]) : x \in kept} \cup st.adds

Execute(s, st) == IF ~Applies(s, st) THEN s
                  ELSE IF Succeeds(s, st) THEN Result(s, st) ELSE Broken

ExecuteAll(s, statements) == FoldLeft(Execute, s, statements)

-----------------------------------------------------------------------------
\* The statements of the migrations, and their helper methods.

CreateTable(t, columns, defaults, keys) ==
  [Statement EXCEPT !.clash = {Table(t)},
     !.adds = {Table(t)} \cup {Column(t, c) : c \in columns}
                \cup {DefaultOf(t, c) : c \in defaults} \cup {Key(t, k) : k \in keys}]
CreateTableIfMissing(t, columns, defaults, keys) ==
  [CreateTable(t, columns, defaults, keys) EXCEPT !.unless = {Table(t)}]
\* The tables the migrations drop are referred to by none that stays.
DropTableIfExists(t) == [Statement EXCEPT !.gone = {<<t, "*">>}]

AddColumn(t, c, defaults) ==
  [Statement EXCEPT !.needs = {Table(t)}, !.clash = {Column(t, c)},
     !.adds = {Column(t, c)} \cup {DefaultOf(t, d) : d \in defaults}]
AddColumnIfMissing(t, c, defaults) ==
  [AddColumn(t, c, defaults) EXCEPT !.unless = {Column(t, c)}]
DropColumnIfExists(t, c) == [Statement EXCEPT !.onlyIf = {Column(t, c)}, !.gone = {<<t, c>>}]

RenameTableIfNeeded(from, to) ==
  [Statement EXCEPT !.onlyIf = {Table(from)}, !.unless = {Table(to)},
     !.move = << <<from, "*">>, <<to, "*">> >>]
RenameColumnIfNeeded(t, from, to) ==
  [Statement EXCEPT !.onlyIf = {Table(t), Column(t, from)}, !.unless = {Column(t, to)},
     !.move = << <<t, from>>, <<t, to>> >>]

\* SET DEFAULT and DROP DEFAULT of a column: an error when there is no such
\* column, unless the migration looks first.
SetDefault(t, c) == [Statement EXCEPT !.needs = {Column(t, c)}, !.adds = {DefaultOf(t, c)}]
SetDefaultIfColumnExists(t, c) == [SetDefault(t, c) EXCEPT !.onlyIf = {Column(t, c)}]
DropDefault(t, c) == [Statement EXCEPT !.needs = {Column(t, c)}, !.drops = {DefaultOf(t, c)}]
DropNotNullIfColumnExists(t, c) ==
  [Statement EXCEPT !.onlyIf = {Column(t, c)}, !.drops = {Required(t, c)}]

EnsureEnumType(name) ==
  [Statement EXCEPT !.unless = {Type(name)}, !.adds = {Type(name)}]
DropTypeIfExists(name) ==
  [Statement EXCEPT !.onlyIf = {Type(name)}, !.unused = {name}, !.gone = {<<"", name>>}]
\* former: the enum types an earlier migration may have given the column.  Its
\* default goes with its type.
AlterEnumColumnIfNeeded(t, c, name, former) ==
  [Statement EXCEPT !.onlyIf = {Column(t, c)}, !.unless = {Typed(t, c, name)},
     !.needs = {Type(name)}, !.adds = {Typed(t, c, name)},
     !.drops = {DefaultOf(t, c)} \cup {Typed(t, c, f) : f \in former}]

\* A foreign key from columns of t to the columns it refers to.
AddForeignKey(t, key, columns) ==
  [Statement EXCEPT !.needs = {Table(t)} \cup columns, !.clash = {Key(t, key)}, !.adds = {Key(t, key)}]
AddForeignKeyIfMissing(t, key, columns) ==
  [AddForeignKey(t, key, columns) EXCEPT !.unless = {Key(t, key)}]
AddConstraintIfMissing(t, key, columns) ==
  [AddForeignKeyIfMissing(t, key, columns) EXCEPT !.onlyIf = {Table(t)}]
DropConstraintIfExists(t, key) == [Statement EXCEPT !.onlyIf = {Table(t)}, !.gone = {<<t, key>>}]
CreateIndexIfMissing(t, index, columns) == AddForeignKeyIfMissing(t, index, {Column(t, c) : c \in columns})

\* A migration that does nothing unless the table is there.
IfTable(t, statements) ==
  [i \in DOMAIN statements |-> [statements[i] EXCEPT !.onlyIf = @ \cup {Table(t)}]]

\* A statement that reads and writes rows.
Update(t, columns) ==
  [Statement EXCEPT !.needs = {Table(t)} \cup {Column(t, c) : c \in columns}, !.ddl = FALSE]
=============================================================================
