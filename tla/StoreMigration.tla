--------------------------- MODULE StoreMigration ---------------------------
(***************************************************************************)
(* store.Open on the database of an earlier version: internal/store.       *)
(* main opens the store before anything else and stops when it cannot; the *)
(* supervisor starts it again.  A statement may fail and the process may   *)
(* be killed at any time; what a transaction did is then gone.             *)
(*                                                                         *)
(* A row of jobs is one owner's: the statements compare owners by =, on a  *)
(* column that is never NULL.  Its filters are valid JSON with a subject   *)
(* code, or "bad" when the CASE of the backfill yields NULL for them.      *)
(***************************************************************************)
EXTENDS Integers, FiniteSets

CONSTANTS
    Ids,        \* of the rows of jobs, numbers
    Codes,      \* subject codes
    MaxFaults   \* bound: failures and kills

Null == "NULL"
Places == {Null, "", "server"}          \* guild_id
Columns == {"guild_id", "materia_code"}

\* guild_id is NULL in every row while the column does not exist, and so is
\* materia_code.
Rows == [place : Places, filters : Codes \cup {"bad"}, code : Codes \cup {Null}]

VARIABLES
    schema,     \* the file: "jobs", the columns it lacks at first, "index", other tables
    rows,       \* the file: the rows of jobs, a function on the ids in use
    draft,      \* the open transaction's schema and rows
    hasColumn,  \* migrateSearchIdentity: PRAGMA table_info showed materia_code
    opening,    \* Open: the statement it has come to
    found,      \* the rows as this Open found them
    faults      \* what has gone wrong so far

file == <<schema, rows>>

Tables(ids) == [ids -> Rows]
NoDraft == [schema |-> {}, rows |-> [i \in {} |-> Null]]

\* A file with nothing in it, one of before guild_id, and one of before
\* materia_code.
Legacy ==
    /\ schema \in {{}, {"jobs"}, {"jobs", "guild_id"}}
    /\ \E ids \in SUBSET Ids : rows \in Tables(ids)
    /\ schema = {} => rows = NoDraft.rows
    /\ \A i \in DOMAIN rows : /\ rows[i].code = Null
                              /\ "guild_id" \notin schema => rows[i].place = Null

At(statement) ==
    /\ opening = statement
    /\ draft = NoDraft /\ hasColumn = FALSE /\ found = rows /\ faults = 0

Init == Legacy /\ At("schema")

\* A new store that is open.
Fresh ==
    /\ schema = {"jobs", "index", "pending_searches", "admins"} \cup Columns
    /\ rows = NoDraft.rows
    /\ At("open")

-----------------------------------------------------------------------------
(* The statements. *)

\* CREATE TABLE IF NOT EXISTS. A new table has every column.
Created(s) == IF "jobs" \in s THEN s ELSE s \cup {"jobs"} \cup Columns

\* The slip compares the columns themselves, and NULL equals nothing.
Coalesced(place) == IF place = Null THEN "" ELSE place
SameColumn(a, b) == a # Null /\ a = b
SamePlace(a, b) == Coalesced(a) = Coalesced(b)

SameSearch(a, b) == a.code # Null /\ a.code = b.code /\ SamePlace(a.place, b.place)

\* The index has a COALESCE of its own.
Unique(r) == \A i, j \in DOMAIN r :
    i # j /\ r[i].code # Null /\ r[i].code = r[j].code => Coalesced(r[i].place) # Coalesced(r[j].place)

Backfilled(r) == [i \in DOMAIN r |->
    IF r[i].code = Null /\ r[i].filters # "bad" THEN [r[i] EXCEPT !.code = r[i].filters] ELSE r[i]]

\* keeper.id < duplicate.id.
Older(keeper, duplicate) == keeper < duplicate

Deduplicated(r) ==
    LET duplicate(i) == \E k \in DOMAIN r : SameSearch(r[k], r[i]) /\ Older(k, i)
    IN  [i \in {j \in DOMAIN r : ~duplicate(j)} |-> r[i]]

\* A statement of the transaction: where Open goes on, and what it makes of the
\* draft. The one that adds the column is left out when it is there.
Statement(at, next, s, r) ==
    /\ opening = at
    /\ draft' = [schema |-> s, rows |-> r]
    /\ opening' = next

\* What the file holds before the commit. The slip has no transaction.
Written(new, old) == new
Untouched(new, old) == old

Statements ==
    /\ \/ Statement("add column", "backfill",
                    draft.schema \cup (IF hasColumn THEN {} ELSE {"materia_code"}), draft.rows)
       \/ /\ "index" \in draft.schema => Unique(Backfilled(draft.rows))
          /\ Statement("backfill", "deduplicate", draft.schema, Backfilled(draft.rows))
       \/ Statement("deduplicate", "create index", draft.schema, Deduplicated(draft.rows))
       \/ /\ Unique(draft.rows)
          /\ Statement("create index", "commit", draft.schema \cup {"index"}, draft.rows)
    /\ schema' = Untouched(draft'.schema, schema)
    /\ rows' = Untouched(draft'.rows, rows)
    /\ UNCHANGED <<hasColumn, found, faults>>

-----------------------------------------------------------------------------
(* Open. *)

\* A statement outside of the transaction.
Single(at, next, s) ==
    /\ opening = at
    /\ schema' = s /\ opening' = next
    /\ UNCHANGED <<rows, draft, hasColumn, found, faults>>

Schema == Single("schema", "guild_id", Created(schema))
EnsureColumn == Single("guild_id", "begin", schema \cup {"guild_id"})

\* migrateSearchIdentity asks for the columns before its transaction begins.
Begin ==
    /\ opening = "begin"
    /\ hasColumn' = ("materia_code" \in schema)
    /\ draft' = [schema |-> schema, rows |-> rows]
    /\ opening' = "add column"
    /\ UNCHANGED <<file, found, faults>>

Commit ==
    /\ opening = "commit"
    /\ schema' = draft.schema /\ rows' = draft.rows
    /\ draft' = NoDraft
    /\ opening' = "pending_searches"
    /\ UNCHANGED <<hasColumn, found, faults>>

PendingSearches == Single("pending_searches", "admins", schema \cup {"pending_searches"})
Admins == Single("admins", "open", schema \cup {"admins"})

Open == Schema \/ EnsureColumn \/ Begin \/ Statements \/ Commit \/ PendingSearches \/ Admins

\* A statement or the commit fails and Open with it, or the process is killed: it
\* is started again. A backfill or an index that cannot be made fails as well.
Again ==
    /\ opening' = "schema" /\ draft' = NoDraft /\ hasColumn' = FALSE /\ found' = rows
    /\ UNCHANGED file

Fault ==
    /\ faults < MaxFaults
    /\ faults' = faults + 1
    /\ Again

NotUnique ==
    /\ \/ opening = "create index" /\ ~Unique(draft.rows)
       \/ opening = "backfill" /\ "index" \in draft.schema /\ ~Unique(Backfilled(draft.rows))
    /\ Again /\ UNCHANGED faults

\* What the program does with jobs later on: it inserts the code with the row,
\* under the index, and deletes rows.
Insert(i, row) ==
    /\ opening = "open" /\ i \notin DOMAIN rows /\ row.code = row.filters
    /\ \A j \in DOMAIN rows : j < i
    /\ LET r == [j \in DOMAIN rows \cup {i} |-> IF j = i THEN row ELSE rows[j]]
       IN  Unique(r) /\ rows' = r
    /\ UNCHANGED <<schema, draft, hasColumn, opening, found, faults>>

Delete(i) ==
    /\ opening = "open" /\ i \in DOMAIN rows
    /\ rows' = [j \in DOMAIN rows \ {i} |-> rows[j]]
    /\ UNCHANGED <<schema, draft, hasColumn, opening, found, faults>>

Next ==
    \/ Open \/ NotUnique \/ Fault
    \/ \E i \in Ids : Delete(i) \/ \E row \in Rows : Insert(i, row)

-----------------------------------------------------------------------------
(* Properties. *)

Steps == {"schema", "guild_id", "begin", "add column", "backfill", "deduplicate", "create index",
          "commit", "pending_searches", "admins", "open"}

MigrationTypeOK ==
    /\ schema \subseteq {"jobs", "index", "pending_searches", "admins"} \cup Columns
    /\ rows \in Tables(DOMAIN rows) /\ found \in Tables(DOMAIN found)
    /\ draft.rows \in Tables(DOMAIN draft.rows)
    /\ opening \in Steps /\ faults \in 0..MaxFaults

\* What a search is, said without SQL: a code, and a server or none.
Identity(row) == <<IF row.place = Null THEN "" ELSE row.place, row.filters>>

\* "A legacy DB is either fully converged or left untouched": whatever happens
\* while the store opens, jobs is as it was found, or every search that was there
\* is there once, in its oldest row, under its code, and rows of no known subject
\* are left alone.
ConvergedOrUntouched == opening # "open" =>
    \/ rows = found
    \/ /\ \A i \in DOMAIN found : i \notin DOMAIN rows =>
              found[i].filters # "bad" /\ \E k \in DOMAIN rows : k < i /\ Identity(rows[k]) = Identity(found[i])
       /\ \A i \in DOMAIN rows :
              /\ rows[i] = [found[i] EXCEPT !.code = IF found[i].filters = "bad" THEN Null ELSE found[i].filters]
              /\ \A j \in DOMAIN rows : i # j /\ rows[i].filters # "bad" => Identity(rows[i]) # Identity(rows[j])

\* A store that was there before opens: the migration goes through whatever rows
\* the earlier versions left, once nothing fails any more.
EventuallyOpens == opening = "schema" ~> opening = "open"

=============================================================================
