---------------------------- MODULE Process_proofs ----------------------------
(***************************************************************************)
(* What Process says of its parts, for any values of the constants.  As    *)
(* one part moves (OnePartMoves), each has an inductive invariant of its   *)
(* own, over its own variables:                                            *)
(*   StoreInv      where Open has come to, and what it has made of the     *)
(*                 rows it found                                           *)
(*   GuildsInv     a convergence will clear what was ready for it, and     *)
(*                 begins with the global commands                         *)
(*   SessionsInv   the handlers let through are counted with the failures  *)
(*   SnapshotInv   a job is shown as its account was when it was read      *)
(*   PortalInv     nothing is said of a search before its end              *)
(* The sign-in is proved in a module of its own, which is an instance here *)
(* as in Process; the texts are in ProcessTexts_proofs; the forms are a    *)
(* sample that stays.                                                      *)
(***************************************************************************)
EXTENDS ProcessTexts_proofs

\* A step of the process is a step of one part, and the others stay as they are.
LEMMA OnePartMoves ==
    ASSUME [Next]_vars
    PROVE  /\ Store!Next \/ UNCHANGED storeVars
           /\ Gateway!Next \/ UNCHANGED gatewayVars
           /\ SessionsNext \/ UNCHANGED sessionVars
           /\ Dashboard!Next \/ UNCHANGED snapshotVars
           /\ Microsoft!Next \/ UNCHANGED microsoftVars
           /\ Uade!Next \/ UNCHANGED portalVars
           /\ UNCHANGED sample
BY DEF Next, vars

-----------------------------------------------------------------------------
(* The store. *)

SchemaWords == {"jobs", "index", "pending_searches", "admins"} \cup Store!Columns

\* Rows under ids; a code is the one of the filters or NULL, and no code is "bad".
IsJobs(r) ==
    /\ DOMAIN r \subseteq Ids /\ r \in Store!Tables(DOMAIN r)
    /\ \A i \in DOMAIN r : r[i].code \in {Store!Null, r[i].filters} \ {"bad"}

\* What the transaction makes of the rows it found, and what the file holds, at every
\* statement of Open.
Converged(r) == Store!Deduplicated(Store!Backfilled(r))
Staged ==
    /\ opening \in {"schema", "guild_id", "begin", "add column", "backfill", "deduplicate",
                    "create index", "commit"} => rows = found
    /\ opening \in {"add column", "backfill"} => draft.rows = found
    /\ opening = "deduplicate" => draft.rows = Store!Backfilled(found)
    /\ opening \in {"create index", "commit"} => draft.rows = Converged(found)
    /\ opening \in {"pending_searches", "admins"} => rows = Converged(found)

StoreInv ==
    /\ IsJobs(rows) /\ IsJobs(found) /\ IsJobs(draft.rows)
    /\ schema \subseteq SchemaWords /\ draft.schema \subseteq SchemaWords
    /\ opening \in Store!Steps /\ faults \in 0..MaxFaults
    /\ Staged

\* The members of the rows that the statements read.
LEMMA JobsRow ==
    ASSUME NEW r, IsJobs(r), NEW i \in DOMAIN r
    PROVE  /\ i \in Nat /\ r[i] \in Store!Rows
           /\ r[i].filters \in Codes \cup {"bad"} /\ r[i].place \in Store!Places
           /\ r[i].code \in {Store!Null, r[i].filters} /\ r[i].code # "bad"
           /\ r[i] = [place |-> r[i].place, filters |-> r[i].filters, code |-> r[i].code]
<1>1. i \in Ids /\ r \in [DOMAIN r -> Store!Rows] /\ r[i].code \in {Store!Null, r[i].filters} \ {"bad"}
  BY DEF IsJobs, Store!Tables
<1>2. r[i] \in Store!Rows
  BY <1>1
<1> QED
  BY <1>1, <1>2, PartsAssumption DEF Store!Rows

\* The backfill keeps every row and gives each its code, if it has one.
LEMMA BackfilledRows ==
    ASSUME NEW r, IsJobs(r)
    PROVE  /\ IsJobs(Store!Backfilled(r)) /\ DOMAIN Store!Backfilled(r) = DOMAIN r
           /\ \A i \in DOMAIN r : Store!Backfilled(r)[i] =
                  [r[i] EXCEPT !.code = IF r[i].filters = "bad" THEN Store!Null ELSE r[i].filters]
<1> DEFINE b == Store!Backfilled(r)
<1>1. DOMAIN b = DOMAIN r
  BY DEF Store!Backfilled
<1>2. ASSUME NEW i \in DOMAIN r
      PROVE  b[i] = [place |-> r[i].place, filters |-> r[i].filters,
                     code |-> IF r[i].filters = "bad" THEN Store!Null ELSE r[i].filters]
  <2>1. b[i] = IF r[i].code = Store!Null /\ r[i].filters # "bad" THEN [r[i] EXCEPT !.code = r[i].filters] ELSE r[i]
    BY DEF Store!Backfilled
  <2>2. CASE r[i].code = Store!Null /\ r[i].filters # "bad"
    BY <2>1, <2>2, JobsRow
  <2>3. CASE r[i].code # Store!Null \/ r[i].filters = "bad"
    <3>1. b[i] = r[i] /\ (r[i].filters = "bad" => r[i].code = Store!Null)
      BY <2>1, <2>3, JobsRow
    <3>2. r[i].code = IF r[i].filters = "bad" THEN Store!Null ELSE r[i].filters
      BY <2>3, <3>1, JobsRow
    <3> QED
      BY <3>1, <3>2, JobsRow
  <2> QED
    BY <2>2, <2>3
<1>3. ASSUME NEW i \in DOMAIN r
      PROVE  b[i] \in Store!Rows /\ b[i].code \in {Store!Null, b[i].filters} \ {"bad"}
  <2>1. r[i].filters \in Codes \cup {"bad"} /\ r[i].place \in Store!Places
    BY JobsRow
  <2>2. PICK code : code = IF r[i].filters = "bad" THEN Store!Null ELSE r[i].filters
    OBVIOUS
  <2>3. code \in Codes \cup {Store!Null} /\ code \in {Store!Null, r[i].filters} \ {"bad"}
    BY <2>1, <2>2 DEF Store!Null
  <2>4. b[i] = [place |-> r[i].place, filters |-> r[i].filters, code |-> code]
    BY <1>2, <2>2
  <2>5. b[i].code = code /\ b[i].filters = r[i].filters
    BY <2>4
  <2> HIDE DEF b
  <2> QED
    BY <2>1, <2>3, <2>4, <2>5 DEF Store!Rows
<1>4. b \in [DOMAIN b -> Store!Rows]
  BY <1>1, <1>3 DEF Store!Backfilled
<1>5. IsJobs(b)
  BY <1>1, <1>3, <1>4 DEF IsJobs, Store!Tables
<1>6. \A i \in DOMAIN r : b[i] = [r[i] EXCEPT !.code = IF r[i].filters = "bad" THEN Store!Null ELSE r[i].filters]
  BY <1>2, JobsRow
<1> QED
  BY <1>1, <1>5, <1>6

\* The deletion keeps the rows that no older row makes superfluous.
LEMMA DeduplicatedRows ==
    ASSUME NEW r, IsJobs(r)
    PROVE  /\ IsJobs(Store!Deduplicated(r))
           /\ DOMAIN Store!Deduplicated(r) =
                  {i \in DOMAIN r : ~\E k \in DOMAIN r : Store!SameSearch(r[k], r[i]) /\ k < i}
           /\ \A i \in DOMAIN Store!Deduplicated(r) : Store!Deduplicated(r)[i] = r[i]
<1> DEFINE d == Store!Deduplicated(r)
           kept == {i \in DOMAIN r : ~\E k \in DOMAIN r : Store!SameSearch(r[k], r[i]) /\ k < i}
<1>1. d = [i \in kept |-> r[i]]
  BY DEF Store!Deduplicated, Store!Older
<1>2. DOMAIN d = kept /\ \A i \in kept : i \in DOMAIN r /\ d[i] = r[i]
  BY <1>1
<1>3. IsJobs(d)
  <2>1. \A i \in DOMAIN d : i \in Ids /\ d[i] \in Store!Rows /\ d[i].code \in {Store!Null, d[i].filters} \ {"bad"}
    BY <1>2, JobsRow DEF IsJobs
  <2>2. d \in [DOMAIN d -> Store!Rows]
    BY <1>1, <2>1
  <2> QED
    BY <2>1, <2>2 DEF IsJobs, Store!Tables
<1> HIDE DEF d
<1> QED
  BY <1>2, <1>3 DEF d

LEMMA SameSearchTransitive ==
    ASSUME NEW a, NEW b, NEW c, Store!SameSearch(a, b), Store!SameSearch(b, c)
    PROVE  Store!SameSearch(a, c)
BY DEF Store!SameSearch, Store!SamePlace

\* Every row that is deleted has an older one that is kept.
LEMMA KeeperStays ==
    ASSUME NEW r, IsJobs(r), NEW i \in DOMAIN r \ DOMAIN Store!Deduplicated(r)
    PROVE  \E k \in DOMAIN Store!Deduplicated(r) : k < i /\ Store!SameSearch(r[k], r[i])
<1> DEFINE same == {k \in DOMAIN r : Store!SameSearch(r[k], r[i]) /\ k < i}
<1>1. same # {} /\ same \in SUBSET Nat
  BY DeduplicatedRows, JobsRow
<1>2. PICK k \in same : \A j \in same : ~(j < k)
  BY <1>1, LeastId
<1>3. ASSUME NEW j \in DOMAIN r, Store!SameSearch(r[j], r[k]), j < k PROVE FALSE
  <2>1. Store!SameSearch(r[j], r[i])
    BY <1>2, <1>3, SameSearchTransitive
  <2>2. j < i
    BY <1>2, <1>3, JobsRow
  <2> QED
    BY <1>2, <1>3, <2>1, <2>2
<1> QED
  BY <1>2, <1>3, DeduplicatedRows

\* What the transaction makes of the rows: every search once, in its oldest row, under
\* its code.
LEMMA ConvergedRows ==
    ASSUME NEW f, IsJobs(f)
    PROVE  /\ \A i \in DOMAIN f : i \notin DOMAIN Converged(f) =>
                  /\ f[i].filters # "bad"
                  /\ \E k \in DOMAIN Converged(f) : k < i /\ Store!Identity(Converged(f)[k]) = Store!Identity(f[i])
           /\ \A i \in DOMAIN Converged(f) :
                  /\ Converged(f)[i] = [f[i] EXCEPT !.code = IF f[i].filters = "bad" THEN Store!Null ELSE f[i].filters]
                  /\ \A j \in DOMAIN Converged(f) :
                         i # j /\ Converged(f)[i].filters # "bad" =>
                             Store!Identity(Converged(f)[i]) # Store!Identity(Converged(f)[j])
<1> DEFINE b == Store!Backfilled(f)
           c == Converged(f)
<1>1. /\ IsJobs(b) /\ DOMAIN b = DOMAIN f
      /\ \A i \in DOMAIN f : b[i] = [f[i] EXCEPT !.code = IF f[i].filters = "bad" THEN Store!Null ELSE f[i].filters]
  BY BackfilledRows
<1>2. \A i \in DOMAIN f : /\ b[i].place = f[i].place /\ b[i].filters = f[i].filters
                          /\ b[i].code = IF f[i].filters = "bad" THEN Store!Null ELSE f[i].filters
  <2> SUFFICES ASSUME NEW i \in DOMAIN f
               PROVE  /\ b[i].place = f[i].place /\ b[i].filters = f[i].filters
                      /\ b[i].code = IF f[i].filters = "bad" THEN Store!Null ELSE f[i].filters
    OBVIOUS
  <2>1. f[i] = [place |-> f[i].place, filters |-> f[i].filters, code |-> f[i].code]
    BY JobsRow
  <2> QED
    BY <1>1, <2>1
<1>3. /\ DOMAIN c \subseteq DOMAIN f /\ \A i \in DOMAIN c : c[i] = b[i]
      /\ \A i \in DOMAIN c, k \in DOMAIN f : ~(Store!SameSearch(b[k], b[i]) /\ k < i)
  BY <1>1, DeduplicatedRows DEF Converged
<1>4. ASSUME NEW i \in DOMAIN f, i \notin DOMAIN c
      PROVE  /\ f[i].filters # "bad"
             /\ \E k \in DOMAIN c : k < i /\ Store!Identity(c[k]) = Store!Identity(f[i])
  <2>1. PICK k \in DOMAIN c : k < i /\ Store!SameSearch(b[k], b[i])
    BY <1>1, <1>4, KeeperStays DEF Converged
  <2>2. b[k].code # Store!Null /\ b[k].code = b[i].code /\ Store!Coalesced(b[k].place) = Store!Coalesced(b[i].place)
    BY <2>1 DEF Store!SameSearch, Store!SamePlace
  <2>3. f[i].filters # "bad" /\ f[k].filters = f[i].filters
    BY <1>2, <1>3, <2>2
  <2>4. Store!Identity(b[k]) = Store!Identity(f[i])
    BY <1>2, <1>3, <2>2, <2>3 DEF Store!Identity, Store!Coalesced
  <2> QED
    BY <1>3, <2>1, <2>3, <2>4
<1>5. ASSUME NEW i \in DOMAIN c, NEW j \in DOMAIN c, i # j, c[i].filters # "bad",
             Store!Identity(c[i]) = Store!Identity(c[j])
      PROVE  FALSE
  <2>1. b[i].filters = b[j].filters /\ Store!SamePlace(b[i].place, b[j].place)
    BY <1>3, <1>5 DEF Store!Identity, Store!SamePlace, Store!Coalesced
  <2>2. b[i].code = b[i].filters /\ b[j].code = b[i].filters /\ b[i].filters \in Codes
    BY <1>2, <1>3, <1>5, <2>1, JobsRow
  <2>3. Store!SameSearch(b[i], b[j]) /\ Store!SameSearch(b[j], b[i])
    BY <2>1, <2>2, PartsAssumption DEF Store!SameSearch, Store!SamePlace, Store!Null
  <2>4. i \in Nat /\ j \in Nat
    BY <1>3, JobsRow
  <2> QED
    BY <1>3, <1>5, <2>3, <2>4
<1> HIDE DEF b, c
<1>6. \A i \in DOMAIN c : c[i] = [f[i] EXCEPT !.code = IF f[i].filters = "bad" THEN Store!Null ELSE f[i].filters]
  BY <1>1, <1>3
<1> QED
  BY <1>4, <1>5, <1>6 DEF c

LEMMA NoJobs == IsJobs(Store!NoDraft.rows) /\ Store!NoDraft.schema \subseteq SchemaWords
BY DEF IsJobs, Store!NoDraft, Store!Tables

LEMMA StoreBegin == ASSUME Init PROVE StoreInv
<1>1. Store!Init \/ Store!Fresh
  BY DEF Init
<1>2. faults = 0 /\ found = rows /\ draft = Store!NoDraft /\ opening \in {"schema", "open"}
  BY <1>1 DEF Store!Init, Store!Fresh, Store!At
<1>3. IsJobs(rows) /\ schema \subseteq SchemaWords
  <2>1. CASE Store!Init
    <3>1. PICK ids \in SUBSET Ids : rows \in [ids -> Store!Rows]
      BY <2>1 DEF Store!Init, Store!Legacy, Store!Tables
    <3>2. DOMAIN rows = ids /\ rows \in [DOMAIN rows -> Store!Rows]
      BY <3>1
    <3>3. \A i \in DOMAIN rows : rows[i].code = Store!Null
      BY <2>1 DEF Store!Init, Store!Legacy
    <3>4. schema \subseteq SchemaWords
      BY <2>1 DEF Store!Init, Store!Legacy, SchemaWords, Store!Columns
    <3> QED
      BY <3>2, <3>3, <3>4 DEF IsJobs, Store!Tables, Store!Null
  <2>2. CASE Store!Fresh
    BY <2>2, NoJobs DEF Store!Fresh, SchemaWords
  <2> QED
    BY <1>1, <2>1, <2>2
<1>4. opening \in Store!Steps /\ Staged
  BY <1>2 DEF Store!Steps, Staged
<1> QED
  BY <1>2, <1>3, <1>4, NoJobs, PartsAssumption DEF StoreInv

\* A statement outside of the transaction.
LEMMA SingleStore ==
    ASSUME StoreInv, Store!Schema \/ Store!EnsureColumn \/ Store!PendingSearches \/ Store!Admins
    PROVE  StoreInv'
<1>1. UNCHANGED <<rows, draft, found, faults>>
  BY DEF Store!Schema, Store!EnsureColumn, Store!PendingSearches, Store!Admins, Store!Single
<1>2. schema' \subseteq SchemaWords
  BY DEF Store!Schema, Store!EnsureColumn, Store!PendingSearches, Store!Admins, Store!Single, Store!Created,
         StoreInv, SchemaWords, Store!Columns
<1>3. opening' \in Store!Steps /\ Staged'
  BY <1>1 DEF Store!Schema, Store!EnsureColumn, Store!PendingSearches, Store!Admins, Store!Single,
              StoreInv, Store!Steps, Staged
<1> QED
  BY <1>1, <1>2, <1>3 DEF StoreInv, IsJobs

\* A statement of the transaction leaves the file alone.
LEMMA DraftStore == ASSUME StoreInv, Store!Begin \/ Store!Statements PROVE StoreInv'
<1>1. UNCHANGED <<schema, rows, found, faults>>
  BY DEF Store!Begin, Store!Statements, Store!Untouched, Store!file
<1>2. CASE Store!Begin
  <2>1. draft'.rows = rows /\ draft'.schema = schema /\ opening = "begin" /\ opening' = "add column"
    BY <1>2 DEF Store!Begin
  <2>2. Staged'
    BY <1>1, <2>1 DEF StoreInv, Staged
  <2> QED
    BY <1>1, <2>1, <2>2 DEF StoreInv, IsJobs, Store!Steps
<1>3. ASSUME NEW at, NEW next, NEW s, NEW r, Store!Statement(at, next, s, r), s \subseteq SchemaWords,
             \/ at = "add column" /\ next = "backfill" /\ r = draft.rows
             \/ at = "backfill" /\ next = "deduplicate" /\ r = Store!Backfilled(draft.rows)
             \/ at = "deduplicate" /\ next = "create index" /\ r = Store!Deduplicated(draft.rows)
             \/ at = "create index" /\ next = "commit" /\ r = draft.rows
      PROVE  StoreInv'
  <2>1. opening = at /\ opening' = next /\ draft'.rows = r /\ draft'.schema = s
    BY <1>3 DEF Store!Statement
  <2>2. IsJobs(draft'.rows)
    <3>1. IsJobs(draft.rows)
      BY DEF StoreInv
    <3>2. IsJobs(Store!Backfilled(draft.rows)) /\ IsJobs(Store!Deduplicated(draft.rows))
      BY <3>1, BackfilledRows, DeduplicatedRows
    <3> QED
      BY <1>3, <2>1, <3>1, <3>2
  <2>3. Staged'
    BY <1>1, <1>3, <2>1 DEF StoreInv, Staged, Converged
  <2>4. opening' \in Store!Steps
    BY <1>3, <2>1 DEF Store!Steps
  <2> QED
    BY <1>1, <1>3, <2>1, <2>2, <2>3, <2>4 DEF StoreInv, IsJobs
<1>4. CASE Store!Statements
  <2>1. /\ draft.schema \cup (IF hasColumn THEN {} ELSE {"materia_code"}) \subseteq SchemaWords
        /\ draft.schema \subseteq SchemaWords /\ draft.schema \cup {"index"} \subseteq SchemaWords
    BY DEF StoreInv, SchemaWords, Store!Columns
  <2> QED
    BY <1>3, <1>4, <2>1 DEF Store!Statements
<1> QED
  BY <1>2, <1>4

LEMMA CommitStore == ASSUME StoreInv, Store!Commit PROVE StoreInv'
<1>1. /\ opening = "commit" /\ opening' = "pending_searches" /\ draft' = Store!NoDraft
      /\ schema' = draft.schema /\ rows' = draft.rows /\ found' = found /\ faults' = faults
  BY DEF Store!Commit
<1>2. Staged'
  BY <1>1 DEF StoreInv, Staged, Converged
<1> QED
  BY <1>1, <1>2, NoJobs DEF StoreInv, IsJobs, Store!Steps

\* Open starts over, on what the file holds.
LEMMA AgainStore == ASSUME StoreInv, Store!Fault \/ Store!NotUnique PROVE StoreInv'
<1>1. opening' = "schema" /\ draft' = Store!NoDraft /\ found' = rows /\ UNCHANGED <<schema, rows>>
  BY DEF Store!Fault, Store!NotUnique, Store!Again, Store!file
<1>2. faults' \in 0..MaxFaults
  <2>1. faults \in 0..MaxFaults /\ MaxFaults \in Nat
    BY PartsAssumption DEF StoreInv
  <2>2. faults' = faults \/ (faults < MaxFaults /\ faults' = faults + 1)
    BY DEF Store!Fault, Store!NotUnique
  <2> QED
    BY <2>1, <2>2
<1>3. Staged'
  BY <1>1 DEF Staged
<1> QED
  BY <1>1, <1>2, <1>3, NoJobs DEF StoreInv, IsJobs, Store!Steps

\* The program inserts a row with its code, and deletes rows.
LEMMA UseStore ==
    ASSUME StoreInv, NEW i \in Ids, Store!Delete(i) \/ \E row \in Store!Rows : Store!Insert(i, row)
    PROVE  StoreInv'
<1>1. opening = "open" /\ UNCHANGED <<schema, draft, opening, found, faults>>
  BY DEF Store!Delete, Store!Insert
<1>2. CASE Store!Delete(i)
  <2>1. rows' = [j \in DOMAIN rows \ {i} |-> rows[j]]
    BY <1>2 DEF Store!Delete
  <2>2. \A j \in DOMAIN rows' : j \in DOMAIN rows /\ rows'[j] = rows[j]
    BY <2>1
  <2>3. \A j \in DOMAIN rows' : j \in Ids /\ rows'[j] \in Store!Rows /\ rows'[j].code \in {Store!Null, rows'[j].filters} \ {"bad"}
    BY <2>2, JobsRow DEF StoreInv, IsJobs
  <2>4. rows' \in [DOMAIN rows' -> Store!Rows]
    BY <2>1, <2>3
  <2> QED
    BY <1>1, <2>3, <2>4 DEF StoreInv, IsJobs, Staged, Store!Tables
<1>3. ASSUME NEW row \in Store!Rows, Store!Insert(i, row) PROVE StoreInv'
  <2>1. rows' = [j \in DOMAIN rows \cup {i} |-> IF j = i THEN row ELSE rows[j]] /\ row.code = row.filters
    BY <1>3 DEF Store!Insert
  <2>2. \A j \in DOMAIN rows' : j \in Ids /\ (rows'[j] = row \/ (j \in DOMAIN rows /\ rows'[j] = rows[j]))
    BY <2>1 DEF StoreInv, IsJobs
  <2>3. row.code \in {Store!Null, row.filters} \ {"bad"}
    BY <2>1, PartsAssumption DEF Store!Rows, Store!Null
  <2>4. \A j \in DOMAIN rows' : j \in Ids /\ rows'[j] \in Store!Rows /\ rows'[j].code \in {Store!Null, rows'[j].filters} \ {"bad"}
    BY <2>2, <2>3, JobsRow DEF StoreInv, IsJobs
  <2>5. rows' \in [DOMAIN rows' -> Store!Rows]
    BY <2>1, <2>4
  <2> QED
    BY <1>1, <2>4, <2>5 DEF StoreInv, IsJobs, Staged, Store!Tables
<1> QED
  BY <1>2, <1>3

LEMMA StoreStep == ASSUME StoreInv, [Next]_vars PROVE StoreInv'
<1>1. CASE UNCHANGED storeVars
  BY <1>1 DEF storeVars, StoreInv, Staged, IsJobs
<1>2. CASE Store!Open
  BY <1>2, SingleStore, DraftStore, CommitStore DEF Store!Open
<1> QED
  BY <1>1, <1>2, AgainStore, UseStore, OnePartMoves DEF Store!Next

\* A database of an earlier version is converged or left as it was found, whatever fails
\* and whenever the process is killed, for any rows and codes (internal/store).
THEOREM MigrationKept == Spec => []ConvergedOrUntouched
<1>1. Init => StoreInv
  BY StoreBegin
<1>2. StoreInv /\ [Next]_vars => StoreInv'
  BY StoreStep
<1>3. StoreInv => ConvergedOrUntouched
  <2> SUFFICES ASSUME StoreInv, opening # "open", rows # found PROVE Store!ConvergedOrUntouched
    BY DEF ConvergedOrUntouched, Store!ConvergedOrUntouched
  <2>1. rows = Converged(found) /\ IsJobs(found)
    BY DEF StoreInv, Staged, Store!Steps
  <2> QED
    BY <2>1, ConvergedRows DEF Store!ConvergedOrUntouched
<1> QED
  BY <1>1, <1>2, <1>3, PTL DEF Spec

-----------------------------------------------------------------------------
(* The guilds and their commands.  What a convergence has to do covers the guilds    *)
(* that were ready when it was started, since the projection it reads had them and    *)
(* lost only the ones the bot left (Promised); and the global commands are the first  *)
(* of it (GlobalDone).                                                                 *)

ConvergenceShape == [pc : {"none", "guilds", "put"}, todo : SUBSET (Guilds \cup {"global"}),
         attempt : 0..Attempts - 1, ready : SUBSET Guilds]

\* The guilds of the session that are to come are the bot's, and only a session that
\* is loading has some.
Loading == loading \subseteq members /\ (session # "loading" => loading = {})

\* What is projected too much was missed, and what is not has not come yet.
Projected ==
    /\ session # "down" => members \ loading \subseteq projected
    /\ projected \ members \subseteq missed

\* A convergence will clear the guilds that were ready for it.
Promised == \A c \in Convergences :
    /\ convergence[c].pc = "guilds" => convergence[c].ready \subseteq projected
    /\ convergence[c].pc = "put" => convergence[c].ready \cap copies \subseteq convergence[c].todo

\* What is done begins with the global commands.
GlobalDone == \A c \in Convergences :
    convergence[c].pc = "put" /\ "global" \notin convergence[c].todo => globalSet = "new"

GuildsInv == Gateway!GatewayTypeOK /\ Loading /\ Projected /\ Promised /\ GlobalDone

\* One convergence goes on and the others stay as they are.
LEMMA OneGoesOn ==
    ASSUME Gateway!GatewayTypeOK, NEW c \in Convergences, NEW w \in ConvergenceShape, convergence' = [convergence EXCEPT ![c] = w]
    PROVE  /\ convergence' \in [Convergences -> ConvergenceShape] /\ convergence'[c] = w
           /\ \A d \in Convergences \ {c} : convergence'[d] = convergence[d]
BY DEF Gateway!GatewayTypeOK, ConvergenceShape

LEMMA NothingToDo == Gateway!NoConvergence \in ConvergenceShape /\ Gateway!NoConvergence.pc = "none"
BY PartsAssumption DEF Gateway!NoConvergence, ConvergenceShape

LEMMA GotoWork ==
    ASSUME Gateway!GatewayTypeOK, NEW c \in Convergences, NEW pc \in {"none", "guilds", "put"},
           NEW todo \in SUBSET (Guilds \cup {"global"}), NEW attempt \in 0..Attempts - 1,
           Gateway!Goto(c, pc, todo, attempt)
    PROVE  /\ convergence' \in [Convergences -> ConvergenceShape]
           /\ convergence'[c].pc = pc /\ convergence'[c].todo = todo
           /\ convergence'[c].ready = convergence[c].ready
           /\ \A d \in Convergences \ {c} : convergence'[d] = convergence[d]
<1>1. PICK w : w = [convergence[c] EXCEPT !.pc = pc, !.todo = todo, !.attempt = attempt]
  OBVIOUS
<1>2. convergence[c] \in ConvergenceShape
  BY DEF Gateway!GatewayTypeOK, ConvergenceShape
<1>3. w \in ConvergenceShape /\ w.pc = pc /\ w.todo = todo /\ w.ready = convergence[c].ready
  BY <1>1, <1>2 DEF ConvergenceShape
<1>4. convergence' = [convergence EXCEPT ![c] = w]
  BY <1>1 DEF Gateway!Goto
<1> QED
  BY <1>3, <1>4, OneGoesOn

LEMMA GuildsBegin == Gateway!Init => GuildsInv
<1> SUFFICES ASSUME Gateway!Init PROVE GuildsInv
  OBVIOUS
<1>1. \A c \in Convergences : convergence[c] \in ConvergenceShape /\ convergence[c].pc = "none"
  BY NothingToDo DEF Gateway!Init
<1>2. Gateway!GatewayTypeOK
  BY <1>1 DEF Gateway!Init, Gateway!GatewayTypeOK, ConvergenceShape
<1> QED
  BY <1>1, <1>2 DEF Gateway!Init, GuildsInv, Loading, Projected, Promised, GlobalDone

\* Steps of the gateway that leave the guilds and the convergences alone, but for
\* what is projected.
LEMMA ProjectionStep ==
    ASSUME GuildsInv, UNCHANGED <<Gateway!discordVars, convergence>>, Gateway!GatewayTypeOK', Loading', Projected',
           projected \subseteq projected'
    PROVE  GuildsInv'
BY DEF GuildsInv, Promised, GlobalDone, Gateway!discordVars

LEMMA SessionSteps ==
    ASSUME GuildsInv, Gateway!Connect \/ Gateway!Disconnect \/ \E g \in Guilds : Gateway!OnGuildReady(g) \/ Gateway!OnGuildUnavailable(g) \/ Gateway!OnGuildAvailable(g)
    PROVE  GuildsInv'
<1> USE DEF GuildsInv, Gateway!GatewayTypeOK, Loading, Projected, Gateway!discordVars
<1>1. CASE Gateway!Connect
  BY <1>1, ProjectionStep DEF Gateway!Connect
<1>2. CASE Gateway!Disconnect
  BY <1>2, ProjectionStep DEF Gateway!Disconnect
<1>3. ASSUME NEW g \in Guilds, Gateway!OnGuildReady(g) PROVE GuildsInv'
  BY <1>3, ProjectionStep DEF Gateway!OnGuildReady
<1>4. ASSUME NEW g \in Guilds, Gateway!OnGuildUnavailable(g) \/ Gateway!OnGuildAvailable(g) PROVE GuildsInv'
  BY <1>4, ProjectionStep DEF Gateway!OnGuildUnavailable, Gateway!OnGuildAvailable, Gateway!StillProjected
<1> QED
  BY <1>1, <1>2, <1>3, <1>4

LEMMA JoinSteps ==
    ASSUME GuildsInv, NEW g \in Guilds, Gateway!OnGuildJoin(g) \/ Gateway!JoinedUnseen(g)
    PROVE  GuildsInv'
<1>1. UNCHANGED <<globalSet, copies, session, loading, convergence>>
  BY DEF Gateway!OnGuildJoin, Gateway!JoinedUnseen
<1>2. Gateway!GatewayTypeOK' /\ Loading' /\ Projected'
  BY DEF Gateway!OnGuildJoin, Gateway!JoinedUnseen, GuildsInv, Gateway!GatewayTypeOK, Loading, Projected
<1>3. projected \subseteq projected'
  BY DEF Gateway!OnGuildJoin, Gateway!JoinedUnseen
<1> QED
  BY <1>1, <1>2, <1>3 DEF GuildsInv, Promised, GlobalDone

\* The bot leaves a guild: its commands go, and nobody waits for it.
LEMMA LeaveSteps ==
    ASSUME GuildsInv, NEW g \in Guilds, Gateway!OnGuildLeave(g) \/ Gateway!LeftUnseen(g)
    PROVE  GuildsInv'
<1>1. Gateway!Left(g) /\ globalSet' = globalSet /\ session' = session /\ loading' = loading
  BY DEF Gateway!OnGuildLeave, Gateway!LeftUnseen, Gateway!Left
<1>2. ASSUME NEW c \in Convergences
      PROVE  /\ convergence'[c] \in ConvergenceShape /\ convergence'[c].pc = convergence[c].pc
             /\ convergence'[c].todo = convergence[c].todo
             /\ convergence'[c].ready = convergence[c].ready \ {g}
  <2>1. convergence[c] \in ConvergenceShape
    BY DEF GuildsInv, Gateway!GatewayTypeOK, ConvergenceShape
  <2>2. convergence'[c] = [convergence[c] EXCEPT !.ready = @ \ {g}]
    BY <1>1 DEF Gateway!Left
  <2> QED
    BY <2>1, <2>2 DEF ConvergenceShape
<1>3. convergence' \in [Convergences -> ConvergenceShape]
  BY <1>1, <1>2 DEF Gateway!Left
<1>4. copies' \subseteq copies /\ projected \ {g} \subseteq projected'
  BY <1>1 DEF Gateway!Left, Gateway!OnGuildLeave, Gateway!LeftUnseen
<1>5. Gateway!GatewayTypeOK' /\ Loading' /\ Projected'
  BY <1>1, <1>3 DEF Gateway!Left, Gateway!OnGuildLeave, Gateway!LeftUnseen, GuildsInv, Gateway!GatewayTypeOK, Loading, Projected, ConvergenceShape
<1>6. Promised' /\ GlobalDone'
  BY <1>1, <1>2, <1>4 DEF GuildsInv, Promised, GlobalDone
<1> QED
  BY <1>5, <1>6 DEF GuildsInv

\* Steps of one convergence that change no guild.
LEMMA ConvergenceStep ==
    ASSUME GuildsInv, NEW c \in Convergences, UNCHANGED <<members, loading, missed, projected>>,
           session' = session \/ (session' # "down" /\ session # "down" /\ loading = {}),
           session' \in {"down", "loading", "ready"},
           copies' \subseteq copies, globalSet' \in {globalSet, "new"},
           convergence' \in [Convergences -> ConvergenceShape],
           \A d \in Convergences \ {c} : convergence'[d] = convergence[d],
           convergence'[c].pc = "guilds" => convergence'[c].ready \subseteq projected,
           convergence'[c].pc = "put" => convergence'[c].ready \cap copies' \subseteq convergence'[c].todo,
           convergence'[c].pc = "put" /\ "global" \notin convergence'[c].todo => globalSet' = "new"
    PROVE  GuildsInv'
<1>1. Gateway!GatewayTypeOK' /\ Loading' /\ Projected'
  BY DEF GuildsInv, Gateway!GatewayTypeOK, Loading, Projected, ConvergenceShape
<1>2. Promised' /\ GlobalDone'
  BY DEF GuildsInv, Promised, GlobalDone
<1> QED
  BY <1>1, <1>2 DEF GuildsInv

LEMMA StageDone ==
    ASSUME GuildsInv, NEW c \in Convergences, convergence[c].pc = "put",
           globalSet' = IF Gateway!GlobalFirst(convergence[c].todo) = "global" THEN "new" ELSE globalSet
    PROVE  "global" \notin convergence[c].todo \ {Gateway!GlobalFirst(convergence[c].todo)} => globalSet' = "new"
BY DEF GuildsInv, GlobalDone

LEMMA ConvergenceSteps ==
    ASSUME GuildsInv, NEW c \in Convergences,
           Gateway!GuildsReady(c) \/ Gateway!ReadGuilds(c) \/ Gateway!Put(c) \/ Gateway!RateLimited(c) \/ Gateway!GiveUp(c) \/ Gateway!Converged(c)
    PROVE  GuildsInv'
<1>0. /\ convergence[c] \in ConvergenceShape /\ session \in {"down", "loading", "ready"}
      /\ Gateway!GatewayTypeOK /\ 0 \in 0..Attempts - 1
  BY PartsAssumption DEF GuildsInv, Gateway!GatewayTypeOK, ConvergenceShape
<1>1. CASE Gateway!GuildsReady(c)
  <2>1. PICK w : w = [Gateway!NoConvergence EXCEPT !.pc = "guilds", !.ready = members]
    OBVIOUS
  <2>2. w \in ConvergenceShape /\ w.pc = "guilds" /\ w.ready = members
    BY <2>1, NothingToDo DEF Gateway!NoConvergence, ConvergenceShape, GuildsInv, Gateway!GatewayTypeOK
  <2>3. convergence' = [convergence EXCEPT ![c] = w]
    BY <1>1, <2>1 DEF Gateway!GuildsReady
  <2>4. session = "loading" /\ loading = {} /\ session' = "ready" /\ members \subseteq projected
    BY <1>1 DEF Gateway!GuildsReady, Gateway!GuildsReadyEvent, GuildsInv, Projected
  <2>5. UNCHANGED <<Gateway!discordVars, loading, missed, projected>>
    BY <1>1 DEF Gateway!GuildsReady
  <2> QED
    BY <1>0, <2>2, <2>3, <2>4, <2>5, OneGoesOn, ConvergenceStep DEF Gateway!discordVars
<1>2. CASE Gateway!ReadGuilds(c)
  <2>1. PICK todo : todo = {"global"} \cup projected
    OBVIOUS
  <2>2. todo \in SUBSET (Guilds \cup {"global"}) /\ convergence[c].ready \subseteq todo /\ "global" \in todo
    BY <1>0, <1>2, <2>1 DEF Gateway!ReadGuilds, GuildsInv, Promised, Gateway!GatewayTypeOK
  <2>3. Gateway!Goto(c, "put", todo, 0) /\ UNCHANGED <<Gateway!discordVars, session, loading, missed, projected>>
    BY <1>2, <2>1 DEF Gateway!ReadGuilds
  <2>4. /\ convergence' \in [Convergences -> ConvergenceShape]
        /\ convergence'[c].pc = "put" /\ convergence'[c].todo = todo
        /\ convergence'[c].ready = convergence[c].ready
        /\ \A d \in Convergences \ {c} : convergence'[d] = convergence[d]
    BY <1>0, <2>2, <2>3, GotoWork
  <2> QED
    BY <1>0, <2>2, <2>3, <2>4, ConvergenceStep DEF Gateway!discordVars
<1>3. CASE Gateway!Put(c)
  <2>1. PICK stage : stage = Gateway!GlobalFirst(convergence[c].todo)
    OBVIOUS
  <2>2. PICK todo : todo = convergence[c].todo \ {stage}
    OBVIOUS
  <2>3. /\ convergence[c].pc = "put" /\ todo \in SUBSET (Guilds \cup {"global"})
        /\ globalSet' = (IF stage = "global" THEN "new" ELSE globalSet)
        /\ copies' = copies \ {stage} /\ Gateway!Goto(c, "put", todo, 0)
        /\ UNCHANGED <<members, session, loading, missed, projected>>
    BY <1>0, <1>3, <2>1, <2>2 DEF Gateway!Put, ConvergenceShape
  <2>4. /\ convergence' \in [Convergences -> ConvergenceShape]
        /\ convergence'[c].pc = "put" /\ convergence'[c].todo = todo
        /\ convergence'[c].ready = convergence[c].ready
        /\ \A d \in Convergences \ {c} : convergence'[d] = convergence[d]
    BY <1>0, <2>3, GotoWork
  <2>5. convergence[c].ready \cap copies' \subseteq todo
    BY <2>2, <2>3 DEF GuildsInv, Promised
  <2>6. "global" \notin todo => globalSet' = "new"
    BY <2>1, <2>2, <2>3, StageDone
  <2> QED
    BY <1>0, <2>3, <2>4, <2>5, <2>6, ConvergenceStep
<1>4. CASE Gateway!RateLimited(c)
  <2>1. PICK todo, attempt : todo = convergence[c].todo /\ attempt = convergence[c].attempt + 1
    OBVIOUS
  <2>2. /\ convergence[c].pc = "put" /\ todo \in SUBSET (Guilds \cup {"global"}) /\ attempt \in 0..Attempts - 1
        /\ Gateway!Goto(c, "put", todo, attempt) /\ UNCHANGED <<Gateway!discordVars, session, loading, missed, projected>>
    BY <1>0, <1>4, <2>1, PartsAssumption DEF Gateway!RateLimited, ConvergenceShape
  <2>3. /\ convergence' \in [Convergences -> ConvergenceShape]
        /\ convergence'[c].pc = "put" /\ convergence'[c].todo = todo
        /\ convergence'[c].ready = convergence[c].ready
        /\ \A d \in Convergences \ {c} : convergence'[d] = convergence[d]
    BY <1>0, <2>2, GotoWork
  <2>4. convergence[c].ready \cap copies \subseteq todo /\ ("global" \notin todo => globalSet = "new")
    BY <2>1, <2>2 DEF GuildsInv, Promised, GlobalDone
  <2> QED
    BY <1>0, <2>2, <2>3, <2>4, ConvergenceStep DEF Gateway!discordVars
<1>5. CASE Gateway!GiveUp(c) \/ Gateway!Converged(c)
  <2>1. /\ convergence' = [convergence EXCEPT ![c] = Gateway!NoConvergence]
        /\ copies' \subseteq copies /\ globalSet' \in {globalSet, "new"}
        /\ UNCHANGED <<members, session, loading, missed, projected>>
    BY <1>5 DEF Gateway!GiveUp, Gateway!Converged, Gateway!discordVars
  <2>2. /\ convergence' \in [Convergences -> ConvergenceShape] /\ convergence'[c].pc = "none"
        /\ \A d \in Convergences \ {c} : convergence'[d] = convergence[d]
    BY <1>0, <2>1, NothingToDo, OneGoesOn
  <2> QED
    BY <1>0, <2>1, <2>2, ConvergenceStep
<1> QED
  BY <1>1, <1>2, <1>3, <1>4, <1>5

\* A guild's own commands go only when the global ones are there.
LEMMA CommandsKept ==
    ASSUME GuildsInv, Gateway!Next
    PROVE  Gateway!NeverWithoutCommands
<1>1. ASSUME NEW c \in Convergences, Gateway!Put(c) \/ Gateway!GiveUp(c) PROVE Gateway!NeverWithoutCommands
  <2>1. PICK stage : stage = Gateway!GlobalFirst(convergence[c].todo)
    OBVIOUS
  <2>2. convergence[c].pc = "put" /\ copies' \in {copies, copies \ {stage}}
    BY <1>1, <2>1 DEF Gateway!Put, Gateway!GiveUp
  <2>3. stage # "global" => "global" \notin convergence[c].todo
    BY <2>1 DEF Gateway!GlobalFirst
  <2>4. stage # "global" => globalSet = "new"
    BY <2>2, <2>3 DEF GuildsInv, GlobalDone
  <2> QED
    BY <2>2, <2>4, PartsAssumption DEF Gateway!NeverWithoutCommands
<1>2. ASSUME NEW g \in Guilds, Gateway!Left(g) PROVE Gateway!NeverWithoutCommands
  BY <1>2 DEF Gateway!Left, Gateway!NeverWithoutCommands
<1>3. ASSUME copies' = copies PROVE Gateway!NeverWithoutCommands
  BY <1>3 DEF Gateway!NeverWithoutCommands
<1> QED
  BY <1>1, <1>2, <1>3
  DEF Gateway!Next, Gateway!Connect, Gateway!Disconnect, Gateway!OnGuildReady, Gateway!OnGuildJoin, Gateway!OnGuildLeave, Gateway!OnGuildUnavailable, Gateway!OnGuildAvailable,
      Gateway!LeftUnseen, Gateway!JoinedUnseen, Gateway!GuildsReady, Gateway!ReadGuilds, Gateway!RateLimited, Gateway!Converged, Gateway!discordVars

\* A step of any part keeps what is known of the guilds.
LEMMA GuildsStep == ASSUME GuildsInv, [Next]_vars PROVE GuildsInv'
<1>1. CASE UNCHANGED gatewayVars
  BY <1>1 DEF gatewayVars, GuildsInv, Gateway!GatewayTypeOK, Loading, Projected, Promised, GlobalDone
<1>2. CASE Gateway!Next
  BY <1>2, SessionSteps, JoinSteps, LeaveSteps, ConvergenceSteps DEF Gateway!Next
<1> QED
  BY <1>1, <1>2, OnePartMoves

\* The projection, the commands and what a convergence reports are right in every step
\* of the process, for any guilds, reconnects and convergences (listeners.go, register.go).
THEOREM GuildsKept == Spec => GatewaySafe
<1>1. Init => GuildsInv
  BY GuildsBegin DEF Init
<1>2. GuildsInv /\ [Next]_vars => GuildsInv'
  BY GuildsStep
<1>3. GuildsInv /\ GuildsInv' /\ [Next]_vars
      => [Gateway!ProjectionFollows' /\ Gateway!NeverWithoutCommands /\ Gateway!SuccessCoversReady]_(Gateway!gatewayVars)
  <2> SUFFICES ASSUME GuildsInv, GuildsInv', [Next]_vars
               PROVE  \/ UNCHANGED Gateway!gatewayVars
                      \/ Gateway!ProjectionFollows' /\ Gateway!NeverWithoutCommands /\ Gateway!SuccessCoversReady
    OBVIOUS
  <2>1. CASE UNCHANGED gatewayVars
    BY <2>1 DEF gatewayVars, Gateway!gatewayVars, Gateway!discordVars
  <2>2. CASE Gateway!Next
    <3>1. Gateway!ProjectionFollows'
      BY DEF GuildsInv, Projected, Gateway!ProjectionFollows
    <3>2. Gateway!SuccessCoversReady
      BY DEF GuildsInv, Promised, GlobalDone, Gateway!SuccessCoversReady, Gateway!Converged
    <3> QED
      BY <2>2, <3>1, <3>2, CommandsKept
  <2> QED
    BY <2>1, <2>2, OnePartMoves
<1> QED
  BY <1>1, <1>2, <1>3, PTL DEF Spec, GatewaySafe, Gateway!GatewaySafe

-----------------------------------------------------------------------------
(* The sessions of the dashboard. *)

SessionShape == [age : 0..TTL, auth : BOOLEAN]
RequestShape == [pc : {"none", "limit", "password", "sign in", "logout"}, sid : Sids \cup {NoSid}]

\* Sessions of the type, no more than the cap.
IsTable(t) ==
    /\ DOMAIN t \subseteq Sids /\ \A s \in DOMAIN t : t[s] \in SessionShape
    /\ IsFiniteSet(DOMAIN t) /\ Cardinality(DOMAIN t) <= MaxSessions

\* The handlers that were let through, and the failures that still count.
Admitted == {h \in Handlers : request[h].pc = "password"}
Effective == IF attempts.age < LoginWindow THEN attempts.failures ELSE 0

SessionsInv ==
    /\ IsTable(sessions)
    /\ attempts \in [age : 0..LoginWindow, failures : Nat]
    /\ cookie \in Sids \cup {NoSid}
    /\ request \in [Handlers -> RequestShape]
    /\ FailuresBounded

LEMMA WithoutTable == ASSUME NEW t, IsTable(t), NEW ids PROVE IsTable(Without(t, ids))
<1>1. DOMAIN Without(t, ids) = DOMAIN t \ ids /\ \A s \in DOMAIN t \ ids : Without(t, ids)[s] = t[s]
  BY DEF Without
<1>2. IsFiniteSet(DOMAIN t \ ids) /\ Cardinality(DOMAIN t \ ids) <= Cardinality(DOMAIN t)
  <2>1. DOMAIN t \ ids \in SUBSET DOMAIN t /\ IsFiniteSet(DOMAIN t)
    BY DEF IsTable
  <2> QED
    BY <2>1, FS_Subset
<1>3. Cardinality(DOMAIN t) \in Nat /\ Cardinality(DOMAIN t \ ids) \in Nat
  BY <1>2, FS_CardinalityType DEF IsTable
<1> QED
  BY <1>1, <1>2, <1>3, SessionsAssumption DEF IsTable

LEMMA AliveTable == ASSUME NEW t, IsTable(t) PROVE IsTable(Alive(t))
BY WithoutTable DEF Alive

\* Room is made first, so that the insertion stays within the cap and keeps the new
\* session.
LEMMA InsertTable ==
    ASSUME NEW t, IsTable(t), NEW s \in Sids, NEW auth \in BOOLEAN, NEW n \in EvictInsert(t, s, auth)
    PROVE  IsTable(n) /\ s \in DOMAIN n
<1>1. PICK e \in Evicted(t) : n = With(e, s, auth)
  BY DEF EvictInsert
<1>2. IsTable(e) /\ Cardinality(DOMAIN e) < MaxSessions
  <2>1. Cardinality(DOMAIN t) \in Nat
    BY FS_CardinalityType DEF IsTable
  <2>2. CASE ~Full(t)
    BY <2>1, <2>2, <1>1, SessionsAssumption DEF Evicted, Full
  <2>3. CASE Full(t)
    <3>1. PICK o \in Oldest(t) : e = Without(t, {o})
      BY <1>1, <2>3 DEF Evicted
    <3>2. o \in DOMAIN t /\ DOMAIN e = DOMAIN t \ {o}
      BY <3>1 DEF Oldest, Without
    <3>3. Cardinality(DOMAIN e) = Cardinality(DOMAIN t) - 1
      BY <3>2, FS_RemoveElement DEF IsTable
    <3> QED
      BY <2>1, <3>1, <3>3, WithoutTable, SessionsAssumption DEF IsTable
  <2> QED
    BY <2>2, <2>3
<1>3. DOMAIN n = DOMAIN e \cup {s}
  BY <1>1 DEF With
<1>4. IsFiniteSet(DOMAIN n) /\ Cardinality(DOMAIN n) <= MaxSessions
  <2>1. Cardinality(DOMAIN e) \in Nat
    BY <1>2, FS_CardinalityType DEF IsTable
  <2>2. /\ IsFiniteSet(DOMAIN e \cup {s})
        /\ Cardinality(DOMAIN e \cup {s}) <= Cardinality(DOMAIN e) + 1
    <3>1. IsFiniteSet(DOMAIN e)
      BY <1>2 DEF IsTable
    <3>2. Cardinality(DOMAIN e \cup {s}) = IF s \in DOMAIN e THEN Cardinality(DOMAIN e) ELSE Cardinality(DOMAIN e) + 1
      BY <3>1, FS_AddElement
    <3> QED
      BY <2>1, <3>1, <3>2, FS_AddElement
  <2>3. Cardinality(DOMAIN e \cup {s}) \in Nat
    BY <2>2, FS_CardinalityType
  <2> QED
    BY <1>2, <1>3, <2>1, <2>2, <2>3, SessionsAssumption
<1>5. \A r \in DOMAIN n : n[r] \in SessionShape
  <2>1. [age |-> 0, auth |-> auth] \in SessionShape
    BY SessionsAssumption DEF SessionShape
  <2>2. \A r \in DOMAIN n : n[r] = IF r = s THEN [age |-> 0, auth |-> auth] ELSE e[r]
    BY <1>1, <1>3 DEF With
  <2>3. \A r \in DOMAIN e : e[r] \in SessionShape
    BY <1>2 DEF IsTable
  <2> QED
    BY <1>3, <2>1, <2>2, <2>3
<1>6. DOMAIN n \subseteq Sids
  BY <1>2, <1>3 DEF IsTable
<1> QED
  BY <1>3, <1>4, <1>5, <1>6 DEF IsTable

LEMMA AdmittedCounted ==
    /\ IsFiniteSet(Admitted) /\ Cardinality(Admitted) \in Nat
    /\ Cardinality(Handlers) \in Nat /\ Cardinality(Admitted) <= Cardinality(Handlers)
<1>1. Admitted \in SUBSET Handlers /\ IsFiniteSet(Handlers)
  BY SessionsAssumption DEF Admitted
<1> QED
  BY <1>1, FS_Subset, FS_CardinalityType

LEMMA AdmittedNext ==
    Cardinality(Admitted') \in Nat /\ Cardinality(Admitted') <= Cardinality(Handlers)
<1>1. Admitted' \in SUBSET Handlers /\ IsFiniteSet(Handlers)
  BY SessionsAssumption DEF Admitted
<1> QED
  BY <1>1, FS_Subset, FS_CardinalityType

LEMMA SessionsBegin == ASSUME SessionsInit PROVE SessionsInv
<1>1. IsTable(sessions)
  <2>1. DOMAIN sessions = {}
    BY DEF SessionsInit
  <2> QED
    BY <2>1, FS_EmptySet, SessionsAssumption DEF IsTable
<1>2. attempts \in [age : 0..LoginWindow, failures : Nat] /\ cookie \in Sids \cup {NoSid} /\ Effective = 0
  BY SessionsAssumption DEF SessionsInit, NoAttempts, Effective
<1>3. request \in [Handlers -> RequestShape]
  BY DEF SessionsInit, NoRequest, RequestShape
<1>4. FailuresBounded
  <2>1. LoginLimit - 1 >= 0 /\ LoginLimit - 1 \in Int
    BY SessionsAssumption
  <2> QED
    BY <1>2, <2>1, AdmittedCounted DEF FailuresBounded, Admitted, Effective
<1> QED
  BY <1>1, <1>2, <1>3, <1>4 DEF SessionsInv

\* Time makes no session younger, and failures count no longer or as before.
LEMMA TickSessions == ASSUME SessionsInv, Tick PROVE SessionsInv' /\ HandedOutIsThere
<1>1. IsTable(sessions')
  <2>1. DOMAIN sessions' = DOMAIN sessions
    BY DEF Tick
  <2>2. ASSUME NEW s \in DOMAIN sessions PROVE sessions'[s] \in SessionShape
    <3>1. sessions[s] \in SessionShape
      BY DEF SessionsInv, IsTable
    <3>2. PICK age : age = IF sessions[s].age < TTL THEN sessions[s].age + 1 ELSE sessions[s].age
      OBVIOUS
    <3>3. age \in 0..TTL
      BY <3>1, <3>2, SessionsAssumption DEF SessionShape
    <3>4. sessions'[s] = [sessions[s] EXCEPT !.age = age]
      BY <3>2 DEF Tick
    <3> QED
      BY <3>1, <3>3, <3>4 DEF SessionShape
  <2> QED
    BY <2>1, <2>2 DEF SessionsInv, IsTable
<1>2. /\ attempts' \in [age : 0..LoginWindow, failures : Nat] /\ attempts'.failures = attempts.failures
      /\ attempts'.age >= attempts.age
  BY SessionsAssumption DEF Tick, SessionsInv
<1>3. Effective' <= Effective /\ Effective' \in Nat /\ Effective \in Nat
  BY <1>2, SessionsAssumption DEF Effective, SessionsInv
<1>4. FailuresBounded'
  <2>1. Admitted' = Admitted
    BY DEF Tick, Admitted
  <2>2. Effective + Cardinality(Admitted) <= LoginLimit - 1 + Cardinality(Handlers)
    BY DEF SessionsInv, FailuresBounded, Effective, Admitted
  <2>3. Effective' + Cardinality(Admitted') <= LoginLimit - 1 + Cardinality(Handlers)
    BY <1>3, <2>1, <2>2, AdmittedCounted, SessionsAssumption
  <2> QED
    BY <2>3 DEF FailuresBounded, Effective, Admitted
<1> QED
  BY <1>1, <1>2, <1>4 DEF SessionsInv, Tick, HandedOutIsThere

LEMMA HandlerMoves ==
    ASSUME SessionsInv, NEW h \in Handlers, NEW r \in RequestShape, request' = [request EXCEPT ![h] = r]
    PROVE  /\ request' \in [Handlers -> RequestShape]
           /\ r.pc # "password" => Admitted' = Admitted \ {h}
BY DEF SessionsInv, Admitted

LEMMA NewSessionTable ==
    ASSUME SessionsInv, NEW previous, NEW auth \in BOOLEAN, NewSession(previous, auth)
    PROVE  IsTable(sessions') /\ cookie' \in Sids /\ cookie' \in DOMAIN sessions'
<1>1. PICK s \in Unused : /\ sessions' \in EvictInsert(Alive(Without(sessions, {previous})), s, auth)
                          /\ cookie' = s
  BY DEF NewSession
<1>2. s \in Sids /\ IsTable(Alive(Without(sessions, {previous})))
  BY WithoutTable, AliveTable DEF Unused, SessionsInv
<1> QED
  BY <1>1, <1>2, InsertTable

\* Who looks a session up, and the limit.
LEMMA LookupSessions ==
    ASSUME SessionsInv, NEW h \in Handlers, Login(h) \/ Logout(h)
    PROVE  SessionsInv' /\ HandedOutIsThere
<1>1. PICK suits \in BOOLEAN, pc \in {"limit", "logout"} : CurrentSession(h, suits, pc)
  BY DEF Login, Logout
<1>2. IsTable(sessions')
  BY <1>1, AliveTable DEF CurrentSession, SessionsInv
<1>3. PICK r : r = IF cookie \in DOMAIN sessions' /\ sessions'[cookie].auth = suits
                   THEN [pc |-> pc, sid |-> cookie] ELSE request[h]
  OBVIOUS
<1>4. request' = [request EXCEPT ![h] = r]
  <2>1. request = [request EXCEPT ![h] = request[h]]
    BY DEF SessionsInv
  <2> QED
    BY <1>1, <1>3, <2>1 DEF CurrentSession
<1>5. r \in RequestShape /\ r.pc # "password" /\ h \notin Admitted
  <2>1. request[h] = NoRequest /\ NoRequest \in RequestShape /\ NoRequest.pc = "none"
    BY <1>1 DEF CurrentSession, NoRequest, RequestShape
  <2>2. [pc |-> pc, sid |-> cookie] \in RequestShape /\ [pc |-> pc, sid |-> cookie].pc # "password"
    BY DEF SessionsInv, RequestShape
  <2> QED
    BY <1>3, <2>1, <2>2 DEF Admitted
<1>6. request' \in [Handlers -> RequestShape] /\ Admitted' = Admitted
  <2>1. Admitted \ {h} = Admitted
    BY <1>5
  <2> QED
    BY <1>4, <1>5, <2>1, HandlerMoves
<1>7. UNCHANGED <<attempts, cookie>>
  BY <1>1 DEF CurrentSession
<1> QED
  BY <1>2, <1>6, <1>7 DEF SessionsInv, FailuresBounded, HandedOutIsThere, Admitted

\* Who is let through while the limit is not reached is one of the handlers.
LEMMA LimitSessions ==
    ASSUME SessionsInv, NEW h \in Handlers, RateLimited(h)
    PROVE  SessionsInv' /\ HandedOutIsThere
<1>1. PICK r : r = IF Limited(attempts) THEN NoRequest ELSE [request[h] EXCEPT !.pc = "password"]
  OBVIOUS
<1>2. request' = [request EXCEPT ![h] = r] /\ UNCHANGED <<sessions, attempts, cookie>>
  BY <1>1 DEF RateLimited
<1>3. request[h] \in RequestShape /\ h \notin Admitted
  BY DEF SessionsInv, RateLimited, Admitted
<1>4. r \in RequestShape
  BY <1>1, <1>3 DEF RequestShape, NoRequest
<1>5. request' \in [Handlers -> RequestShape]
  BY <1>2, <1>4, HandlerMoves
<1>6. FailuresBounded'
  <2>1. CASE Limited(attempts)
    <3>1. Admitted' = Admitted
      <4>1. Admitted \ {h} = Admitted
        BY <1>3
      <4>2. r.pc = "none"
        BY <1>1, <2>1 DEF NoRequest
      <4> QED
        BY <1>2, <1>4, <4>1, <4>2, HandlerMoves
    <3> QED
      BY <1>2, <3>1 DEF SessionsInv, FailuresBounded, Admitted
  <2>2. CASE ~Limited(attempts)
    <3>1. Effective <= LoginLimit - 1 /\ Effective \in Nat /\ Effective' = Effective
      BY <1>2, <2>2, SessionsAssumption DEF Limited, Effective, SessionsInv
    <3>2. Effective' + Cardinality(Admitted') <= LoginLimit - 1 + Cardinality(Handlers)
      BY <3>1, AdmittedNext, AdmittedCounted, SessionsAssumption
    <3> QED
      BY <3>2 DEF FailuresBounded, Effective, Admitted
  <2> QED
    BY <2>1, <2>2
<1> QED
  BY <1>2, <1>5, <1>6 DEF SessionsInv, HandedOutIsThere

\* A failure is counted for a handler that was let through.
LEMMA PasswordSessions ==
    ASSUME SessionsInv, NEW h \in Handlers, RecordFailure(h) \/ ClearFailures(h)
    PROVE  SessionsInv' /\ HandedOutIsThere
<1>1. request[h] \in RequestShape /\ h \in Admitted /\ UNCHANGED <<sessions, cookie>>
  BY DEF SessionsInv, RecordFailure, ClearFailures, Admitted
<1>2. CASE RecordFailure(h)
  <2>1. NoRequest \in RequestShape /\ NoRequest.pc # "password"
    BY DEF NoRequest, RequestShape
  <2>2. request' \in [Handlers -> RequestShape] /\ Admitted' = Admitted \ {h}
    BY <1>2, <2>1, HandlerMoves DEF RecordFailure
  <2>3. Cardinality(Admitted') = Cardinality(Admitted) - 1
    BY <1>1, <2>2, FS_RemoveElement, AdmittedCounted
  <2>4. attempts' \in [age : 0..LoginWindow, failures : Nat] /\ Effective' <= Effective + 1
    BY <1>2, SessionsAssumption DEF RecordFailure, SessionsInv, Effective
  <2>5. Effective \in Nat /\ Effective' \in Nat
    BY <2>4 DEF Effective, SessionsInv
  <2>6. Effective + Cardinality(Admitted) <= LoginLimit - 1 + Cardinality(Handlers)
    BY DEF SessionsInv, FailuresBounded, Effective, Admitted
  <2>7. Effective' + Cardinality(Admitted') <= LoginLimit - 1 + Cardinality(Handlers)
    BY <2>3, <2>4, <2>5, <2>6, AdmittedCounted, SessionsAssumption
  <2> QED
    BY <1>1, <2>2, <2>4, <2>7 DEF SessionsInv, FailuresBounded, Effective, Admitted, HandedOutIsThere
<1>3. CASE ClearFailures(h)
  <2>1. PICK r : r = [request[h] EXCEPT !.pc = "sign in"]
    OBVIOUS
  <2>2. r \in RequestShape /\ request' = [request EXCEPT ![h] = r]
    BY <1>1, <1>3, <2>1 DEF RequestShape, ClearFailures
  <2>3. request' \in [Handlers -> RequestShape]
    BY <2>2, HandlerMoves
  <2>4. attempts' \in [age : 0..LoginWindow, failures : Nat] /\ Effective' = 0
    <3>1. attempts' = NoAttempts
      BY <1>3 DEF ClearFailures
    <3>2. NoAttempts \in [age : 0..LoginWindow, failures : Nat] /\ NoAttempts.failures = 0
      BY SessionsAssumption DEF NoAttempts
    <3> QED
      BY <3>1, <3>2 DEF Effective
  <2>5. Effective' + Cardinality(Admitted') <= LoginLimit - 1 + Cardinality(Handlers)
    BY <2>4, AdmittedNext, AdmittedCounted, SessionsAssumption
  <2>6. FailuresBounded'
    BY <2>5 DEF FailuresBounded, Effective, Admitted
  <2> QED
    BY <1>1, <2>3, <2>4, <2>6 DEF SessionsInv, HandedOutIsThere
<1> QED
  BY <1>2, <1>3

\* Who signs in or out.
LEMMA SignSessions ==
    ASSUME SessionsInv, NEW h \in Handlers, SignIn(h) \/ Delete(h)
    PROVE  SessionsInv' /\ HandedOutIsThere
<1>1. NoRequest \in RequestShape /\ NoRequest.pc # "password"
  BY DEF NoRequest, RequestShape
<1>2. request' = [request EXCEPT ![h] = NoRequest] /\ h \notin Admitted /\ UNCHANGED attempts
  BY DEF SignIn, Delete, Admitted
<1>3. request' \in [Handlers -> RequestShape] /\ Admitted' = Admitted
  BY <1>1, <1>2, HandlerMoves
<1>4. FailuresBounded'
  BY <1>2, <1>3 DEF SessionsInv, FailuresBounded, Admitted
<1>5. CASE SignIn(h)
  <2>1. IsTable(sessions') /\ cookie' \in Sids /\ cookie' \in DOMAIN sessions'
    BY <1>5, NewSessionTable DEF SignIn
  <2> QED
    BY <1>2, <1>3, <1>4, <2>1 DEF SessionsInv, HandedOutIsThere
<1>6. CASE Delete(h)
  <2>1. IsTable(sessions')
    BY <1>6, WithoutTable DEF Delete, SessionsInv
  <2>2. cookie' \in Sids \cup {NoSid} /\ cookie' \notin Sids
    BY <1>6, SessionsAssumption DEF Delete, NoSid
  <2> QED
    BY <1>2, <1>3, <1>4, <2>1, <2>2 DEF SessionsInv, HandedOutIsThere
<1> QED
  BY <1>5, <1>6

LEMMA SessionsStep == ASSUME SessionsInv, [Next]_vars PROVE SessionsInv' /\ [HandedOutIsThere]_sessionVars
<1>1. CASE UNCHANGED sessionVars
  BY <1>1 DEF SessionsInv, sessionVars, FailuresBounded
<1>2. CASE LoginPage
  <2>1. IsTable(sessions') /\ cookie' \in Sids /\ cookie' \in DOMAIN sessions'
    BY <1>2, NewSessionTable DEF LoginPage
  <2> QED
    BY <1>2, <2>1 DEF LoginPage, SessionsInv, FailuresBounded, HandedOutIsThere
<1>3. ASSUME NEW h \in Handlers, Login(h) \/ Logout(h) \/ Handle(h) PROVE SessionsInv' /\ HandedOutIsThere
  BY <1>3, LookupSessions, LimitSessions, PasswordSessions, SignSessions DEF Handle
<1> QED
  BY <1>1, <1>2, <1>3, TickSessions, OnePartMoves DEF SessionsNext

\* The dashboard's session table keeps its cap and its newest session, and the failures of
\* an address stay within the limit and the handlers there are, for any number of
\* handlers, sessions and ticks (server.go).
THEOREM SessionsKept == Spec => SessionsSafe
<1>1. Init => SessionsInv
  BY SessionsBegin DEF Init
<1>2. SessionsInv /\ [Next]_vars => SessionsInv' /\ [HandedOutIsThere]_sessionVars
  BY SessionsStep
<1>3. SessionsInv' => TableBounded' /\ FailuresBounded'
  BY DEF SessionsInv, IsTable, TableBounded
<1>4. SessionsInv' /\ [HandedOutIsThere]_sessionVars => [TableBounded' /\ FailuresBounded' /\ HandedOutIsThere]_sessionVars
  BY <1>3
<1> QED
  BY <1>1, <1>2, <1>4, PTL DEF Spec, SessionsSafe

-----------------------------------------------------------------------------
(* The snapshots of the dashboard. *)

\* Snapshot has the finite sets of its own.
LEMMA DashboardCounts == ASSUME NEW S PROVE Dashboard!Cardinality(S) = Cardinality(S)
BY DEF Dashboard!Cardinality, Cardinality

ShownShape == UNION {[D -> BOOLEAN] : D \in SUBSET Jobs}
BuildShape == [pc : {"none", "jobs", "rows", "each"}, pauses : SUBSET Users, todo : SUBSET Jobs, shown : ShownShape]

SnapshotShapes ==
    /\ jobs \subseteq Jobs /\ paused \subseteq Users
    /\ history \in [Jobs -> Seq(Outcomes)] /\ Cardinality(Dashboard!Polls) <= MaxPolls
    /\ conn \in Builds \cup {NoOne}
    /\ build \in [Builds -> BuildShape]

\* A job is shown as paused if its account was when the pauses were read.
ShownAsRead == \A b \in Builds : \A j \in DOMAIN build[b].shown :
    build[b].shown[j] <=> Owner[j] \in build[b].pauses

SnapshotInv == SnapshotShapes /\ ShownAsRead /\ Dashboard!RowsGetClosed

LEMMA NothingShown == Dashboard!NoBuild \in BuildShape /\ DOMAIN Dashboard!NoBuild.shown = {}
<1>1. Dashboard!Nothing \in [{} -> BOOLEAN] /\ DOMAIN Dashboard!Nothing = {}
  BY DEF Dashboard!Nothing
<1>2. Dashboard!Nothing \in ShownShape
  BY <1>1 DEF ShownShape
<1> QED
  BY <1>1, <1>2 DEF Dashboard!NoBuild, BuildShape

\* However many jobs there are, their polls that are kept are finitely many.
LEMMA PollsFinite ==
    /\ IsFiniteSet(Dashboard!Polls) /\ Cardinality(Dashboard!Polls) \in Nat
    /\ IsFiniteSet(Dashboard!Polls') /\ Cardinality(Dashboard!Polls') \in Nat
<1>1. IsFiniteSet(1..MaxPolls)
  BY PartsAssumption, FS_Interval
<1>2. IsFiniteSet(Jobs \X (1..MaxPolls))
  BY <1>1, PartsAssumption, FS_Product
<1>3. Dashboard!Polls \in SUBSET (Jobs \X (1..MaxPolls)) /\ Dashboard!Polls' \in SUBSET (Jobs \X (1..MaxPolls))
  BY DEF Dashboard!Polls
<1> QED
  BY <1>2, <1>3, FS_Subset, FS_CardinalityType

LEMMA SnapshotBegin == ASSUME Dashboard!Init PROVE SnapshotInv
<1>1. Dashboard!Polls = {}
  BY DEF Dashboard!Init, Dashboard!Polls
<1>2. SnapshotShapes
  BY <1>1, NothingShown, FS_EmptySet, PartsAssumption DEF Dashboard!Init, SnapshotShapes
<1> QED
  BY <1>2, NothingShown DEF Dashboard!Init, SnapshotInv, ShownAsRead, Dashboard!RowsGetClosed

\* What is stored is of the type, and no more polls are kept than the bound.
LEMMA RecordSnapshot ==
    ASSUME SnapshotInv, NEW j \in Jobs, NEW outcome \in Outcomes, Dashboard!RecordPoll(j, outcome)
    PROVE  SnapshotInv'
<1>1. Append(history[j], outcome) \in Seq(Outcomes) /\ Len(Append(history[j], outcome)) = Len(history[j]) + 1
  BY DEF SnapshotInv, SnapshotShapes
<1>2. history' \in [Jobs -> Seq(Outcomes)]
  BY <1>1 DEF Dashboard!RecordPoll, SnapshotInv, SnapshotShapes
<1>3. history'[j] = Append(history[j], outcome) /\ \A k \in Jobs \ {j} : history'[k] = history[k]
  BY DEF Dashboard!RecordPoll, SnapshotInv, SnapshotShapes
<1>4. PICK p : p = <<j, Len(history[j]) + 1>>
  OBVIOUS
<1>5. \A k \in Jobs : Len(history[k]) \in Nat
  BY DEF SnapshotInv, SnapshotShapes
<1>6. Dashboard!Polls' \subseteq Dashboard!Polls \cup {p}
  <2>1. ASSUME NEW k \in Jobs, NEW n \in 1..MaxPolls, n <= Len(history'[k]), ~(n <= Len(history[k]))
        PROVE  k = j /\ n = Len(history[j]) + 1
    BY <1>1, <1>3, <1>5, <2>1, PartsAssumption
  <2>2. ASSUME NEW q \in Dashboard!Polls', q \notin Dashboard!Polls PROVE q = p
    <3>1. q \in Jobs \X (1..MaxPolls) /\ q[2] <= Len(history'[q[1]]) /\ ~(q[2] <= Len(history[q[1]]))
      BY <2>2 DEF Dashboard!Polls
    <3>2. q[1] \in Jobs /\ q[2] \in 1..MaxPolls /\ q = <<q[1], q[2]>>
      BY <3>1
    <3>3. q[1] = j /\ q[2] = Len(history[j]) + 1
      BY <2>1, <3>1, <3>2
    <3> QED
      BY <1>4, <3>2, <3>3
  <2> QED
    BY <2>2
<1>7. Cardinality(Dashboard!Polls) < MaxPolls
  BY DashboardCounts DEF Dashboard!RecordPoll
<1>8. /\ IsFiniteSet(Dashboard!Polls \cup {p})
      /\ Cardinality(Dashboard!Polls \cup {p}) = IF p \in Dashboard!Polls THEN Cardinality(Dashboard!Polls)
                                                 ELSE Cardinality(Dashboard!Polls) + 1
  BY PollsFinite, FS_AddElement
<1>9. Cardinality(Dashboard!Polls') <= Cardinality(Dashboard!Polls \cup {p})
  BY <1>6, <1>8, FS_Subset
<1>10. Cardinality(Dashboard!Polls') <= MaxPolls
  BY <1>7, <1>8, <1>9, PollsFinite, PartsAssumption
<1>11. UNCHANGED <<jobs, paused, conn, build>>
  BY DEF Dashboard!RecordPoll
<1> QED
  BY <1>2, <1>10, <1>11 DEF SnapshotInv, SnapshotShapes, ShownAsRead, Dashboard!RowsGetClosed

LEMMA JobsSnapshot ==
    ASSUME SnapshotInv, NEW j \in Jobs, Dashboard!CreateJob(j) \/ Dashboard!DeleteJob(j)
    PROVE  SnapshotInv'
<1>1. UNCHANGED <<paused, conn, build>> /\ jobs' \subseteq Jobs
  BY DEF Dashboard!CreateJob, Dashboard!DeleteJob, SnapshotInv, SnapshotShapes
<1>2. history' \in [Jobs -> Seq(Outcomes)] /\ \A k \in Jobs : history'[k] \in {history[k], <<>>}
  <2>1. CASE Dashboard!CreateJob(j)
    BY <2>1 DEF Dashboard!CreateJob, SnapshotInv, SnapshotShapes
  <2>2. CASE Dashboard!DeleteJob(j)
    BY <2>2 DEF Dashboard!DeleteJob, SnapshotInv, SnapshotShapes
  <2> QED
    BY <2>1, <2>2
<1>3. Dashboard!Polls' \subseteq Dashboard!Polls
  <2>1. ASSUME NEW k \in Jobs, NEW n \in 1..MaxPolls, n <= Len(history'[k]) PROVE n <= Len(history[k])
    BY <1>2, <2>1, PartsAssumption
  <2> QED
    BY <2>1 DEF Dashboard!Polls
<1>4. Cardinality(Dashboard!Polls') <= Cardinality(Dashboard!Polls)
  BY <1>3, PollsFinite, FS_Subset
<1>5. Cardinality(Dashboard!Polls') <= MaxPolls
  BY <1>4, PollsFinite, PartsAssumption DEF SnapshotInv, SnapshotShapes
<1> QED
  BY <1>1, <1>2, <1>5 DEF SnapshotInv, SnapshotShapes, ShownAsRead, Dashboard!RowsGetClosed

\* One build goes on. It shows jobs as it read the pauses, and it is where its rows are
\* read if the connection is its own.
LEMMA OneBuilds ==
    ASSUME SnapshotInv, NEW b \in Builds, NEW n \in BuildShape,
           build' = [build EXCEPT ![b] = n], UNCHANGED <<jobs, paused, history>>,
           \A j \in DOMAIN n.shown : n.shown[j] <=> Owner[j] \in n.pauses,
           \/ conn' = NoOne
           \/ conn' = b /\ n.pc = "rows"
           \/ conn' = conn /\ conn # b
    PROVE  SnapshotInv'
<1>1. build'[b] = n /\ \A c \in Builds \ {b} : build'[c] = build[c]
  BY DEF SnapshotInv, SnapshotShapes
<1>2. SnapshotShapes'
  BY DEF SnapshotInv, SnapshotShapes, Dashboard!Polls
<1>3. ShownAsRead'
  BY <1>1 DEF SnapshotInv, ShownAsRead
<1>4. Dashboard!RowsGetClosed'
  BY <1>1 DEF SnapshotInv, SnapshotShapes, Dashboard!RowsGetClosed
<1> QED
  BY <1>2, <1>3, <1>4 DEF SnapshotInv

LEMMA BuildsSnapshot ==
    ASSUME SnapshotInv, NEW b \in Builds, Dashboard!QueryPauses(b) \/ Dashboard!GoOn(b)
    PROVE  SnapshotInv'
<1>1. build[b] \in BuildShape /\ b # NoOne /\ UNCHANGED <<jobs, paused, history>>
  BY PartsAssumption
  DEF SnapshotInv, SnapshotShapes, Dashboard!QueryPauses, Dashboard!GoOn, Dashboard!OpenJobRows,
      Dashboard!CloseJobRows, Dashboard!ShowJob, Dashboard!Reply
<1>2. \A j \in DOMAIN build[b].shown : build[b].shown[j] <=> Owner[j] \in build[b].pauses
  BY DEF SnapshotInv, ShownAsRead
<1>3. CASE Dashboard!QueryPauses(b)
  <2>1. PICK n : n = [Dashboard!NoBuild EXCEPT !.pc = "jobs", !.pauses = paused]
    OBVIOUS
  <2>2. n \in BuildShape /\ DOMAIN n.shown = {}
    BY <2>1, NothingShown DEF BuildShape, SnapshotInv, SnapshotShapes
  <2>3. build' = [build EXCEPT ![b] = n] /\ conn' = NoOne
    BY <1>3, <2>1 DEF Dashboard!QueryPauses, Dashboard!Free
  <2> QED
    BY <1>1, <2>2, <2>3, OneBuilds
<1>4. CASE Dashboard!OpenJobRows(b)
  <2>1. PICK n : n = [build[b] EXCEPT !.pc = "rows", !.todo = jobs]
    OBVIOUS
  <2>2. n \in BuildShape /\ n.shown = build[b].shown /\ n.pauses = build[b].pauses /\ n.pc = "rows"
    BY <1>1, <2>1 DEF BuildShape, SnapshotInv, SnapshotShapes
  <2>3. build' = [build EXCEPT ![b] = n] /\ conn' = b
    BY <1>4, <2>1 DEF Dashboard!OpenJobRows, SnapshotInv, SnapshotShapes
  <2> QED
    BY <1>1, <1>2, <2>2, <2>3, OneBuilds
<1>5. CASE Dashboard!CloseJobRows(b)
  <2>1. PICK n : n = [build[b] EXCEPT !.pc = "each"]
    OBVIOUS
  <2>2. n \in BuildShape /\ n.shown = build[b].shown /\ n.pauses = build[b].pauses
    BY <1>1, <2>1 DEF BuildShape
  <2>3. build' = [build EXCEPT ![b] = n] /\ conn' = NoOne
    BY <1>5, <2>1 DEF Dashboard!CloseJobRows, Dashboard!Closed
  <2> QED
    BY <1>1, <1>2, <2>2, <2>3, OneBuilds
<1>6. CASE Dashboard!ShowJob(b)
  <2>1. PICK j \in build[b].todo : build' = [build EXCEPT ![b].todo = @ \ {j},
                                     ![b].shown = [k \in DOMAIN @ \cup {j} |->
                                         IF k = j THEN Dashboard!PausedAsRead(b, j) ELSE @[k]]]
    BY <1>6 DEF Dashboard!ShowJob
  <2>2. PICK shown : shown = [k \in DOMAIN build[b].shown \cup {j} |->
                                  IF k = j THEN Dashboard!PausedAsRead(b, j) ELSE build[b].shown[k]]
    OBVIOUS
  <2>3. shown \in ShownShape
    <3>1. j \in Jobs /\ build[b].shown \in ShownShape
      BY <1>1 DEF BuildShape
    <3>2. PICK D \in SUBSET Jobs : build[b].shown \in [D -> BOOLEAN]
      BY <3>1 DEF ShownShape
    <3>3. DOMAIN build[b].shown = D /\ \A k \in D : build[b].shown[k] \in BOOLEAN
      BY <3>2
    <3>4. Dashboard!PausedAsRead(b, j) \in BOOLEAN
      BY DEF Dashboard!PausedAsRead
    <3>5. shown \in [D \cup {j} -> BOOLEAN]
      BY <2>2, <3>3, <3>4
    <3> QED
      BY <3>1, <3>5 DEF ShownShape
  <2>4. \A k \in DOMAIN shown : shown[k] <=> Owner[k] \in build[b].pauses
    BY <1>2, <2>2 DEF Dashboard!PausedAsRead
  <2>5. PICK n : n = [build[b] EXCEPT !.todo = build[b].todo \ {j}, !.shown = shown]
    OBVIOUS
  <2>6. n \in BuildShape /\ n.shown = shown /\ n.pauses = build[b].pauses
    BY <1>1, <2>3, <2>5 DEF BuildShape
  <2>7. build' = [build EXCEPT ![b] = n]
    BY <2>1, <2>2, <2>5 DEF SnapshotInv, SnapshotShapes
  <2>8. conn' = NoOne
    BY <1>6 DEF Dashboard!ShowJob, Dashboard!Free
  <2> QED
    BY <1>1, <2>4, <2>6, <2>7, <2>8, OneBuilds
<1>7. CASE Dashboard!Reply(b)
  <2>1. build' = [build EXCEPT ![b] = Dashboard!NoBuild] /\ conn' = conn
    BY <1>7 DEF Dashboard!Reply
  <2>2. conn # b
    BY <1>1, <1>7 DEF Dashboard!Reply, SnapshotInv, Dashboard!RowsGetClosed
  <2> QED
    BY <1>1, <2>1, <2>2, NothingShown, OneBuilds
<1> QED
  BY <1>3, <1>4, <1>5, <1>6, <1>7 DEF Dashboard!GoOn

LEMMA SnapshotStep == ASSUME SnapshotInv, [Next]_vars PROVE SnapshotInv'
<1>1. CASE UNCHANGED snapshotVars
  BY <1>1 DEF snapshotVars, SnapshotInv, SnapshotShapes, ShownAsRead, Dashboard!RowsGetClosed, Dashboard!Polls
<1>2. ASSUME NEW u \in Users, Dashboard!PauseOrResume(u) PROVE SnapshotInv'
  BY <1>2 DEF Dashboard!PauseOrResume, SnapshotInv, SnapshotShapes, ShownAsRead, Dashboard!RowsGetClosed, Dashboard!Polls
<1> QED
  BY <1>1, <1>2, RecordSnapshot, JobsSnapshot, BuildsSnapshot, OnePartMoves DEF Dashboard!Next

-----------------------------------------------------------------------------

\* Of one history: what the deduplication keeps are the newest changes of the last RawLimit
\* polls, and besides them the oldest of these polls at most (loadHistory, snapshot.go).
LEMMA NewestShown ==
    ASSUME NEW h \in Seq(Outcomes), NEW recent,
           recent = {p \in Dashboard!Changes(h) : p > Len(h) - RawLimit}
    PROVE  /\ \A p \in Dashboard!DedupeHistory(h) : p \in recent \/ p = Len(h) - RawLimit + 1
           /\ \A p \in recent : \/ p \in Dashboard!DedupeHistory(h)
                                \/ Cardinality(Dashboard!Newer(recent, p)) >= HistoryDisplayLimit
<1>1. DOMAIN h = 1..Len(h) /\ Len(h) \in Nat /\ RawLimit \in Nat /\ HistoryDisplayLimit \in Nat
  BY PartsAssumption
<1>2. Dashboard!Raw(h) = {p \in 1..Len(h) : p > Len(h) - RawLimit}
  BY <1>1 DEF Dashboard!Raw
<1>3. \A p \in Dashboard!RealInRaw(h) : p \in recent \/ p = Len(h) - RawLimit + 1
  <2> SUFFICES ASSUME NEW p \in Dashboard!RealInRaw(h), p # Len(h) - RawLimit + 1 PROVE p \in recent
    OBVIOUS
  <2>1. p \in 1..Len(h) /\ p > Len(h) - RawLimit
    BY <1>2 DEF Dashboard!RealInRaw
  <2>2. p > 1 => p - 1 \in Dashboard!Raw(h)
    BY <1>1, <1>2, <2>1
  <2>3. p > 1 => h[p] # h[p - 1]
    BY <2>2 DEF Dashboard!RealInRaw
  <2> QED
    BY <1>1, <2>1, <2>3 DEF Dashboard!Changes
<1>4. recent \subseteq Dashboard!RealInRaw(h)
  <2> SUFFICES ASSUME NEW p \in recent PROVE p \in Dashboard!RealInRaw(h)
    OBVIOUS
  <2>1. p \in 1..Len(h) /\ p > Len(h) - RawLimit /\ (p > 1 => h[p] # h[p - 1])
    BY <1>1 DEF Dashboard!Changes
  <2>2. p - 1 \in Dashboard!Raw(h) => p > 1
    BY <1>1, <1>2, <2>1
  <2> QED
    BY <1>2, <2>1, <2>2 DEF Dashboard!RealInRaw
<1>5. ASSUME NEW p \in recent PROVE Dashboard!Newer(Dashboard!RealInRaw(h), p) = Dashboard!Newer(recent, p)
  <2>1. p \in 1..Len(h) /\ p > Len(h) - RawLimit
    BY <1>1 DEF Dashboard!Changes
  <2>2. \A q \in Dashboard!RealInRaw(h) : q \in Int
    BY <1>1, <1>2 DEF Dashboard!RealInRaw
  <2>3. \A q \in Dashboard!RealInRaw(h) : q > p => q \in recent
    BY <1>1, <1>3, <2>1, <2>2
  <2> QED
    BY <1>4, <2>3 DEF Dashboard!Newer
<1>6. ASSUME NEW p \in recent PROVE Cardinality(Dashboard!Newer(recent, p)) \in Nat
  <2>1. Dashboard!Newer(recent, p) \in SUBSET (1..Len(h))
    BY <1>1 DEF Dashboard!Changes, Dashboard!Newer
  <2>2. IsFiniteSet(1..Len(h))
    BY <1>1, FS_Interval
  <2> QED
    BY <2>1, <2>2, FS_Subset, FS_CardinalityType
<1>7. \A p \in Dashboard!DedupeHistory(h) : p \in recent \/ p = Len(h) - RawLimit + 1
  BY <1>3 DEF Dashboard!DedupeHistory
<1>8. ASSUME NEW p \in recent, ~(Cardinality(Dashboard!Newer(recent, p)) >= HistoryDisplayLimit)
      PROVE  p \in Dashboard!DedupeHistory(h)
  <2>1. Dashboard!Newer(Dashboard!RealInRaw(h), p) = Dashboard!Newer(recent, p)
    BY <1>5
  <2>2. Cardinality(Dashboard!Newer(recent, p)) \in Nat
    BY <1>6
  <2>3. Cardinality(Dashboard!Newer(recent, p)) < HistoryDisplayLimit
    BY <1>1, <1>8, <2>2
  <2>4. p \in Dashboard!RealInRaw(h) /\ Cardinality(Dashboard!Newer(Dashboard!RealInRaw(h), p)) < HistoryDisplayLimit
    BY <1>4, <2>1, <2>3
  <2> QED
    BY <2>4, DashboardCounts DEF Dashboard!DedupeHistory
<1> QED
  BY <1>7, <1>8

\* A snapshot agrees with itself although accounts are paused and resumed while it is built,
\* its history shows the newest changes, and no build waits for a connection it holds, for
\* any number of builds, jobs, polls and limits (snapshot.go).
THEOREM SnapshotKept == Spec => []SnapshotSafe
<1>1. Init => SnapshotInv
  BY SnapshotBegin DEF Init
<1>2. SnapshotInv /\ [Next]_vars => SnapshotInv'
  BY SnapshotStep
<1>3. SnapshotInv => SnapshotSafe
  <2> SUFFICES ASSUME SnapshotInv PROVE Dashboard!AccountsAgree /\ Dashboard!NewestChangesShown
    BY DEF SnapshotInv, SnapshotSafe, Dashboard!SnapshotSafe
  <2>1. Dashboard!AccountsAgree
    <3> SUFFICES ASSUME NEW b \in Builds, NEW j \in DOMAIN build[b].shown, NEW k \in DOMAIN build[b].shown
                 PROVE  /\ Owner[j] = Owner[k] => build[b].shown[j] = build[b].shown[k]
                        /\ build[b].shown[j] => Owner[j] \in build[b].pauses
      BY DEF Dashboard!AccountsAgree
    <3>1. (build[b].shown[j] <=> Owner[j] \in build[b].pauses) /\ (build[b].shown[k] <=> Owner[k] \in build[b].pauses)
      BY DEF SnapshotInv, ShownAsRead
    <3>2. build[b].shown[j] \in BOOLEAN /\ build[b].shown[k] \in BOOLEAN
      <4>1. build[b].shown \in ShownShape
        BY DEF SnapshotInv, SnapshotShapes, BuildShape
      <4> QED
        BY <4>1 DEF ShownShape
    <3> QED
      BY <3>1, <3>2
  <2>2. Dashboard!NewestChangesShown
    <3>1. \A j \in Jobs : history[j] \in Seq(Outcomes)
      BY DEF SnapshotInv, SnapshotShapes
    <3>2. ASSUME NEW j \in Jobs, NEW recent,
                 recent = {p \in Dashboard!Changes(history[j]) : p > Len(history[j]) - RawLimit}
          PROVE  /\ \A p \in Dashboard!DedupeHistory(history[j]) :
                        p \in recent \/ p = Len(history[j]) - RawLimit + 1
                 /\ \A p \in recent : \/ p \in Dashboard!DedupeHistory(history[j])
                                      \/ Cardinality(Dashboard!Newer(recent, p)) >= HistoryDisplayLimit
      BY <3>1, <3>2, NewestShown
    <3> QED
      BY <3>2, DashboardCounts DEF Dashboard!NewestChangesShown
  <2> QED
    BY <2>1, <2>2
<1> QED
  BY <1>1, <1>2, <1>3, PTL DEF Spec

-----------------------------------------------------------------------------
(* The sign-in at Microsoft: what EntraLogin_proofs proves. *)

MicrosoftP == INSTANCE EntraLogin_proofs

\* Its definitions are those of the module under another name.
LEMMA SameInit == MicrosoftP!Init <=> Microsoft!Init
BY DEF MicrosoftP!Init, MicrosoftP!InteractionInit, MicrosoftP!NoPress, MicrosoftP!Grants,
       Microsoft!Init, Microsoft!InteractionInit, Microsoft!NoPress, Microsoft!Grants

LEMMA SamePress ==
    ASSUME NEW i
    PROVE  /\ MicrosoftP!Iniciar(i) <=> Microsoft!Iniciar(i)
           /\ MicrosoftP!ReturnPending(i) <=> Microsoft!ReturnPending(i)
           /\ MicrosoftP!NonePending(i) <=> Microsoft!NonePending(i)
           /\ MicrosoftP!StartFails(i) <=> Microsoft!StartFails(i)
           /\ MicrosoftP!Start(i) <=> Microsoft!Start(i)
           /\ MicrosoftP!Install(i) <=> Microsoft!Install(i)
BY DEF MicrosoftP!Iniciar, MicrosoftP!ReturnPending, MicrosoftP!NonePending, MicrosoftP!StartFails,
       MicrosoftP!Start, MicrosoftP!Install, MicrosoftP!Pending, MicrosoftP!CancelPrevious,
       MicrosoftP!NoPress, MicrosoftP!Grants, MicrosoftP!Receive, MicrosoftP!Finish, MicrosoftP!interactionVars,
       Microsoft!Iniciar, Microsoft!ReturnPending, Microsoft!NonePending, Microsoft!StartFails,
       Microsoft!Start, Microsoft!Install, Microsoft!Pending, Microsoft!CancelPrevious,
       Microsoft!NoPress, Microsoft!Grants, Microsoft!Receive, Microsoft!Finish, Microsoft!interactionVars

LEMMA SamePipeline ==
    ASSUME NEW i
    PROVE  (MicrosoftP!Pipeline(i) /\ UNCHANGED MicrosoftP!loginVars) <=>
           (Microsoft!Pipeline(i) /\ UNCHANGED Microsoft!loginVars)
BY DEF MicrosoftP!Pipeline, MicrosoftP!Send, MicrosoftP!HasRoom, MicrosoftP!TakeResult,
       MicrosoftP!TakeDeadline, MicrosoftP!RaceEnds, MicrosoftP!RaceOver, MicrosoftP!Respond, MicrosoftP!Responded,
       MicrosoftP!loginVars,
       Microsoft!Pipeline, Microsoft!Send, Microsoft!HasRoom, Microsoft!TakeResult,
       Microsoft!TakeDeadline, Microsoft!RaceEnds, Microsoft!RaceOver, Microsoft!Respond, Microsoft!Responded,
       Microsoft!loginVars

LEMMA SamePoll ==
    ASSUME NEW g
    PROVE  /\ MicrosoftP!Granted(g) <=> Microsoft!Granted(g)
           /\ MicrosoftP!Declined(g) <=> Microsoft!Declined(g)
           /\ MicrosoftP!GiveUp(g) <=> Microsoft!GiveUp(g)
           /\ MicrosoftP!Adopt(g) <=> Microsoft!Adopt(g)
           /\ MicrosoftP!Replaced(g) <=> Microsoft!Replaced(g)
           /\ MicrosoftP!End(g) <=> Microsoft!End(g)
           /\ MicrosoftP!OnFinish(g) <=> Microsoft!OnFinish(g)
           /\ MicrosoftP!Expire(g) <=> Microsoft!Expire(g)
BY DEF MicrosoftP!Granted, MicrosoftP!Declined, MicrosoftP!GiveUp, MicrosoftP!GivesUp, MicrosoftP!Adopt,
       MicrosoftP!Replaced, MicrosoftP!End, MicrosoftP!OnFinish, MicrosoftP!Expire, MicrosoftP!Over,
       MicrosoftP!interactionVars,
       Microsoft!Granted, Microsoft!Declined, Microsoft!GiveUp, Microsoft!GivesUp, Microsoft!Adopt,
       Microsoft!Replaced, Microsoft!End, Microsoft!OnFinish, Microsoft!Expire, Microsoft!Over,
       Microsoft!interactionVars

LEMMA SameMicrosoftStep == ASSUME [Next]_vars PROVE [MicrosoftP!Next]_(MicrosoftP!vars)
<1>1. CASE UNCHANGED microsoftVars
  BY <1>1 DEF microsoftVars, MicrosoftP!vars, MicrosoftP!interactionVars, MicrosoftP!loginVars
<1>2. CASE Microsoft!Next
  <2>1. MicrosoftP!Grants = Microsoft!Grants
    BY DEF MicrosoftP!Grants, Microsoft!Grants
  <2>2. ASSUME NEW i \in Interactions,
               Microsoft!Iniciar(i) \/ Microsoft!Press(i) \/ (Microsoft!Pipeline(i) /\ UNCHANGED Microsoft!loginVars)
        PROVE  MicrosoftP!Next
    BY <2>2, SamePress, SamePipeline DEF Microsoft!Press, MicrosoftP!Press, MicrosoftP!Next
  <2>3. ASSUME NEW g \in Microsoft!Grants, Microsoft!Poll(g) \/ Microsoft!Expire(g) PROVE MicrosoftP!Next
    BY <2>1, <2>3, SamePoll DEF Microsoft!Poll, MicrosoftP!Poll, MicrosoftP!Next
  <2> QED
    BY <1>2, <2>2, <2>3 DEF Microsoft!Next
<1> QED
  BY <1>1, <1>2, OnePartMoves

LEMMA MicrosoftSteps == Spec => MicrosoftP!Spec
<1>1. Init => MicrosoftP!Init
  BY SameInit DEF Init
<1>2. [Next]_vars => [MicrosoftP!Next]_(MicrosoftP!vars)
  BY SameMicrosoftStep
<1> QED
  BY <1>1, <1>2, PTL DEF Spec, MicrosoftP!Spec

LEMMA GrantsCounted == MaxGrants \in Nat
BY PartsAssumption

\* One code at a time is live and it is the one on show, in the process and for any number
\* of presses and codes (login.go).
THEOREM SignInKept == Spec => []CodesSafe
<1>1. Spec => []MicrosoftP!CodesSafe
  BY MicrosoftSteps, GrantsCounted, MicrosoftP!CodesKept
<1>2. MicrosoftP!CodesSafe => CodesSafe
  <2>1. MicrosoftP!Grants = Microsoft!Grants
    BY DEF MicrosoftP!Grants, Microsoft!Grants
  <2>2. ASSUME NEW S PROVE MicrosoftP!Cardinality(S) = Microsoft!Cardinality(S)
    BY DEF MicrosoftP!Cardinality, Microsoft!Cardinality
  <2>3. MicrosoftP!OneLiveCode <=> Microsoft!OneLiveCode
    BY <2>1, <2>2 DEF MicrosoftP!OneLiveCode, Microsoft!OneLiveCode
  <2>4. MicrosoftP!PendingIsLive <=> Microsoft!PendingIsLive
    BY DEF MicrosoftP!PendingIsLive, Microsoft!PendingIsLive, MicrosoftP!Asking, Microsoft!Asking
  <2> QED
    BY <2>3, <2>4 DEF MicrosoftP!CodesSafe, Microsoft!CodesSafe, CodesSafe
<1> QED
  BY <1>1, <1>2, PTL

LEMMA SignInTyped == Spec => []Microsoft!TypeOK
<1>1. Spec => []MicrosoftP!TypeOK
  BY MicrosoftSteps, GrantsCounted, MicrosoftP!TypeCorrect
<1>2. MicrosoftP!TypeOK => Microsoft!TypeOK
  BY DEF MicrosoftP!TypeOK, Microsoft!TypeOK, MicrosoftP!InteractionTypeOK, Microsoft!InteractionTypeOK,
         MicrosoftP!Grants, Microsoft!Grants, MicrosoftP!PollPcs, Microsoft!PollPcs
<1> QED
  BY <1>1, <1>2, PTL

-----------------------------------------------------------------------------
(* A check at the portal. *)

CheckPcs == {"start", "search", "catalog", "submit", "verify", "portal", "password", "chain", "anonymous",
             "enrolled", "relinked", "done"}
CheckCodes == {"none", "found", "no_vacancies", "search_failed", "rate_limited", "invalid_credentials",
               "stale_start_url", "inscripciones_cerradas"}
CheckShape == [pc : CheckPcs, link : {"none", "stale", "fresh"}, code : CheckCodes,
               why : {"none", "parse", "stale"}, result : Uade!Results, hops : 0..Uade!maxMicrosoftHops]

PortalShapes ==
    /\ term \in {"open", "closed"} /\ turns \in 0..MaxTurns /\ login \in {"good", "bad", "challenge"}
    /\ check \in CheckShape /\ page \in Uade!MicrosoftPages /\ answer \in Uade!SearchAnswers

\* Nothing is said before the end, whoever is logged in has a good password, and a page
\* that rejects one is of a bad one.
PortalInv ==
    /\ PortalShapes
    /\ check.code # "none" => check.pc = "done"
    /\ check.pc = "enrolled" => login = "good"
    /\ page.code = "rejected" => login = "bad"
    /\ Uade!NoFalseEmpty

LEMMA NoPageShape == Uade!NoPage \in Uade!MicrosoftPages /\ Uade!NoPage.code = "none"
BY DEF Uade!NoPage, Uade!MicrosoftPages

\* What the answers that may be served have in common: only a delta is laid over what is
\* left in a page.
LEMMA AnswerOver ==
    ASSUME NEW a \in Uade!SearchAnswers
    PROVE  /\ a.kind \in {"page", "delta", "error"} /\ a.of \in {"asked", "other"} /\ a.table \in BOOLEAN
           /\ a.kind # "delta" => a.left = Uade!NoLeftovers
<1>1. CASE a = Uade!NoAnswer
  BY <1>1 DEF Uade!NoAnswer
<1>2. CASE a # Uade!NoAnswer
  BY <1>2 DEF Uade!SearchAnswers
<1> QED
  BY <1>1, <1>2

LEMMA PortalBegin == ASSUME Uade!Init \/ Uade!Idle PROVE PortalInv
<1>1. Uade!NoAnswer \in Uade!SearchAnswers
  BY DEF Uade!SearchAnswers
<1>2. check \in CheckShape /\ check.code = "none" /\ check.pc \in {"start", "done"}
  BY DEF Uade!Init, Uade!Idle, CheckShape, CheckPcs, CheckCodes, Uade!Results, Uade!maxMicrosoftHops
<1> QED
  BY <1>1, <1>2, NoPageShape, PartsAssumption DEF Uade!Init, Uade!Idle, PortalInv, PortalShapes, Uade!NoFalseEmpty

\* The check goes on and says nothing yet, with any page and answer that may be served.
LEMMA GoesOn ==
    ASSUME PortalInv, UNCHANGED <<term, turns, login>>,
           check' \in CheckShape, check'.code = "none", check'.pc = "enrolled" => login = "good",
           page' \in Uade!MicrosoftPages, page'.code = "rejected" => login = "bad",
           answer' \in Uade!SearchAnswers
    PROVE  PortalInv'
BY DEF PortalInv, PortalShapes, Uade!NoFalseEmpty

\* Nothing was said while the check is under way, and its goto changes no more.
LEMMA Gotos ==
    ASSUME PortalInv, check.pc # "done"
    PROVE  /\ check \in CheckShape /\ check.code = "none"
           /\ \A pc \in CheckPcs : Uade!Goto(pc) => check' \in CheckShape /\ check'.code = "none" /\ check'.pc = pc
           /\ \A why \in {"parse", "stale"} : Uade!RelinkFor(why) =>
                  check' \in CheckShape /\ check'.code = "none" /\ check'.pc = "portal"
           /\ \A result \in Uade!Results : Uade!RelinkIs(result) =>
                  check' \in CheckShape /\ check'.code = "none" /\ check'.pc = "relinked" /\ check'.result = result
           /\ \A code \in CheckCodes : Uade!Outcome(code) =>
                  check' \in CheckShape /\ check'.code = code /\ check'.pc = "done"
<1>1. check \in CheckShape /\ check.code = "none"
  BY DEF PortalInv, PortalShapes
<1>2. ASSUME NEW pc \in CheckPcs, Uade!Goto(pc) PROVE check' \in CheckShape /\ check'.code = "none" /\ check'.pc = pc
  BY <1>1, <1>2 DEF Uade!Goto, CheckShape
<1>3. ASSUME NEW why \in {"parse", "stale"}, Uade!RelinkFor(why)
      PROVE  check' \in CheckShape /\ check'.code = "none" /\ check'.pc = "portal"
  <2>1. "portal" \in CheckPcs /\ "none" \in Uade!Results
    BY DEF CheckPcs, Uade!Results
  <2> QED
    BY <1>1, <1>3, <2>1 DEF Uade!RelinkFor, CheckShape
<1>4. ASSUME NEW result \in Uade!Results, Uade!RelinkIs(result)
      PROVE  check' \in CheckShape /\ check'.code = "none" /\ check'.pc = "relinked" /\ check'.result = result
  <2>1. "relinked" \in CheckPcs /\ 0 \in 0..Uade!maxMicrosoftHops
    BY DEF CheckPcs, Uade!maxMicrosoftHops
  <2> QED
    BY <1>1, <1>4, <2>1 DEF Uade!RelinkIs, CheckShape
<1>5. ASSUME NEW code \in CheckCodes, Uade!Outcome(code)
      PROVE  check' \in CheckShape /\ check'.code = code /\ check'.pc = "done"
  <2>1. "done" \in CheckPcs
    BY DEF CheckPcs
  <2> QED
    BY <1>1, <1>5, <2>1 DEF Uade!Outcome, CheckShape
<1> QED
  BY <1>1, <1>2, <1>3, <1>4, <1>5

\* The check says something, other than what it found.
LEMMA SaysOutcome ==
    ASSUME PortalInv, check.pc # "done", NEW code \in CheckCodes \ {"found", "no_vacancies"}, Uade!Outcome(code),
           UNCHANGED <<term, turns, login, page, answer>>
    PROVE  PortalInv'
<1>1. check' \in CheckShape /\ check'.code = code /\ check'.pc = "done"
  BY Gotos
<1> QED
  BY <1>1 DEF PortalInv, PortalShapes, Uade!NoFalseEmpty

LEMMA SearchPortal ==
    ASSUME PortalInv, Uade!Start \/ Uade!FetchForm \/ Uade!FetchCatalog \/ Uade!Submit \/ Uade!SearchFails
    PROVE  PortalInv' /\ Uade!AnswersAsAssumed
<1>1. check.pc # "done" /\ UNCHANGED <<term, turns, login, page>>
  BY DEF Uade!Start, Uade!FetchForm, Uade!FetchCatalog, Uade!Submit, Uade!SearchFails
<1>2. page \in Uade!MicrosoftPages /\ (page.code = "rejected" => login = "bad") /\ answer \in Uade!SearchAnswers
  BY DEF PortalInv, PortalShapes
<1>3. ASSUME NEW pc \in {"search", "catalog", "submit", "verify"}, Uade!Goto(pc), answer' \in Uade!SearchAnswers
      PROVE  PortalInv' /\ Uade!AnswersAsAssumed
  <2>1. pc \in CheckPcs
    BY DEF CheckPcs
  <2>2. check' \in CheckShape /\ check'.code = "none" /\ check'.pc = pc
    BY <1>1, <1>3, <2>1, Gotos
  <2> QED
    BY <1>1, <1>2, <1>3, <2>2, GoesOn DEF Uade!AnswersAsAssumed
<1>4. ASSUME NEW why \in {"parse", "stale"}, Uade!RelinkFor(why), answer' = answer
      PROVE  PortalInv' /\ Uade!AnswersAsAssumed
  <2>1. check' \in CheckShape /\ check'.code = "none" /\ check'.pc = "portal"
    BY <1>1, <1>4, Gotos
  <2> QED
    BY <1>1, <1>2, <1>4, <2>1, GoesOn DEF Uade!AnswersAsAssumed
<1>5. CASE Uade!SearchFails
  <2>1. PICK code \in {"search_failed", "invalid_credentials", "rate_limited"} : Uade!Outcome(code)
    BY <1>5 DEF Uade!SearchFails
  <2>2. code \in CheckCodes \ {"found", "no_vacancies"}
    BY DEF CheckCodes
  <2>3. answer' = answer
    BY <1>5 DEF Uade!SearchFails
  <2>4. check'.pc = "done"
    BY <1>1, <2>1, <2>2, Gotos
  <2> QED
    BY <1>1, <2>1, <2>2, <2>3, <2>4, SaysOutcome DEF Uade!AnswersAsAssumed
<1> QED
  BY <1>2, <1>3, <1>4, <1>5 DEF Uade!Start, Uade!FetchForm, Uade!FetchCatalog, Uade!Submit

\* What is found, and that nothing is, is read in an answer to this search, with the two
\* exceptions.
LEMMA VerifyPortal == ASSUME PortalInv, Uade!Verify PROVE PortalInv' /\ Uade!AnswersAsAssumed
<1>1. check.pc # "done" /\ UNCHANGED <<term, turns, login, page, answer>>
  BY DEF Uade!Verify
<1>2. PICK code : /\ Uade!Outcome(code)
                  /\ code = IF Uade!Reflected(answer) /\ Uade!Parses(answer) THEN Uade!Classify(answer) ELSE "search_failed"
  BY DEF Uade!Verify
<1>3. code \in CheckCodes
  BY <1>2 DEF Uade!Classify, CheckCodes
<1>4. check' \in CheckShape /\ check'.code = code /\ check'.pc = "done"
  BY <1>1, <1>2, <1>3, Gotos
<1>5. Uade!NoFalseEmpty'
  <2> SUFFICES ASSUME code \in {"found", "no_vacancies"}
               PROVE  /\ answer.of = "asked" \/ Uade!AnotherSearch(answer)
                      /\ answer.table \/ Uade!LeftBehind(answer)
                      /\ code = "found" => (\E row \in answer.rows : row.suits) \/ Uade!LeftBehind(answer)
                      /\ code = "no_vacancies" => \A row \in answer.rows : ~row.suits
    BY <1>1, <1>4 DEF Uade!NoFalseEmpty, Uade!LeftBehind, Uade!AnotherSearch
  <2>1. Uade!Reflected(answer) /\ Uade!Parses(answer) /\ code = Uade!Classify(answer)
    BY <1>2
  <2>2. answer.of = "asked" \/ Uade!AnotherSearch(answer)
    BY <2>1, AnswerOver DEF PortalInv, PortalShapes, Uade!Reflected, Uade!AnotherSearch
  <2>3. answer.left = Uade!NoLeftovers \/ Uade!LeftBehind(answer)
    BY AnswerOver DEF PortalInv, PortalShapes, Uade!LeftBehind
  <2>4. answer.left = Uade!NoLeftovers => Uade!Tables(answer) = answer.table /\ Uade!Shown(answer) = answer.rows
    BY AnswerOver DEF PortalInv, PortalShapes, Uade!NoLeftovers, Uade!Tables, Uade!Shown
  <2>5. answer.table \/ Uade!LeftBehind(answer)
    BY <2>1, <2>3, <2>4 DEF Uade!Parses
  <2>6. CASE code = "found"
    <3>1. \E row \in Uade!Shown(answer) : row.suits
      BY <2>1, <2>6 DEF Uade!Classify
    <3> QED
      BY <2>2, <2>3, <2>4, <2>5, <2>6, <3>1
  <2>7. CASE code = "no_vacancies"
    <3>1. \A row \in answer.rows : ~row.suits
      BY <2>1, <2>7 DEF Uade!Classify, Uade!Parses, Uade!Shown
    <3> QED
      BY <2>2, <2>5, <2>7, <3>1
  <2> QED
    BY <2>6, <2>7
<1> QED
  BY <1>1, <1>4, <1>5 DEF PortalInv, PortalShapes, Uade!AnswersAsAssumed

\* Microsoft lets the browser through, or serves what suits the login.
LEMMA LetThroughPortal ==
    ASSUME PortalInv, check.pc # "done", NEW next \in CheckShape, next.code = "none", Uade!LetThrough(next),
           UNCHANGED <<term, turns, login, answer>>
    PROVE  PortalInv' /\ Uade!AnswersAsAssumed
<1>1. "enrolled" \in CheckPcs /\ "chain" \in CheckPcs
  BY DEF CheckPcs
<1>2. check' \in CheckShape /\ check'.code = "none" /\ check'.pc \in {"enrolled", "chain"}
      /\ (check'.pc = "enrolled" => login = "good")
  BY <1>1 DEF Uade!LetThrough, CheckShape
<1>3. page' \in Uade!MicrosoftPages /\ (page'.code = "rejected" => login = "bad")
  BY NoPageShape DEF Uade!LetThrough, Uade!Served
<1>4. answer' \in Uade!SearchAnswers
  BY DEF PortalInv, PortalShapes
<1>5. PortalInv'
  BY <1>2, <1>3, <1>4, GoesOn
<1> QED
  BY <1>2, <1>5 DEF Uade!AnswersAsAssumed

LEMMA MicrosoftPortal ==
    ASSUME PortalInv, Uade!FollowTrigger \/ Uade!SubmitPassword \/ Uade!Continue
    PROVE  PortalInv' /\ Uade!AnswersAsAssumed
<1>1. check.pc # "done" /\ UNCHANGED <<term, turns, login, answer>>
  BY DEF Uade!FollowTrigger, Uade!SubmitPassword, Uade!Continue
<1>2. check \in CheckShape /\ check.code = "none"
  BY <1>1, Gotos
<1>3. CASE Uade!FollowTrigger
  <2>1. page' \in Uade!MicrosoftPages /\ (page'.code = "rejected" => login = "bad")
    BY <1>3 DEF Uade!FollowTrigger, PortalInv, PortalShapes
  <2>2. \E pc \in {"password", "anonymous"} : Uade!Goto(pc)
    BY <1>3 DEF Uade!FollowTrigger
  <2>3. {"password", "anonymous"} \subseteq CheckPcs
    BY DEF CheckPcs
  <2>4. check' \in CheckShape /\ check'.code = "none" /\ check'.pc \in {"password", "anonymous"}
    BY <1>1, <2>2, <2>3, Gotos
  <2>5. answer' \in Uade!SearchAnswers
    BY <1>1 DEF PortalInv, PortalShapes
  <2>6. PortalInv'
    BY <1>1, <2>1, <2>4, <2>5, GoesOn
  <2> QED
    BY <2>4, <2>6 DEF Uade!AnswersAsAssumed
<1>4. CASE Uade!SubmitPassword
  BY <1>1, <1>2, <1>4, LetThroughPortal DEF Uade!SubmitPassword
<1>5. CASE Uade!Continue
  <2>1. PICK next : next = [check EXCEPT !.hops = Uade!Counted(@)]
    OBVIOUS
  <2>2. check.hops \in 0..Uade!maxMicrosoftHops /\ check.hops < Uade!maxMicrosoftHops
    BY <1>2, <1>5 DEF CheckShape, Uade!Continue, Uade!GoesOn
  <2>3. Uade!Counted(check.hops) \in 0..Uade!maxMicrosoftHops
    BY <2>2 DEF Uade!Counted, Uade!maxMicrosoftHops
  <2>4. next \in CheckShape /\ next.code = "none"
    BY <1>2, <2>1, <2>3 DEF CheckShape
  <2>5. Uade!LetThrough(next)
    BY <1>5, <2>1 DEF Uade!Continue
  <2> QED
    BY <1>1, <2>4, <2>5, LetThroughPortal
<1> QED
  BY <1>3, <1>4, <1>5

\* The relink ends with a result that the login and the period warrant.
LEMMA RelinkedPortal ==
    ASSUME PortalInv, check.pc # "done", UNCHANGED <<term, turns, login, answer>>, page' \in {page, Uade!NoPage},
           NEW result \in Uade!Results, Uade!RelinkIs(result),
           \/ result \in {"mfa", "other"}
           \/ result = "invalid" /\ login = "bad"
           \/ result = "closed" /\ login = "good" /\ term = "closed"
           \/ result = "of Asignaturas" /\ login = "good" /\ term = "open"
    PROVE  PortalInv' /\ Uade!AnswersAsAssumed
<1>1. check' \in CheckShape /\ check'.code = "none" /\ check'.pc = "relinked" /\ check'.result = result
  BY Gotos
<1>2. page' \in Uade!MicrosoftPages /\ (page'.code = "rejected" => login = "bad")
  BY NoPageShape DEF PortalInv, PortalShapes
<1>3. answer' \in Uade!SearchAnswers
  BY DEF PortalInv, PortalShapes
<1>4. PortalInv'
  BY <1>1, <1>2, <1>3, GoesOn
<1>5. Uade!AnswersAsAssumed
  BY <1>1 DEF Uade!AnswersAsAssumed
<1> QED
  BY <1>4, <1>5

LEMMA MriHeading == Uade!Mri.heading # "Asignaturas"
BY DEF Uade!Mri

\* Whoever is logged in finds the link of the Asignaturas while the period is open, an empty
\* panel while it is closed, or neither; nobody else finds anything.
LEMMA ListingsWarrant ==
    ASSUME NEW listing \in Uade!Listings, NEW result, result = Uade!ExtractStartURL(listing),
           term \in {"open", "closed"}
    PROVE  /\ result \in {"other", "closed", "of Asignaturas"}
           /\ result # "other" => check.pc # "anonymous"
           /\ result = "closed" => term = "closed"
           /\ result = "of Asignaturas" => term = "open"
<1>1. CASE listing \in {<<>>, <<Uade!Mri>>}
  <2>1. Uade!AsignaturasPanel(listing) = {}
    <3>1. CASE listing = <<>>
      BY <3>1 DEF Uade!AsignaturasPanel
    <3>2. CASE listing = <<Uade!Mri>>
      <4>1. DOMAIN listing = 1..1 /\ listing[1] = Uade!Mri
        BY <3>2
      <4>2. \A i \in DOMAIN listing : listing[i].heading # "Asignaturas"
        BY <4>1, MriHeading
      <4> QED
        BY <4>2 DEF Uade!AsignaturasPanel
    <3> QED
      BY <1>1, <3>1, <3>2
  <2>2. result = "other"
    BY <2>1 DEF Uade!ExtractStartURL, Uade!PanelEmpty
  <2> QED
    BY <2>2
<1>2. ASSUME NEW p \in Uade!Panels(Uade!AsignaturasLinks), listing \in {<<p>>, <<Uade!Mri, p>>}, check.pc # "anonymous"
      PROVE  /\ result \in {"other", "closed", "of Asignaturas"}
             /\ result = "closed" => term = "closed"
             /\ result = "of Asignaturas" => term = "open"
  <2>1. p.heading = "Asignaturas" /\ p.link \in Uade!AsignaturasLinks
    BY DEF Uade!Panels
  <2>2. PICK at \in {1, 2} : listing[at] = p /\ Uade!AsignaturasPanel(listing) = {at}
    <3>1. CASE listing = <<p>>
      BY <2>1, <3>1 DEF Uade!AsignaturasPanel
    <3>2. CASE listing = <<Uade!Mri, p>>
      <4>1. DOMAIN listing = 1..2 /\ listing[1] = Uade!Mri /\ listing[2] = p
        BY <3>2
      <4>2. \A i \in DOMAIN listing : listing[i].heading = "Asignaturas" <=> i = 2
        BY <2>1, <4>1, MriHeading
      <4>3. Uade!AsignaturasPanel(listing) = {2}
        BY <4>1, <4>2 DEF Uade!AsignaturasPanel
      <4> QED
        BY <4>1, <4>3
    <3> QED
      BY <1>2, <3>1, <3>2
  <2>3. {i \in Uade!AsignaturasPanel(listing) : \A j \in Uade!AsignaturasPanel(listing) : i <= j} = {at}
    BY <2>2
  <2>4. Uade!PanelEmpty({at}, listing) <=> p.link = "none"
    BY <2>2 DEF Uade!PanelEmpty
  <2>5. listing[CHOOSE i \in {at} : TRUE].link = p.link
    BY <2>2
  <2>6. result = IF p.link = "none" THEN "closed" ELSE IF p.link \in {"of MRI", "of Asignaturas"} THEN p.link ELSE "other"
    BY <2>2, <2>3, <2>4, <2>5 DEF Uade!ExtractStartURL
  <2> QED
    BY <2>1, <2>6 DEF Uade!AsignaturasLinks
<1> QED
  BY <1>1, <1>2 DEF Uade!Listings

LEMMA RelinkPortal ==
    ASSUME PortalInv, Uade!NoConfig \/ Uade!StillAtMicrosoft \/ Uade!RelinkFails \/ Uade!FetchListing
    PROVE  PortalInv' /\ Uade!AnswersAsAssumed
<1>1. check.pc # "done" /\ UNCHANGED <<term, turns, login, answer>> /\ page' \in {page, Uade!NoPage}
  BY DEF Uade!NoConfig, Uade!StillAtMicrosoft, Uade!RelinkFails, Uade!FetchListing
<1>2. {"mfa", "other", "invalid", "closed", "of Asignaturas"} \subseteq Uade!Results
  BY DEF Uade!Results, Uade!Links
<1>3. CASE Uade!NoConfig \/ Uade!RelinkFails
  BY <1>1, <1>2, <1>3, RelinkedPortal DEF Uade!NoConfig, Uade!RelinkFails
<1>4. CASE Uade!StillAtMicrosoft
  <2>1. PICK result : result = IF Uade!Rejected(page) THEN "invalid" ELSE "mfa"
    OBVIOUS
  <2>2. Uade!RelinkIs(result)
    BY <1>4, <2>1 DEF Uade!StillAtMicrosoft
  <2>3. result = "mfa" \/ (result = "invalid" /\ login = "bad")
    BY <2>1 DEF Uade!Rejected, PortalInv
  <2> QED
    BY <1>1, <1>2, <2>2, <2>3, RelinkedPortal
<1>5. CASE Uade!FetchListing
  <2>1. PICK listing \in Uade!Listings : Uade!RelinkIs(Uade!ExtractStartURL(listing)) \/ Uade!RelinkIs("other")
    BY <1>5 DEF Uade!FetchListing
  <2>2. term \in {"open", "closed"} /\ (check.pc = "anonymous" \/ login = "good")
    BY <1>5 DEF Uade!FetchListing, PortalInv, PortalShapes
  <2>3. PICK result : result = Uade!ExtractStartURL(listing)
    OBVIOUS
  <2>4. \/ result = "other"
        \/ result = "closed" /\ login = "good" /\ term = "closed"
        \/ result = "of Asignaturas" /\ login = "good" /\ term = "open"
    BY <2>2, <2>3, ListingsWarrant
  <2> QED
    BY <1>1, <1>2, <2>1, <2>3, <2>4, RelinkedPortal
<1> QED
  BY <1>3, <1>4, <1>5

LEMMA AfterPortal ==
    ASSUME PortalInv, Uade!AfterParse \/ Uade!AfterStale
    PROVE  PortalInv' /\ Uade!AnswersAsAssumed
<1>1. check.pc = "relinked" /\ UNCHANGED <<term, turns, login, page, answer>>
  BY DEF Uade!AfterParse, Uade!AfterStale
<1>2. Uade!AnswersAsAssumed
  BY <1>1 DEF Uade!AnswersAsAssumed
<1>3. CASE \E code \in CheckCodes \ {"found", "no_vacancies"} : Uade!Outcome(code)
  <2>1. PICK code \in CheckCodes \ {"found", "no_vacancies"} : Uade!Outcome(code)
    BY <1>3
  <2>2. check.pc # "done"
    BY <1>1
  <2> QED
    BY <1>1, <1>2, <2>1, <2>2, SaysOutcome
<1>4. ASSUME NEW link \in {"fresh", "stale"}, check' = [check EXCEPT !.pc = "search", !.link = link]
      PROVE  PortalInv'
  <2>1. check \in CheckShape /\ check.code = "none" /\ "search" \in CheckPcs
    BY <1>1, Gotos DEF CheckPcs
  <2>2. check' \in CheckShape /\ check'.code = "none" /\ check'.pc = "search"
    BY <1>4, <2>1 DEF CheckShape
  <2>3. page' \in Uade!MicrosoftPages /\ (page'.code = "rejected" => login = "bad") /\ answer' \in Uade!SearchAnswers
    BY <1>1 DEF PortalInv, PortalShapes
  <2> QED
    BY <1>1, <2>2, <2>3, GoesOn
<1>5. {"invalid_credentials", "inscripciones_cerradas", "stale_start_url", "search_failed"} \subseteq
          CheckCodes \ {"found", "no_vacancies"}
  BY DEF CheckCodes
<1>6. CASE Uade!AfterParse
  <2>1. \/ \E code \in {"invalid_credentials", "inscripciones_cerradas", "stale_start_url"} : Uade!Outcome(code)
        \/ \E link \in {"fresh", "stale"} : check' = [check EXCEPT !.pc = "search", !.link = link]
    BY <1>6 DEF Uade!AfterParse
  <2> QED
    BY <1>2, <1>3, <1>4, <1>5, <2>1
<1>7. CASE Uade!AfterStale
  <2>1. \E code \in {"search_failed", "inscripciones_cerradas", "stale_start_url"} : Uade!Outcome(code)
    BY <1>7 DEF Uade!AfterStale
  <2> QED
    BY <1>2, <1>3, <1>5, <2>1
<1> QED
  BY <1>6, <1>7

LEMMA PortalStep == ASSUME PortalInv, [Next]_vars PROVE PortalInv' /\ [Uade!AnswersAsAssumed]_portalVars
<1>1. CASE UNCHANGED portalVars
  BY <1>1 DEF portalVars, PortalInv, PortalShapes, Uade!NoFalseEmpty
<1>2. CASE Uade!Turn
  <2>1. turns' \in 0..MaxTurns /\ term' \in {"open", "closed"} /\ UNCHANGED <<login, check, page, answer>>
    BY <1>2, PartsAssumption DEF Uade!Turn, PortalInv, PortalShapes
  <2> QED
    BY <2>1 DEF PortalInv, PortalShapes, Uade!NoFalseEmpty, Uade!AnswersAsAssumed
<1>3. CASE Uade!Step
  BY <1>3, SearchPortal, VerifyPortal, MicrosoftPortal, RelinkPortal, AfterPortal DEF Uade!Step
<1> QED
  BY <1>1, <1>2, <1>3, OnePartMoves DEF Uade!Next

\* A check finds vacancies, or none, only in a table of its own search, unless a delta is
\* of another search or laid over what an earlier one left, and its relink gives the
\* answers that AccountPause assumes: whatever pages and deltas UADE serves, and however
\* often the period turns (search.go, parse.go, relink.go, panel.go).
THEOREM ChecksKept == Spec => ChecksSafe
<1>1. Init => PortalInv
  BY PortalBegin DEF Init
<1>2. PortalInv /\ [Next]_vars => PortalInv' /\ [Uade!AnswersAsAssumed]_portalVars
  BY PortalStep
<1>3. PortalInv' => Uade!NoFalseEmpty'
  BY DEF PortalInv
<1>4. PortalInv' /\ [Uade!AnswersAsAssumed]_portalVars => [Uade!NoFalseEmpty' /\ Uade!AnswersAsAssumed]_(Uade!portalVars)
  BY <1>3 DEF portalVars, Uade!portalVars
<1> QED
  BY <1>1, <1>2, <1>4, PTL DEF Spec, ChecksSafe, Uade!ChecksSafe

-----------------------------------------------------------------------------
(* The forms of the portal. *)

\* Pages with any number of rows, options and days: the samples are some of them.
ShowsControls(p) ==
    /\ p = [rows |-> p.rows, radios |-> p.radios, offering |-> p.offering, menu |-> p.menu,
            turno |-> p.turno, days |-> p.days, buttons |-> p.buttons]
    /\ DOMAIN p.rows \subseteq Nat
    /\ \A i \in DOMAIN p.rows : p.rows[i] = [code |-> p.rows[i].code, checked |-> p.rows[i].checked]

LEMMA RecordOfControls ==
    ASSUME NEW R, NEW S, NEW O, NEW M, NEW T, NEW D, NEW B,
           NEW p \in [rows : R, radios : S, offering : O, menu : M, turno : T, days : D, buttons : B]
    PROVE  /\ p = [rows |-> p.rows, radios |-> p.radios, offering |-> p.offering, menu |-> p.menu,
                   turno |-> p.turno, days |-> p.days, buttons |-> p.buttons]
           /\ p.rows \in R /\ p.menu \in M
OBVIOUS

LEMMA SamplesShowControls ==
    /\ \A p \in Forms!Pages : ShowsControls(p)
    /\ \A f \in Forms!Filters : /\ f.code # ""
                                 /\ f = [code |-> f.code, offering |-> f.offering, turno |-> f.turno, days |-> f.days]
<1>1. ASSUME NEW p \in Forms!Pages PROVE ShowsControls(p)
  <2>1. /\ p = [rows |-> p.rows, radios |-> p.radios, offering |-> p.offering, menu |-> p.menu,
                turno |-> p.turno, days |-> p.days, buttons |-> p.buttons]
        /\ \/ p.rows = <<[code |-> "3.1", checked |-> FALSE]>>
           \/ \E n \in 0..2 : p.rows \in [1..n -> [code : Forms!MateriaCodes, checked : BOOLEAN]]
    <3>1. /\ p = [rows |-> p.rows, radios |-> p.radios, offering |-> p.offering, menu |-> p.menu,
                  turno |-> p.turno, days |-> p.days, buttons |-> p.buttons]
          /\ \/ p.rows \in {<<[code |-> "3.1", checked |-> FALSE]>>}
             \/ p.rows \in UNION {[1..n -> [code : Forms!MateriaCodes, checked : BOOLEAN]] : n \in 0..2}
      BY RecordOfControls, Zenon DEF Forms!Pages
    <3> QED
      BY <3>1
  <2>2. CASE p.rows = <<[code |-> "3.1", checked |-> FALSE]>>
    <3>1. DOMAIN p.rows = 1..1 /\ p.rows[1] = [code |-> "3.1", checked |-> FALSE]
      BY <2>2
    <3> QED
      BY <2>1, <3>1 DEF ShowsControls
  <2>3. ASSUME NEW n \in 0..2, p.rows \in [1..n -> [code : Forms!MateriaCodes, checked : BOOLEAN]]
        PROVE  ShowsControls(p)
    BY <2>1, <2>3 DEF ShowsControls
  <2> QED
    BY <2>1, <2>2, <2>3
<1>2. \A f \in Forms!Filters : /\ f.code # ""
                               /\ f = [code |-> f.code, offering |-> f.offering, turno |-> f.turno, days |-> f.days]
  <2> SUFFICES ASSUME NEW f \in Forms!Filters
               PROVE  /\ f.code # ""
                      /\ f = [code |-> f.code, offering |-> f.offering, turno |-> f.turno, days |-> f.days]
    OBVIOUS
  <2>1. /\ f.code \in Forms!MateriaCodes
        /\ f = [code |-> f.code, offering |-> f.offering, turno |-> f.turno, days |-> f.days]
    BY DEF Forms!Filters
  <2> QED
    BY <2>1 DEF Forms!MateriaCodes
<1> QED
  BY <1>1, <1>2

\* The form of a page that has all that is needed: the one row with the code in its
\* text, and the search; and there is none of any other page.
LEMMA FormOfComplete ==
    ASSUME NEW p, ShowsControls(p), NEW filters, filters.code # "", Forms!Complete(p, filters)
    PROVE  \E row \in DOMAIN p.rows :
               /\ Forms!Matches(p, filters.code) = {row} /\ filters.days \subseteq DOMAIN p.days
               /\ Forms!BuildSearchForm(p, filters) =
                      [materias |-> {row}, offering |-> filters.offering, turno |-> filters.turno,
                       days |-> filters.days, name |-> Forms!NameOf(p.rows[row], filters.code)]
<1>1. PICK row : Forms!Matches(p, filters.code) = {row}
  BY DEF Forms!Complete, Forms!OnlyOne
<1>2. row \in DOMAIN p.rows /\ (CHOOSE i \in Forms!Matches(p, filters.code) : TRUE) = row
  <2>1. row \in Forms!Matches(p, filters.code)
    BY <1>1
  <2>2. (CHOOSE i \in Forms!Matches(p, filters.code) : TRUE) \in Forms!Matches(p, filters.code)
    BY <2>1
  <2> QED
    BY <1>1, <2>1, <2>2 DEF Forms!Matches
<1>3. filters.days \subseteq DOMAIN p.days
  BY DEF Forms!Complete
<1>4. /\ Forms!Deleted(Forms!Successful(p)).materias = {}
      /\ Forms!Deleted(Forms!Successful(p)).days = {}
  BY DEF Forms!Deleted, Forms!Successful
<1>5. /\ Forms!Deleted(Forms!Successful(p)).materias \cup {row} = {row}
      /\ Forms!Deleted(Forms!Successful(p)).days \cup filters.days = filters.days
  BY <1>4
<1>6. Forms!BuildSearchForm(p, filters) =
          [materias |-> {row}, offering |-> filters.offering, turno |-> filters.turno,
           days |-> filters.days, name |-> Forms!NameOf(p.rows[row], filters.code)]
  BY <1>2, <1>5 DEF Forms!BuildSearchForm
<1> QED
  BY <1>1, <1>2, <1>3, <1>6

LEMMA FormIffComplete ==
    ASSUME NEW p, ShowsControls(p), NEW filters, filters.code # ""
    PROVE  Forms!BuildSearchForm(p, filters) # Forms!NoForm <=> Forms!Complete(p, filters)
<1>1. Forms!Complete(p, filters) => Forms!BuildSearchForm(p, filters).materias # {}
  <2> SUFFICES ASSUME Forms!Complete(p, filters) PROVE Forms!BuildSearchForm(p, filters).materias # {}
    OBVIOUS
  <2>1. PICK row : Forms!BuildSearchForm(p, filters) =
                       [materias |-> {row}, offering |-> filters.offering, turno |-> filters.turno,
                        days |-> filters.days, name |-> Forms!NameOf(p.rows[row], filters.code)]
    BY FormOfComplete
  <2>2. PICK form : form = Forms!BuildSearchForm(p, filters)
    OBVIOUS
  <2>3. form = [materias |-> {row}, offering |-> filters.offering, turno |-> filters.turno,
                days |-> filters.days, name |-> Forms!NameOf(p.rows[row], filters.code)]
    BY <2>1, <2>2
  <2>4. form.materias = {row}
    BY <2>3
  <2> QED
    BY <2>2, <2>4
<1>2. Forms!NoForm.materias = {}
  BY DEF Forms!NoForm
<1>3. ~Forms!Complete(p, filters) => Forms!BuildSearchForm(p, filters) = Forms!NoForm
  BY DEF Forms!BuildSearchForm
<1> QED
  BY <1>1, <1>2, <1>3

\* The name of a row with the code in its text is the one that the search was created
\* with: of the rows whose cell is the code, there is this one or none.
LEMMA NameKept ==
    ASSUME NEW p, ShowsControls(p), NEW filters, filters.code # "", NEW row \in DOMAIN p.rows,
           Forms!Matches(p, filters.code) = {row}
    PROVE  /\ {i \in DOMAIN p.rows : p.rows[i].code = filters.code} \in {{row}, {}}
           /\ Forms!NameOf(p.rows[row], filters.code) = Forms!ResolveMateriaName(p, filters.code)
<1> DEFINE of == {i \in DOMAIN p.rows : p.rows[i].code = filters.code}
<1>1. of \subseteq {row}
  BY DEF Forms!Matches, Forms!Contains
<1>2. filters.code # ""
  OBVIOUS
<1>3. {i \in DOMAIN p.rows : Forms!NameOf(p.rows[i], filters.code) # ""} = of
  BY <1>2 DEF Forms!NameOf
<1>4. CASE row \in of
  <2>1. of = {row}
    BY <1>1, <1>4
  <2>2. Forms!OnlyOne(of)
    BY <2>1 DEF Forms!OnlyOne
  <2>3. Forms!ResolveMateriaName(p, filters.code) = filters.code
    BY <1>3, <2>2 DEF Forms!ResolveMateriaName
  <2>4. Forms!NameOf(p.rows[row], filters.code) = filters.code
    BY <1>4 DEF Forms!NameOf
  <2> QED
    BY <2>1, <2>3, <2>4
<1>5. CASE row \notin of
  <2>1. of = {}
    BY <1>1, <1>5
  <2>2. ~Forms!OnlyOne(of)
    BY <2>1 DEF Forms!OnlyOne
  <2>3. Forms!ResolveMateriaName(p, filters.code) = ""
    BY <1>3, <2>2 DEF Forms!ResolveMateriaName
  <2>4. Forms!NameOf(p.rows[row], filters.code) = ""
    BY <1>5 DEF Forms!NameOf
  <2> QED
    BY <2>1, <2>3, <2>4
<1> QED
  BY <1>4, <1>5

\* The controls of an answer are those of the form it answers.
LEMMA AnsweredControls ==
    ASSUME NEW p, ShowsControls(p), NEW form, NEW row \in DOMAIN p.rows, form.materias = {row},
           form.days \subseteq DOMAIN p.days
    PROVE  LET answered == Forms!Answered(p, form)
           IN  /\ Forms!Checked(answered) = {row} /\ answered.rows[row].code = p.rows[row].code
               /\ answered.offering = form.offering /\ answered.turno = form.turno
               /\ Forms!CheckedDays(answered) = form.days
<1> DEFINE answered == Forms!Answered(p, form)
           answeredRows == [i \in DOMAIN p.rows |-> [p.rows[i] EXCEPT !.checked = i \in form.materias]]
           answeredDays == [d \in DOMAIN p.days |-> d \in form.days]
<1>1. /\ answered.rows = answeredRows
      /\ answered.offering = form.offering /\ answered.turno = form.turno
      /\ answered.days = answeredDays
  <2>1. p = [rows |-> p.rows, radios |-> p.radios, offering |-> p.offering, menu |-> p.menu,
                turno |-> p.turno, days |-> p.days, buttons |-> p.buttons]
    BY DEF ShowsControls
  <2> HIDE DEF answeredRows, answeredDays
  <2>2. answered = [p EXCEPT !.rows = answeredRows, !.offering = form.offering, !.turno = form.turno,
                                !.days = answeredDays]
    BY DEF Forms!Answered, answeredRows, answeredDays
  <2>3. {"rows", "offering", "turno", "days"} \subseteq DOMAIN p
    BY <2>1
  <2> QED
    BY <2>2, <2>3
<1>2. \A i \in DOMAIN p.rows : p.rows[i] = [code |-> p.rows[i].code, checked |-> p.rows[i].checked]
  BY DEF ShowsControls
<1>3. \A i \in DOMAIN p.rows : answeredRows[i].code = p.rows[i].code /\ (answeredRows[i].checked <=> i = row)
  <2> SUFFICES ASSUME NEW i \in DOMAIN p.rows
               PROVE  answeredRows[i].code = p.rows[i].code /\ (answeredRows[i].checked <=> i = row)
    OBVIOUS
  <2>1. answeredRows[i] = [p.rows[i] EXCEPT !.checked = i \in form.materias]
    OBVIOUS
  <2>2. PICK r : r = p.rows[i]
    OBVIOUS
  <2>3. r = [code |-> r.code, checked |-> r.checked] /\ answeredRows[i] = [r EXCEPT !.checked = i \in form.materias]
    BY <1>2, <2>1, <2>2
  <2>4. answeredRows[i].code = r.code /\ answeredRows[i].checked = (i \in form.materias)
    <3> HIDE DEF answeredRows
    <3> QED
      BY <2>3
  <2> QED
    BY <2>2, <2>4
<1> HIDE DEF answered, answeredRows
<1>4. DOMAIN answeredRows = DOMAIN p.rows
  BY DEF answeredRows
<1>5. Forms!Checked(answered) = {row} /\ answered.rows[row].code = p.rows[row].code
  BY <1>1, <1>3, <1>4 DEF Forms!Checked
<1>6. Forms!CheckedDays(answered) = form.days
  BY <1>1 DEF Forms!CheckedDays
<1> QED
  BY <1>1, <1>5, <1>6 DEF answered

LEMMA AnswerTaken ==
    ASSUME NEW p, NEW form, NEW row, NEW filters, ShowsControls(p), row \in DOMAIN p.rows,
           form.materias = {row}, form.days \subseteq DOMAIN p.days
    PROVE  Forms!VerifyReflectedSearch(Forms!Answered(p, form), filters) <=>
               /\ Forms!Contains(p.rows[row].code, filters.code)
               /\ form.offering = filters.offering /\ form.turno = filters.turno /\ form.days = filters.days
<1>1. PICK answered : answered = Forms!Answered(p, form)
  OBVIOUS
<1>2. /\ Forms!Checked(answered) = {row} /\ answered.rows[row].code = p.rows[row].code
      /\ answered.offering = form.offering /\ answered.turno = form.turno
      /\ Forms!CheckedDays(answered) = form.days
  BY <1>1, AnsweredControls
<1>3. row \in Nat
  BY DEF ShowsControls
<1>4. (CHOOSE i \in Forms!Checked(answered) : \A j \in Forms!Checked(answered) : i <= j) = row
  <2>1. \E i \in Forms!Checked(answered) : \A j \in Forms!Checked(answered) : i <= j
    BY <1>2, <1>3
  <2>2. (CHOOSE i \in Forms!Checked(answered) : \A j \in Forms!Checked(answered) : i <= j) \in Forms!Checked(answered)
    BY <2>1
  <2> QED
    BY <1>2, <2>2
<1>5. Forms!VerifyReflectedSearch(answered, filters) <=>
          /\ Forms!Contains(p.rows[row].code, filters.code)
          /\ form.offering = filters.offering /\ form.turno = filters.turno /\ form.days = filters.days
  BY <1>2, <1>4 DEF Forms!VerifyReflectedSearch, Forms!SameDays
<1> QED
  BY <1>1, <1>5
\* The sample of the forms stays, and the other parts have none.
FormSample == Forms!IsPage => sample \in [page : Forms!Pages, filters : Forms!Filters]

LEMMA FormBegin == ASSUME Init PROVE FormSample
<1>1. CASE part = "forms"
  BY <1>1 DEF Init, Forms!Init, FormSample
<1>2. CASE part = "texts"
  <2>1. Texts!Init
    BY <1>2 DEF Init
  <2>2. \/ \E D : sample \in [delta : D]
        \/ \E O, R : sample \in [object : O, rest : R]
        \/ \E L, F, P : sample \in [limit : L, first : F, payload : P]
    BY <2>1 DEF Texts!Init
  <2>3. DOMAIN sample \in {{"delta"}, {"object", "rest"}, {"limit", "first", "payload"}}
    BY <2>2
  <2>4. "page" \notin DOMAIN sample
    BY <2>3
  <2> QED
    BY <2>4 DEF Forms!IsPage, FormSample
<1>3. CASE part \notin {"forms", "texts"}
  <2>1. sample = Texts!NoSample
    BY <1>3 DEF Init
  <2>2. "page" \notin DOMAIN sample
    BY <2>1 DEF Texts!NoSample
  <2> QED
    BY <2>2 DEF Forms!IsPage, FormSample
<1> QED
  BY <1>1, <1>2, <1>3

LEMMA MenuOfTwo ==
    ASSUME NEW m \in {<<>>, <<"tarde">>, <<"tarde", "noche">>}, Len(m) = 2
    PROVE  m = <<"tarde", "noche">>
<1>1. CASE m = <<>>
  BY <1>1
<1>2. CASE m = <<"tarde">>
  <2>1. Len(<<"tarde">>) = 1
    OBVIOUS
  <2> QED
    BY <1>2, <2>1
<1> QED
  BY <1>1, <1>2

\* An answer to one search is taken for another only if they are alike, but for codes
\* in the text of the same row.
LEMMA AnswerToldApart ==
    ASSUME NEW p, ShowsControls(p), NEW filters \in Forms!Filters, NEW other \in Forms!Filters,
           Forms!BuildSearchForm(p, other) # Forms!NoForm
    PROVE  Forms!VerifyReflectedSearch(Forms!Answered(p, Forms!BuildSearchForm(p, other)), filters) <=>
               /\ [other EXCEPT !.code = filters.code] = filters
               /\ \A i \in Forms!BuildSearchForm(p, other).materias : Forms!Contains(p.rows[i].code, filters.code)
<1>0. PICK asked : asked = Forms!BuildSearchForm(p, other)
  OBVIOUS
<1>1. other.code # "" /\ Forms!Complete(p, other)
  BY FormIffComplete, SamplesShowControls
<1>2. PICK row \in DOMAIN p.rows :
          /\ asked = [materias |-> {row}, offering |-> other.offering, turno |-> other.turno,
                      days |-> other.days, name |-> Forms!NameOf(p.rows[row], other.code)]
          /\ other.days \subseteq DOMAIN p.days
  BY <1>0, <1>1, FormOfComplete
<1>3. /\ asked.materias = {row} /\ asked.offering = other.offering /\ asked.turno = other.turno
      /\ asked.days = other.days
  BY <1>2
<1>4. Forms!VerifyReflectedSearch(Forms!Answered(p, asked), filters) <=>
          /\ Forms!Contains(p.rows[row].code, filters.code)
          /\ other.offering = filters.offering /\ other.turno = filters.turno /\ other.days = filters.days
  <2>1. asked.days \subseteq DOMAIN p.days
    BY <1>2, <1>3
  <2>2. Forms!VerifyReflectedSearch(Forms!Answered(p, asked), filters) <=>
            /\ Forms!Contains(p.rows[row].code, filters.code)
            /\ asked.offering = filters.offering /\ asked.turno = filters.turno /\ asked.days = filters.days
    <3>1. row \in DOMAIN p.rows /\ asked.materias = {row}
      BY <1>2, <1>3
    <3> QED
      BY <2>1, <3>1, AnswerTaken
  <2> QED
    BY <1>3, <2>2
<1>5. [other EXCEPT !.code = filters.code] = filters <=>
          other.offering = filters.offering /\ other.turno = filters.turno /\ other.days = filters.days
  <2>1. \A f \in {other, filters} :
            f = [code |-> f.code, offering |-> f.offering, turno |-> f.turno, days |-> f.days]
    BY SamplesShowControls
  <2>2. [other EXCEPT !.code = filters.code] =
            [code |-> filters.code, offering |-> other.offering, turno |-> other.turno, days |-> other.days]
    BY <2>1
  <2> QED
    BY <2>1, <2>2
<1> QED
  BY <1>0, <1>3, <1>4, <1>5

LEMMA FormsOfSample == ASSUME FormSample PROVE FormsFaithful
<1> SUFFICES ASSUME Forms!IsPage PROVE Forms!SubmitsWhatWasAsked /\ Forms!AnswersToldApart
  BY DEF FormsFaithful, Forms!FormsFaithful, Forms!SubmitsWhatWasAsked, Forms!AnswersToldApart
<1>1. sample.page \in Forms!Pages /\ sample.filters \in Forms!Filters
  BY DEF FormSample
<1>2. PICK p \in Forms!Pages, filters \in Forms!Filters : p = sample.page /\ filters = sample.filters
  BY <1>1
<1>3. ShowsControls(p) /\ filters.code # ""
  BY SamplesShowControls
<1>4. PICK form : form = Forms!BuildSearchForm(p, filters)
  OBVIOUS
<1>5. PICK ofMateria : ofMateria = {i \in DOMAIN p.rows : p.rows[i].code = filters.code}
  OBVIOUS
<1>6. form # Forms!NoForm =>
          /\ \E i \in DOMAIN p.rows :
                 /\ form.materias = {i} /\ Forms!Contains(p.rows[i].code, filters.code)
                 /\ ofMateria \in {{i}, {}}
          /\ form.offering = filters.offering /\ form.turno = filters.turno
          /\ form.days = filters.days
          /\ form.name = Forms!ResolveMateriaName(p, filters.code)
  <2> SUFFICES ASSUME form # Forms!NoForm
               PROVE  /\ \E i \in DOMAIN p.rows :
                             /\ form.materias = {i} /\ Forms!Contains(p.rows[i].code, filters.code)
                             /\ ofMateria \in {{i}, {}}
                      /\ form.offering = filters.offering /\ form.turno = filters.turno
                      /\ form.days = filters.days
                      /\ form.name = Forms!ResolveMateriaName(p, filters.code)
    OBVIOUS
  <2>1. Forms!Complete(p, filters)
    BY <1>3, <1>4, FormIffComplete
  <2>2. PICK row \in DOMAIN p.rows :
            /\ Forms!Matches(p, filters.code) = {row}
            /\ form = [materias |-> {row}, offering |-> filters.offering, turno |-> filters.turno,
                       days |-> filters.days, name |-> Forms!NameOf(p.rows[row], filters.code)]
    BY <1>3, <1>4, <2>1, FormOfComplete
  <2>3. /\ form.materias = {row} /\ form.offering = filters.offering /\ form.turno = filters.turno
        /\ form.days = filters.days /\ form.name = Forms!NameOf(p.rows[row], filters.code)
    BY <2>2
  <2>4. Forms!Contains(p.rows[row].code, filters.code)
    BY <2>2 DEF Forms!Matches
  <2>5. ofMateria \in {{row}, {}} /\ form.name = Forms!ResolveMateriaName(p, filters.code)
    BY <1>3, <1>5, <2>2, <2>3, NameKept
  <2> QED
    BY <2>3, <2>4, <2>5
<1>7. /\ \E i \in ofMateria : Forms!Matches(p, filters.code) = {i}
      /\ p.buttons = 1 /\ p.radios = Forms!Offerings /\ Len(p.menu) = 2 /\ DOMAIN p.days = Forms!Days
      => form # Forms!NoForm
  <2> SUFFICES ASSUME NEW i \in ofMateria, Forms!Matches(p, filters.code) = {i},
                      p.buttons = 1, p.radios = Forms!Offerings, Len(p.menu) = 2, DOMAIN p.days = Forms!Days
               PROVE  Forms!Complete(p, filters)
    BY <1>3, <1>4, FormIffComplete
  <2>1. Forms!OnlyOne(Forms!Matches(p, filters.code))
    BY DEF Forms!OnlyOne
  <2>2. filters.offering \in p.radios /\ filters.days \subseteq DOMAIN p.days /\ filters.turno \in Forms!Turnos
    BY DEF Forms!Filters
  <2>3. \E n \in DOMAIN p.menu : p.menu[n] = filters.turno
    <3>1. p.menu = <<"tarde", "noche">>
      <4>1. p.menu \in {<<>>, <<"tarde">>, <<"tarde", "noche">>}
        <5>1. p.menu \in {<<"tarde", "noche">>} \/ p.menu \in {<<>>, <<"tarde">>, <<"tarde", "noche">>}
          BY RecordOfControls, Zenon DEF Forms!Pages
        <5> QED
          BY <5>1
      <4> QED
        BY <4>1, MenuOfTwo
    <3>2. DOMAIN p.menu = 1..2 /\ p.menu[1] = "tarde" /\ p.menu[2] = "noche"
      BY <3>1
    <3> QED
      BY <2>2, <3>2 DEF Forms!Turnos
  <2> QED
    BY <2>1, <2>2, <2>3 DEF Forms!Complete
<1>8. Forms!SubmitsWhatWasAsked
  BY <1>2, <1>4, <1>5, <1>6, <1>7 DEF Forms!SubmitsWhatWasAsked
<1>9. ASSUME NEW other \in Forms!Filters, Forms!BuildSearchForm(p, other) # Forms!NoForm
      PROVE  Forms!VerifyReflectedSearch(Forms!Answered(p, Forms!BuildSearchForm(p, other)), filters) <=>
                 /\ [other EXCEPT !.code = filters.code] = filters
                 /\ \A i \in Forms!BuildSearchForm(p, other).materias : Forms!Contains(p.rows[i].code, filters.code)
  BY <1>3, <1>9, AnswerToldApart
<1>10. Forms!AnswersToldApart
  BY <1>2, <1>9 DEF Forms!AnswersToldApart
<1> QED
  BY <1>8, <1>10

\* A search is submitted as it was asked for, and only its own answer is taken for it
\* (webforms.go): in every sample, by what holds of pages with any number of rows,
\* options and days.
THEOREM FormsKept == Spec => []FormsFaithful
<1>1. Init => FormSample
  BY FormBegin
<1>2. FormSample /\ [Next]_vars => FormSample'
  BY OnePartMoves DEF FormSample, Forms!IsPage
<1>3. FormSample => FormsFaithful
  BY FormsOfSample
<1> QED
  BY <1>1, <1>2, <1>3, PTL DEF Spec

-----------------------------------------------------------------------------
(* Types. *)

\* Every part keeps its variables in their types, for any values of the constants.
THEOREM TypesKept == Spec => []TypeOK
<1>1. Init => StoreInv /\ GuildsInv /\ SessionsInv /\ SnapshotInv /\ PortalInv
  BY StoreBegin, GuildsBegin, SessionsBegin, SnapshotBegin, PortalBegin DEF Init
<1>2. StoreInv /\ GuildsInv /\ SessionsInv /\ SnapshotInv /\ PortalInv /\ [Next]_vars
      => (StoreInv /\ GuildsInv /\ SessionsInv /\ SnapshotInv /\ PortalInv)'
  BY StoreStep, GuildsStep, SessionsStep, SnapshotStep, PortalStep
<1>3. StoreInv => Store!MigrationTypeOK
  BY DEF StoreInv, IsJobs, SchemaWords, Store!MigrationTypeOK
<1>4. SessionsInv => SessionsTypeOK
  BY DEF SessionsInv, IsTable, SessionShape, RequestShape, SessionsTypeOK
<1>5. SnapshotInv => Dashboard!SnapshotTypeOK
  <2> SUFFICES ASSUME SnapshotInv PROVE Dashboard!SnapshotTypeOK
    OBVIOUS
  <2>1. ASSUME NEW b \in Builds
        PROVE  /\ build[b].pc \in {"none", "jobs", "rows", "each"}
               /\ build[b].pauses \subseteq Users /\ build[b].todo \subseteq Jobs
               /\ build[b].shown \in [DOMAIN build[b].shown -> BOOLEAN] /\ DOMAIN build[b].shown \subseteq Jobs
    <3>1. build[b] \in BuildShape
      BY DEF SnapshotInv, SnapshotShapes
    <3>2. build[b].shown \in ShownShape
      BY <3>1 DEF BuildShape
    <3>3. build[b].shown \in [DOMAIN build[b].shown -> BOOLEAN] /\ DOMAIN build[b].shown \subseteq Jobs
      BY <3>2 DEF ShownShape
    <3> QED
      BY <3>1, <3>3 DEF BuildShape
  <2>2. Dashboard!Cardinality(Dashboard!Polls) <= MaxPolls
    BY DashboardCounts DEF SnapshotInv, SnapshotShapes
  <2> QED
    BY <2>1, <2>2 DEF SnapshotInv, SnapshotShapes, Dashboard!SnapshotTypeOK
<1>6. PortalInv => Uade!PortalTypeOK
  BY DEF PortalInv, PortalShapes, CheckShape, CheckCodes, Uade!PortalTypeOK
<1>7. GuildsInv => Gateway!GatewayTypeOK
  BY DEF GuildsInv
<1>8. Spec => []Microsoft!TypeOK
  BY SignInTyped
<1> QED
  BY <1>1, <1>2, <1>3, <1>4, <1>5, <1>6, <1>7, <1>8, PTL DEF Spec, TypeOK

=============================================================================
