-------------------------- MODULE DataPreparation --------------------------
(***************************************************************************)
(* The data foundation, data_core/: raw tables are cleaned, validated,     *)
(* split by customer, saved, reported on and loaded into PostgreSQL.       *)
(*                                                                         *)
(* Customers, actions, transactions and outcomes stand for the eight       *)
(* tables.  Predictions and decisions refer to transactions and actions as *)
(* outcomes do; constraints have a type of their own that is unique, as    *)
(* actions have, and audit logs refer to nothing.  A row has the `faults`  *)
(* of its columns: "required" or "integer" where such a                    *)
(* column is missing or invalid, "optional" where one is that may be null, *)
(* "defaulted" where it may not be null in the database, "order" where its *)
(* own dates contradict each other.  Dates are days, `due` counted back    *)
(* from the reference date.                                                *)
(***************************************************************************)
EXTENDS Sequences, FiniteSets, Sums

CONSTANTS
  Frames,      \* raw tables a run may start from
  Fraction,    \* names of the splits, in the order of SPLIT_FRACTIONS
  Percent,     \* name -> share of the customers
  MaxPreparations  \* bound: runs of the pipeline

Table == <<"customers", "actions", "transactions", "outcomes">>
TableName == {Table[k] : k \in DOMAIN Table}
FractionName == {Fraction[k] : k \in DOMAIN Fraction}

ASSUME PreparationAssumption ==
  /\ \A f \in Frames : \A t \in TableName :
       Len(f[t]) \in Nat /\ DOMAIN f[t] = 1..Len(f[t])
  /\ Fraction \in Seq(FractionName) /\ Fraction # <<>>
  /\ Percent \in [FractionName -> Nat]
  /\ MaxPreparations \in Nat

VARIABLES
  run,         \* number of the running, or last, run
  prep,        \* where the run is
  raw,         \* table -> its raw rows, a sequence
  cleaned,     \* table -> rows the cleaning kept
  accepted,    \* table -> rows the validation kept
  rejected,    \* table -> rows it did not
  assignment,  \* customer -> split
  pending,     \* positions of the splits not saved yet
  disk,        \* split -> [run, rows] on disk, of run 0 if there is none
  manifest,    \* [run, paths] on disk, of run 0 if there is none
  trusted,     \* the verdict of the quality report
  db,          \* table -> rows committed in PostgreSQL
  unloaded,    \* positions of the tables not loaded yet
  loading      \* what _try_load_db came to

prepVars == <<run, prep, raw, cleaned, accepted, rejected, assignment, pending, disk,
              manifest, trusted, db, unloaded, loading>>
tables == <<raw, cleaned, accepted, rejected>>
saved == <<assignment, pending, disk, manifest>>
loaded == <<db, unloaded, loading>>

Nothing == [t \in TableName |-> {}]
Ids(rows) == {r.id : r \in rows}

PrepInit ==
  /\ run = 0 /\ prep = "idle"
  /\ raw = [t \in TableName |-> <<>>]
  /\ cleaned = Nothing /\ accepted = Nothing /\ rejected = Nothing
  /\ assignment = <<>> /\ pending = {}
  /\ disk = [n \in FractionName |-> [run |-> 0, rows |-> {}]]
  /\ manifest = [run |-> 0, paths |-> {}]
  /\ trusted = FALSE
  /\ db = Nothing /\ unloaded = {} /\ loading = "none"

-----------------------------------------------------------------------------
(* Generation and cleaning.                                                *)

Begin ==
  /\ prep = "idle" /\ run < MaxPreparations
  /\ run' = run + 1
  /\ raw' \in Frames
  /\ cleaned' = Nothing /\ accepted' = Nothing /\ rejected' = Nothing
  /\ assignment' = <<>> /\ pending' = {} /\ trusted' = FALSE /\ loading' = "none"
  /\ prep' = "clean"
  /\ UNCHANGED <<disk, manifest, db, unloaded>>

\* The policies of the columns: a required one is missing or invalid.
Faulty(row) == {"required", "integer"} \cap row.faults # {}

\* So are dates in an impossible order; an outcome's are left to the validation.
Unclean(t, row) ==
  Faulty(row) \/ (t # "outcomes" /\ "order" \in row.faults)

\* Of the rows with one key the first is kept, if it is itself clean.
Kept(t, rows) ==
  {i \in DOMAIN rows :
     ~Unclean(t, rows[i]) /\ \A j \in 1..(i - 1) : rows[j].id # rows[i].id}

\* Bad optional values become null ("defaulted" stays: that null is refused
\* later), days_overdue is derived from due_date.
CleanRow(t, row) ==
  LET filled == [row EXCEPT !.faults = @ \ {"optional"}]
  IN  IF t = "transactions" THEN [filled EXCEPT !.overdue = row.due] ELSE filled

Cleaned(t, rows) == {CleanRow(t, rows[i]) : i \in Kept(t, rows)}

Clean ==
  /\ prep = "clean"
  /\ cleaned' = [t \in TableName |-> Cleaned(t, raw[t])]
  /\ prep' = "validate"
  /\ UNCHANGED <<run, raw, accepted, rejected, saved, trusted, loaded>>

-----------------------------------------------------------------------------
(* Validation: each row by itself, then the rows that passed together.     *)

WellFormed(t) ==
  {row \in cleaned[t] : t = "transactions" => row.overdue >= 0}

Orphans ==
  {row \in WellFormed("transactions") :
     row.customer \notin Ids(WellFormed("customers"))}

\* Outcomes that contradict themselves or their transaction, or have none, or
\* no action; without any action there is, their actions are not checked.
Contradicted ==
  {o \in WellFormed("outcomes") :
     \/ "order" \in o.faults
     \/ o.txn \notin Ids(WellFormed("transactions"))
     \/ WellFormed("actions") # {} /\ o.action \notin Ids(WellFormed("actions"))
     \/ \E row \in WellFormed("transactions") :
          row.id = o.txn /\ (o.at < row.at \/ o.recovered > row.amount)}

\* Every check looks at the rows that are well formed, none at what another
\* check rejects.
Inconsistent(t) ==
  CASE t = "transactions" -> Orphans
    [] t = "outcomes" -> Contradicted
    [] OTHER -> {}

\* Fault: what fails a check across tables is reported, not rejected.
RejectMalformed(t) == cleaned[t] \ WellFormed(t)

Rejected(t) == (cleaned[t] \ WellFormed(t)) \cup Inconsistent(t)

Validate ==
  /\ prep = "validate"
  /\ accepted' = [t \in TableName |-> WellFormed(t) \ Inconsistent(t)]
  /\ rejected' = [t \in TableName |-> Rejected(t)]
  /\ prep' = "split"
  /\ UNCHANGED <<run, raw, cleaned, saved, trusted, loaded>>

-----------------------------------------------------------------------------
(* Splitting.                                                              *)

\* round() of percent * n / 100, halves to even.
Rounded(x) ==
  LET q == x \div 100
  IN  IF x % 100 < 50 \/ (x % 100 = 50 /\ q % 2 = 0) THEN q ELSE q + 1

Share(k) == SumTo([j \in DOMAIN Fraction |-> Percent[Fraction[j]]], k)
Stop(k, n) == IF k = Len(Fraction) THEN n ELSE Rounded(Share(k) * n)

\* The customers in the order of the seeded permutation, cut into runs.
Assigned(order) ==
  [c \in {order[p] : p \in DOMAIN order} |->
     LET p == CHOOSE p \in DOMAIN order : order[p] = c
         k == CHOOSE k \in DOMAIN Fraction :
                /\ p <= Stop(k, Len(order))
                /\ \A j \in 1..(k - 1) : p > Stop(j, Len(order))
     IN  Fraction[k]]

Orders(S) ==
  {order \in [1..Cardinality(S) -> S] : S = {order[p] : p \in DOMAIN order}}

\* Transactions are split by their customer; one without a split is in none.
InSplit(n) ==
  {row \in accepted["transactions"] :
     row.customer \in DOMAIN assignment /\ assignment[row.customer] = n}

Assign ==
  /\ prep = "split"
  /\ \E order \in Orders(Ids(accepted["customers"])) : assignment' = Assigned(order)
  /\ pending' = DOMAIN Fraction
  /\ prep' = "save"
  /\ UNCHANGED <<run, tables, disk, manifest, trusted, loaded>>

First(k, S) == k \in S /\ \A j \in S : k <= j

\* save_splits passes over an empty split, whatever file it has.
WriteSplit ==
  /\ prep = "save"
  /\ \E k \in pending :
       /\ First(k, pending)
       /\ pending' = pending \ {k}
       /\ LET rows == InSplit(Fraction[k])
          IN  disk' = IF rows = {} THEN disk
                      ELSE [disk EXCEPT ![Fraction[k]] = [run |-> run, rows |-> rows]]
  /\ UNCHANGED <<run, prep, tables, assignment, manifest, trusted, loaded>>

\* Fault: the manifest names every split.
AllPaths == FractionName

Paths == {n \in FractionName : InSplit(n) # {}}

SaveManifest ==
  /\ prep = "save" /\ pending = {}
  /\ manifest' = [run |-> run, paths |-> Paths]
  /\ prep' = "report"
  /\ UNCHANGED <<run, tables, assignment, pending, disk, trusted, loaded>>

-----------------------------------------------------------------------------
(* The report and the optional load.                                       *)

\* Rows lost in cleaning do not count.
Report ==
  /\ prep = "report"
  /\ trusted' = (\A t \in TableName : rejected[t] = {})
  /\ \E load_db \in BOOLEAN : prep' = IF load_db THEN "schema" ELSE "idle"
  /\ UNCHANGED <<run, tables, saved, loaded>>

\* Fault: the schema is kept when there is one.
KeptSchema == db

\* The schema is dropped and built anew; truncating it changes nothing.
ResetSchema == Nothing

\* That is committed before the first table.
CreateSchema ==
  /\ prep = "schema"
  /\ db' = ResetSchema /\ unloaded' = DOMAIN Table /\ loading' = "partial"
  /\ prep' = "load"
  /\ UNCHANGED <<run, tables, saved, trusted>>

\* Keys of the table that rows are copied into: primary, foreign, and the type
\* of an action, which is unique.
KeysHold(t, rows) ==
  /\ Ids(rows) \cap Ids(db[t]) = {}
  /\ t = "actions" => \A row, other \in rows : row.type = other.type => row = other
  /\ t = "transactions" => \A row \in rows : row.customer \in Ids(db["customers"])
  /\ t = "outcomes" => \A row \in rows : /\ row.txn \in Ids(db["transactions"])
                                        /\ row.action \in Ids(db["actions"])

\* One value that is no number makes floats of its column, before its row is
\* rejected, and "5.0" is not copied into INTEGER.
FloatColumn(t) == \E i \in DOMAIN raw[t] : "integer" \in raw[t][i].faults

\* NOT NULL, and the types of the columns; of no rows nothing is copied.
ColumnsFit(t, rows) ==
  /\ rows # {} => ~FloatColumn(t)
  /\ \A row \in rows : "defaulted" \notin row.faults

Taken(t) == KeysHold(t, accepted[t]) /\ ColumnsFit(t, accepted[t])

\* LOAD_ORDER: parents before children.
NextToLoad(k) == First(k, unloaded)

\* One table, and its commit.
LoadTable ==
  /\ prep = "load"
  /\ \E k \in unloaded :
       /\ NextToLoad(k) /\ Taken(Table[k])
       /\ db' = [db EXCEPT ![Table[k]] = @ \cup accepted[Table[k]]]
       /\ unloaded' = unloaded \ {k}
  /\ UNCHANGED <<run, prep, tables, saved, trusted, loading>>

\* The tables before it stay; the run goes on without the database.
LoadRefused ==
  /\ prep = "load"
  /\ \E k \in unloaded : NextToLoad(k) /\ ~Taken(Table[k])
  /\ loading' = "refused" /\ prep' = "idle"
  /\ UNCHANGED <<run, tables, saved, trusted, db, unloaded>>

ConnectionLost ==
  /\ prep \in {"schema", "load"}
  /\ loading' = "lost" /\ prep' = "idle"
  /\ UNCHANGED <<run, tables, saved, trusted, db, unloaded>>

LoadDone ==
  /\ prep = "load" /\ unloaded = {}
  /\ loading' = "loaded" /\ prep' = "idle"
  /\ UNCHANGED <<run, tables, saved, trusted, db, unloaded>>

\* The split that is being written is left with some of its rows.
CutShort ==
  \E k \in pending :
    /\ First(k, pending) /\ InSplit(Fraction[k]) # {}
    /\ \E rows \in SUBSET InSplit(Fraction[k]) :
         disk' = [disk EXCEPT ![Fraction[k]] = [run |-> run, rows |-> rows]]

\* The process is killed; files and committed tables stay.
Killed ==
  /\ prep # "idle"
  /\ prep' = "idle"
  /\ disk' = disk \/ (prep = "save" /\ CutShort)
  /\ UNCHANGED <<run, tables, assignment, pending, manifest, trusted, loaded>>

PrepNext ==
  \/ Begin \/ Clean \/ Validate
  \/ Assign \/ WriteSplit \/ SaveManifest \/ Report
  \/ CreateSchema \/ LoadTable \/ LoadRefused \/ ConnectionLost \/ LoadDone
  \/ Killed

PrepSpec == PrepInit /\ [][PrepNext]_prepVars

-----------------------------------------------------------------------------
(* Properties.                                                             *)

RefersInside(tab) ==
  /\ \A row \in tab["transactions"] : row.customer \in Ids(tab["customers"])
  /\ \A o \in tab["outcomes"] : o.txn \in Ids(tab["transactions"])
KnownActions(tab) == \A o \in tab["outcomes"] : o.action \in Ids(tab["actions"])
Closed(tab) == RefersInside(tab) /\ KnownActions(tab)
TypesRepeat ==
  \E a, b \in accepted["actions"] : a # b /\ a.type = b.type

(* A row of a dataset the report calls trusted refers to rows that are in  *)
(* the dataset, though the checks across tables look at one another's      *)
(* input only (validation.py:390-428); unless the dataset has no action at *)
(* all, when the actions of its outcomes are whatever they were.  An       *)
(* accepted outcome of no accepted transaction is of one that was rejected *)
(* with its customer gone.  Trust does not mean that the database takes    *)
(* it: the database refuses a dataset that is not closed, one with two     *)
(* actions of a type, and one with a null or a float where V001 has NOT    *)
(* NULL or INTEGER, none of which the report looks at, and no other.       *)
TrustedIsClosed ==
  /\ trusted => /\ RefersInside(accepted)
                /\ accepted["actions"] # {} => Closed(accepted)
  /\ \A o \in accepted["outcomes"] :
       o.txn \notin Ids(accepted["transactions"]) =>
         \E row \in rejected["transactions"] :
           row.id = o.txn /\ row.customer \notin Ids(accepted["customers"])
  /\ loading = "refused" =>
       \/ ~Closed(accepted) \/ TypesRepeat
       \/ \E t \in TableName : ~ColumnsFit(t, accepted[t])
  /\ loading = "loaded" =>
       /\ Closed(accepted) /\ ~TypesRepeat
       /\ \A t \in TableName : ColumnsFit(t, accepted[t])

(* What a reader of the split directory can rely on, wherever runs were    *)
(* killed (splitting.py:94-149).  No customer is in two files of one run.  *)
(* Once the last run has written its manifest, the files listed are those  *)
(* of that run, any other file is of an earlier one, and the listed files  *)
(* have every accepted transaction.  Until then the manifest is of an      *)
(* earlier run and promises less: the files it lists may have been         *)
(* overwritten, or cut short, by a later run, and customers are kept apart *)
(* among the files of each run only.                                       *)
ManifestIsPartition ==
  /\ \A m, n \in FractionName : disk[m].run = disk[n].run =>
       \A r \in disk[m].rows, q \in disk[n].rows : r.customer = q.customer => m = n
  /\ \A n \in manifest.paths : disk[n].run >= manifest.run
  /\ (manifest.run = run /\ run # 0) =>
       /\ manifest.paths = {n \in FractionName : disk[n].run = run}
       /\ UNION {disk[n].rows : n \in manifest.paths} = accepted["transactions"]

(* The database is reported loaded only with exactly the accepted rows,    *)
(* whatever an earlier load left, and what is there refers to what is      *)
(* there at every moment (pipeline.py:175-195).                            *)
LoadedExactly ==
  /\ loading = "loaded" => db = accepted
  /\ Closed(db)
=============================================================================
