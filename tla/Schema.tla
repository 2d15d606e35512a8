------------------------------- MODULE Schema -------------------------------
(***************************************************************************)
(* The schema of lab.db from one start of the server to the next: initDb   *)
(* of db.js runs init.sql, its own list of columns and seeds, and the      *)
(* seven migrations of migrations.js.  Every statement commits by itself,  *)
(* is passed over when what it makes is there, and throws when it names    *)
(* something that is not; app.js then ends the process.  Older databases,  *)
(* crashes between two statements, backups put back and the scripts that   *)
(* rebuild or drop tables come in between.                                 *)
(***************************************************************************)
EXTENDS Sequences, Functions

CONSTANT
    Gaps    \* bound of the runs: the columns an older database may lack

ASSUME GapsAssumption ==
    Gaps \subseteq {"version", "snapshot", "tax", "completion", "dates", "weights",
                    "required", "worth", "kt", "reference", "payment", "request"}

VARIABLES
    schema,     \* what the database has: pairs of a table and a part of it
    saved,      \* the schema in the latest backup
    server,     \* "down", "starting", "up", "refused" (initDb threw)
    pc,         \* the statement of Plan a start has come to
    whole,      \* no table was dropped since the server is up
    healed      \* for a property: a start of this database, and of the backup, succeeded

vars == <<schema, saved, server, pc, whole, healed>>

------------------------------------------------------------------------------
\* Tables and their parts.  "table" stands for the table with the columns every
\* version had, other parts for a group of columns, an index or a trigger.

Tests     == <<"gold_test", "silver_test">>
Metal     == <<"gold_certificate", "silver_certificate">>
Photo     == <<"photo_certificate">>
Docs      == Tests \o Metal \o Photo
TestItems == <<"gold_test_item", "silver_test_item">>
CertItems == <<"gold_certificate_item", "silver_certificate_item", "photo_certificate_item">>
Items     == TestItems \o CertItems
Books     == <<"credit_history", "weight_loss_history">>
Records   == Range(Docs \o Items)

\* The columns the services read and write, beyond those every version had.
Columns(t) ==
    CASE t \in Range(Tests)     -> {"version", "completion", "snapshot", "tax"}
      [] t \in Range(Metal)     -> {"version", "completion", "snapshot", "tax", "dates", "weights"}
      [] t \in Range(Photo)     -> {"version", "completion", "snapshot", "tax"}
      [] t \in Range(TestItems) -> {"required"}
      [] t \in Range(CertItems) -> {"worth"} \cup (IF t = "photo_certificate_item" THEN {"kt"} ELSE {})
      [] t = "customer"         -> {"version"}
      [] t = "credit_history"   -> {"reference"}
      [] t = "weight_loss_history" -> {"payment"}
      [] t = "audit_logs"       -> {"request"}
      [] OTHER                  -> {}

\* Those of them that CREATE TABLE of init.sql has.
Made(t) ==
    CASE t \in Range(Tests)     -> {"version", "completion"}
      [] t \in Range(Metal)     -> {"version", "tax", "dates", "weights"}
      [] t \in Range(Photo)     -> {"version", "tax"}
      [] t \in Range(TestItems) -> {}
      [] t \in Range(CertItems) -> {"worth"}
      [] OTHER                  -> Columns(t)

Part(t, ps) == {t} \X ps

------------------------------------------------------------------------------
\* The statements of a start, in their order: each makes a part of a table, and
\* names the table and some of its columns.

Each(ts, p, columns) ==
    [i \in DOMAIN ts |->
       [makes |-> <<ts[i], p>>,
        gives |-> Part(ts[i], IF p = "table" THEN {"table"} \cup Made(ts[i]) ELSE {p}),
        needs |-> Part(ts[i], IF p = "table" THEN {} ELSE {"table"} \cup columns)]]
Make(ts) == Each(ts, "table", {})

InitSql ==
       Make(<<"users", "globals", "sequences", "customer">>) \o Each(<<"customer">>, "phone", {})
    \o Make(Tests \o TestItems \o Metal \o Photo \o CertItems)
    \o Make(<<"credit_history">>) \o Each(<<"credit_history">>, "once", {})
    \o Make(<<"weight_loss_history", "receipts", "cash_register">>)
    \o Each(Docs, "by_status", {}) \o Each(Books, "by_customer", {})
    \o Each(<<"cash_register">>, "by_date", {})
    \o Each(<<"customer", "globals", "users">> \o Tests \o Items, "stamp", {})
    \o Make(<<"audit_logs">>) \o Each(<<"audit_logs">>, "by_entity", {})
    \o Make(<<"idempotency_keys">>) \o Each(<<"idempotency_keys">>, "by_expiry", {})
    \o Each(Tests, "by_customer", {}) \o Each(Tests, "by_day", {})
    \o Each(Metal \o Photo, "by_number", {}) \o Each(Metal \o Photo, "by_day", {})
    \o Each(Metal, "by_customer", {})
    \o Each(Metal, "by_hash", {"snapshot"})
    \o Each(Items, "by_parent", {})
    \o Each(Books, "by_day", {}) \o Each(<<"audit_logs">>, "by_action", {})
    \o Each(<<"users">>, "by_role", {})
    \o Each(Docs \o <<"customer">>, "bump", {})

PostInit ==
       Each(Metal, "weights", {}) \o Each(Tests, "completion", {})
    \o Each(CertItems, "worth", {}) \o Each(<<"photo_certificate_item">>, "kt", {})
    \o Each(<<"audit_logs">>, "request", {})
    \o Each(<<"credit_history">>, "reference", {}) \o Each(<<"weight_loss_history">>, "payment", {})
    \o Each(Docs, "snapshot", {})
    \o Each(Tests \o Metal, "tax", {}) \o Each(Metal, "dates", {})
    \o Each(Metal \o Photo, "completion", {}) \o Each(TestItems, "required", {})
    \o Each(<<"globals">>, "seeds", {})
    \o Each(Metal, "one_bill", {})
    \o Make(<<"request_log">>) \o Each(<<"audit_logs">>, "by_request", {"request"})

MigrateIdempotencyKeys == Make(<<"idempotency_keys">>) \o Each(<<"idempotency_keys">>, "by_expiry", {})

MigrateVersionColumns == Each(Docs \o <<"customer">>, "version", {}) \o Each(Docs \o <<"customer">>, "bump", {})

MigrateIndexes ==
       Each(Tests, "by_customer", {}) \o Each(Tests, "by_number", {}) \o Each(Tests, "by_day", {})
    \o Each(Metal \o Photo, "by_number", {}) \o Each(Metal \o Photo, "by_day", {})
    \o Each(Metal \o Photo, "by_hash", {"snapshot"})
    \o Each(<<"credit_history">>, "one_debit", {"reference"})
    \o Each(Items, "by_parent", {}) \o Each(Books, "by_day", {})
    \o Each(Metal \o Photo, "by_completion", {"completion"}) \o Each(Metal, "by_status", {})
    \o Each(<<"audit_logs">>, "by_action", {})
    \o Each(<<"users">>, "by_name", {}) \o Each(<<"users">>, "by_role", {})

\* Triggers: a column they name is looked for when they fire, not when they are made.
MigrateGuards ==
       Each(<<"credit_history">>, "known_reference", {})
    \o Each(Docs, "done_is_final", {}) \o Each(Docs \o CertItems, "done_is_kept", {})

MigrateMissingColumns ==
       Each(<<"credit_history">>, "reference", {}) \o Each(<<"weight_loss_history">>, "payment", {})
    \o Each(Docs, "snapshot", {}) \o Each(Docs, "tax", {})
    \o Each(Metal \o Photo, "completion", {})
    \o Each(TestItems, "required", {}) \o Each(<<"photo_certificate_item">>, "kt", {})

Plan ==
       InitSql \o PostInit
    \o MigrateIdempotencyKeys \o MigrateVersionColumns \o MigrateIndexes \o MigrateGuards \o MigrateMissingColumns

\* Mutant: a trigger of migrations.js is made without looking whether it is there.
ThrowsTwice(s) ==
    \/ s.makes \notin schema /\ ~(s.needs \subseteq schema)
    \/ s.makes \in schema /\ s.makes[2] = "done_is_final"

\* IF NOT EXISTS, columnExists: a statement whose part is there is passed over (an
\* older table stays as it is); another throws when it names what is not there.
Throws(s) == s.makes \notin schema /\ ~(s.needs \subseteq schema)

------------------------------------------------------------------------------
\* A database of an earlier version: every table, some groups of columns not yet
\* there, none of the newer indexes and triggers.  Or none at all.

Older(lack) ==
    UNION {Part(t, ({"table"} \cup Columns(t)) \ lack) :
             t \in Records \cup Range(Books) \cup {"users", "globals", "sequences", "customer",
                                                   "cash_register", "audit_logs"}}

Init ==
    /\ \E lack \in SUBSET Gaps : schema \in {{}, Older(lack)}
    /\ saved = [schema |-> schema, healed |-> FALSE]
    /\ server = "down" /\ pc = 1
    /\ whole = TRUE /\ healed = FALSE

------------------------------------------------------------------------------
\* The server

Start ==
    /\ server \in {"down", "refused"}
    /\ server' = "starting"
    /\ UNCHANGED <<schema, saved, pc, whole, healed>>

\* Statements that find everything there change nothing: the start comes to the
\* next one, if any, that does something or throws.
Remaining == {i \in pc..Len(Plan) : Throws(Plan[i]) \/ Plan[i].makes \notin schema}
Coming    == LET rest == Remaining IN {i \in rest : \A j \in rest : i <= j}

\* One statement of initDb.
Step ==
    /\ server = "starting"
    /\ \E i \in Coming :
          /\ ~Throws(Plan[i])
          /\ schema' = schema \cup Plan[i].gives
          /\ pc' = i + 1
    /\ UNCHANGED <<saved, server, whole, healed>>

\* app.js: the process ends; what was committed stays.
Refuse ==
    /\ server = "starting"
    /\ \E i \in Coming : Throws(Plan[i])
    /\ server' = "refused" /\ pc' = 1
    /\ UNCHANGED <<schema, saved, whole, healed>>

Serve ==
    /\ server = "starting" /\ Remaining = {}
    /\ server' = "up" /\ pc' = 1
    /\ whole' = TRUE /\ healed' = TRUE
    /\ UNCHANGED <<schema, saved>>

\* A stop, or a crash in the middle of a start.
Stop ==
    /\ server \in {"starting", "up"}
    /\ server' = "down" /\ pc' = 1
    /\ UNCHANGED <<schema, saved, whole, healed>>

------------------------------------------------------------------------------
\* Backups, and scripts of the operator.  A start takes well under a second: none is
\* run in the middle of one, though before it, after it and after a crash in it.

\* The evening's backup; the one of Init was made by the version before.
Backup ==
    /\ server = "up"
    /\ saved' = [schema |-> schema, healed |-> healed]
    /\ UNCHANGED <<schema, server, pc, whole, healed>>

Restore ==
    /\ server \in {"down", "refused"}
    /\ schema' = saved.schema /\ healed' = saved.healed
    /\ server' = "down"
    /\ UNCHANGED <<saved, pc, whole>>

\* Mutant: add_constraints_v2.js knows the newest column as well.
NewNewest(v, t) ==
    CASE t = "photo_certificate_item" -> IF v = 1 THEN {"worth"} ELSE {"worth", "kt"}
      [] t \in Range(TestItems)       -> IF v = 1 THEN {} ELSE {"required"}
      [] OTHER                        -> {"worth"}

\* The columns of the tables that add_constraints.js (1) and add_constraints_v2.js
\* (2) make.
New(v, t) ==
    IF t \notin Range(TestItems) THEN {"worth"} ELSE IF v = 1 THEN {} ELSE {"required"}

Has(t) == {p \in Columns(t) : <<t, p>> \in schema}

\* The five tables made anew, without their indexes and triggers.
Rebuilt(v) ==
    {x \in schema : x[1] \notin Range(Items)}
      \cup UNION {Part(t, {"table"} \cup New(v, t)) : t \in Range(Items)}

\* Renaming a table is refused when it is not there, and while some trigger names a
\* column that is not there; the first of five refused rolls the others back.
Renames ==
    /\ \A t \in Range(Items) : <<t, "table">> \in schema
    /\ \A t \in Range(Docs) \cup {"customer"} :
         <<t, "bump">> \in schema => <<t, "version">> \in schema

\* Mutant: the rows are copied with the columns both tables have.
RebuildCommon(v) ==
    /\ server # "starting"
    /\ Renames
    /\ schema' = Rebuilt(v)
    /\ UNCHANGED <<saved, server, pc, whole, healed>>

\* The rows are copied with all columns of the old table: one the new table
\* lacks rolls everything back, and so does a row that breaks a new CHECK.
Rebuild(v) ==
    /\ server # "starting"
    /\ Renames
    /\ \A t \in Range(Items) : Has(t) \subseteq New(v, t)
    /\ schema' = Rebuilt(v)
    /\ UNCHANGED <<saved, server, pc, whole, healed>>

ResetSchema ==
    /\ server # "starting"
    /\ schema' = {x \in schema : x[1] \notin Records}
    /\ whole' = FALSE /\ healed' = FALSE
    /\ UNCHANGED <<saved, server, pc>>

Next ==
    \/ Start \/ Step \/ Refuse \/ Serve \/ Stop
    \/ Backup \/ Restore
    \/ (\E v \in {1, 2} : Rebuild(v)) \/ ResetSchema

Spec == Init /\ [][Next]_vars

------------------------------------------------------------------------------
\* Properties

\* What the services rely on: every column they name, and the guards that the
\* other modules take for granted (finished records, one debit for a certificate,
\* one row for a request, one certificate for a bill number, known references).
Guards ==
    (Range(Docs) \X {"done_is_final", "done_is_kept", "bump"})
      \cup (Range(CertItems) \X {"done_is_kept"})
      \cup (Range(Metal) \X {"one_bill"})
      \cup ({"credit_history"} \X {"one_debit", "once", "known_reference"})
Data   == UNION {Part(s.makes[1], {"table"} \cup Columns(s.makes[1])) : s \in Range(Plan)}
Relied == Guards \cup Data

\* A server that answers requests has the whole schema under it, whatever version
\* the database was of, wherever an earlier start was cut off and whichever script
\* was run before or is run now: initDb heals it, and add_constraints*.js, which
\* would take the triggers of five tables away, roll back on a healed database.
Complete == server = "up" /\ whole => Relied \subseteq schema

\* A database that was once up is never refused again: no statement of a later
\* start fails on what an earlier one, a crash or a script left.
OnceUpAlwaysUp == healed => server # "refused"

\* No table and no column that holds data ever goes, except with reset_schema.js
\* or when a backup is put back.
ColumnsKept == [][ResetSchema \/ Restore \/ schema \cap Data \subseteq schema']_vars

\* migrations.js:371-373: columns that init.sql lacks are added "so existing DBs are
\* healed without requiring a manual DROP/CREATE": no database is refused.
NeverRefused == server # "refused"
==============================================================================
