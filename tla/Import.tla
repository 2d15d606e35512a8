------------------------------- MODULE Import -------------------------------
(***************************************************************************)
(* migrate_from_python.js: the records of the program used before, read    *)
(* from its own database and inserted into lab.db in one transaction.  The *)
(* script is run by hand before the change-over, while the old program may *)
(* still be in use; a run may be cut off or roll back, and is run again.   *)
(*                                                                         *)
(* A run gives every row an id of its own, here a pair with the number of  *)
(* the run, and keeps numbers from the old ids ('GT-LEGACY-0007-1').       *)
(* INSERT OR IGNORE passes over a row that breaks a UNIQUE or a CHECK of   *)
(* its table; a row whose parent is not there ends the run, as             *)
(* better-sqlite3 switches foreign keys on.  A dry run inserts nothing and *)
(* is left out, as are users and the counters that are seeded.             *)
(***************************************************************************)
EXTENDS Naturals, Sequences

CONSTANTS
    People,     \* customers of the old program
    Tests,      \* its tests, by their old id
    Certs,      \* its certificates of one metal
    Bills,      \* its bill numbers
    NoBill,
    MaxRuns,    \* bound: runs of the script
    MaxEdits    \* bound: what is done in the old program

VARIABLES
    old,        \* the old database: people, docs, and who has entries in the ledger
    lab,        \* lab.db: the rows of customers, docs, items and entries
    run,        \* the run that is on: its section and what it has in hand
    work,       \* lab.db as the open transaction sees it
    runs,       \* runs so far
    edits

vars == <<old, lab, run, work, runs, edits>>

Docs == Tests \cup Certs

\* The JSON list of a document: which of its items fit the checks of the new
\* table.  A text that cannot be parsed is read as no items, with a warning.
Data == {<<TRUE>>, <<FALSE>>, <<TRUE, TRUE>>, <<>>}

\* A document in hand, of which the parent was inserted; none.
Doc(d, data) == [doc |-> d, data |-> data]
NoDoc        == Doc("none", <<>>)

\* A run: the section it has come to, the customers it has given ids to, the
\* documents of the section it has read and not gone through.
Off == [at |-> "off", ids |-> {}, left |-> << >>, doing |-> NoDoc]

Empty == [customers |-> {}, docs |-> {}, items |-> {}, entries |-> {}]

Init ==
    /\ old = [people |-> {}, docs |-> << >>, paid |-> {}]
    /\ lab = Empty /\ work = Empty
    /\ run = Off /\ runs = 0 /\ edits = 0

------------------------------------------------------------------------------
\* The old program, which knows nothing of the script.

Edited(new) ==
    /\ edits < MaxEdits /\ edits' = edits + 1
    /\ old' = new
    /\ UNCHANGED <<lab, run, work, runs>>

OldPerson(p) == p \notin old.people /\ Edited([old EXCEPT !.people = @ \cup {p}])

OldEntry(p) == p \in old.people \ old.paid /\ Edited([old EXCEPT !.paid = @ \cup {p}])

OldDoc(d, p, data, bill) ==
    /\ p \in old.people /\ d \notin DOMAIN old.docs
    /\ bill # NoBill => d \in Certs
    /\ Edited([old EXCEPT !.docs = [x \in DOMAIN @ \cup {d} |->
                  IF x = d THEN [owner |-> p, data |-> data, bill |-> bill] ELSE @[x]]])

OldItems(d, data) ==
    /\ d \in DOMAIN old.docs
    /\ Edited([old EXCEPT !.docs[d].data = data])

------------------------------------------------------------------------------
\* The script.

\* The rows a section finds: SELECT * when it begins.
Read(kind) == [d \in DOMAIN old.docs \cap kind |-> old.docs[d]]

Begin ==
    /\ run.at = "off" /\ runs < MaxRuns
    /\ run' = [Off EXCEPT !.at = "customers"]
    /\ work' = lab /\ runs' = runs + 1
    /\ UNCHANGED <<old, lab, edits>>

\* 1. Customers: each is given an id and inserted.  The table has no UNIQUE but
\* the id, so that no row is passed over.
Customers ==
    /\ run.at = "customers"
    /\ work' = [work EXCEPT !.customers = @ \cup (old.people \X {runs})]
    /\ run' = [run EXCEPT !.at = "tests", !.ids = old.people, !.left = Read(Tests)]
    /\ UNCHANGED <<old, lab, runs, edits>>

\* Mutant: each statement commits by itself.
KeptAsFar == work

\* A run that fails or is cut off leaves the database as it was.
Kept == lab

Ends(db) == lab' = db /\ work' = db /\ run' = Off /\ UNCHANGED <<old, runs, edits>>

\* A row of the section: passed over if its customer has no id; not inserted if
\* its number, or its bill number, is there.
Fresh(d) ==
    /\ \A r \in work.docs : r.doc # d
    /\ run.left[d].bill # NoBill => \A r \in work.docs : r.from.bill # run.left[d].bill

\* The new row, and for the properties the one it was made from.
Row(d) == [doc |-> d, run |-> runs, owner |-> <<run.left[d].owner, runs>>,
           from |-> run.left[d]]

Parent(d) ==
    /\ run.doing = NoDoc /\ d \in DOMAIN run.left
    /\ LET known == run.left[d].owner \in run.ids IN
       /\ run' = [run EXCEPT
              !.left  = [x \in DOMAIN @ \ {d} |-> @[x]],
              !.doing = IF known THEN Doc(d, run.left[d].data) ELSE NoDoc]
       /\ work' = IF known /\ Fresh(d) THEN [work EXCEPT !.docs = @ \cup {Row(d)}] ELSE work
    /\ UNCHANGED <<old, lab, runs, edits>>

\* Its items that fit and whose numbers are free.
Insertable ==
    {n \in DOMAIN run.doing.data :
        run.doing.data[n] /\ \A i \in work.items : <<i.doc, i.n>> # <<run.doing.doc, n>>}

\* The row of this run is there to put them under.
HasParent == \E r \in work.docs : r.doc = run.doing.doc /\ r.run = runs

Items ==
    /\ run.doing # NoDoc
    /\ \/ /\ Insertable = {} \/ HasParent
          /\ work' = [work EXCEPT !.items =
                 @ \cup {[doc |-> run.doing.doc, n |-> n, run |-> runs] : n \in Insertable}]
          /\ run' = [run EXCEPT !.doing = NoDoc]
          /\ UNCHANGED <<old, lab, runs, edits>>
       \/ ~(Insertable = {} \/ HasParent) /\ Ends(Kept)

Section(here, next, rows) ==
    /\ run.at = here /\ run.doing = NoDoc /\ DOMAIN run.left = {}
    /\ run' = [run EXCEPT !.at = next, !.left = rows]
    /\ UNCHANGED <<old, lab, work, runs, edits>>

\* 8. The rows of the ledger, and the commit.
Entries ==
    /\ run.at = "ledger"
    /\ Ends([work EXCEPT !.entries = @ \cup ((run.ids \cap old.paid) \X {runs})])

\* The script is stopped, or the machine.
CutOff == run.at # "off" /\ Ends(Kept)

\* clear_data_keep_users_customers.js, between two runs.
Clear ==
    /\ run.at = "off"
    /\ lab.docs # {}
    /\ Ends([Empty EXCEPT !.customers = lab.customers])

Next ==
    \/ \E p \in People : OldPerson(p) \/ OldEntry(p)
    \/ \E d \in Docs, data \in Data :
          \/ \E p \in People, b \in Bills \cup {NoBill} : OldDoc(d, p, data, b)
          \/ OldItems(d, data)
    \/ Begin \/ Customers
    \/ \E d \in Docs : Parent(d)
    \/ Items
    \/ Section("tests", "certs", Read(Certs))
    \/ Section("certs", "ledger", << >>)
    \/ Entries \/ CutOff \/ Clear

Spec == Init /\ [][Next]_vars

------------------------------------------------------------------------------
TypeOK ==
    /\ old.people \subseteq People /\ old.paid \subseteq old.people
    /\ DOMAIN old.docs \subseteq Docs
    /\ lab.customers \subseteq People \X (1..MaxRuns)
    /\ lab.entries \subseteq lab.customers
    /\ run.at \in {"off", "customers", "tests", "certs", "ledger"}

\* However often the script was run, cut off, refused and run again while the old
\* program went on: a document that came over is there once, under a row of the
\* very customer it had, with all the items it then had that fit the table, and
\* with no others.
ImportedWhole ==
    \A r \in lab.docs :
        /\ \A s \in lab.docs : s.doc = r.doc => s = r
        /\ r.owner[1] = r.from.owner /\ r.owner \in lab.customers
        /\ {<<i.n, i.run>> : i \in {j \in lab.items : j.doc = r.doc}}
              = {n \in DOMAIN r.from.data : r.from.data[n]} \X {r.run}

\* What the script's head says ('skips records that already exist'), and the code
\* does not keep: customers and entries of the ledger come over again.
RerunAddsNothing ==
    \A c, k \in lab.customers : c[1] = k[1] => c = k

\* What its summary says, and the code does not keep: every item it counted came
\* over.  An item that breaks a check is passed over and counted.
CountedIsThere ==
    \A r \in lab.docs : \A n \in DOMAIN r.from.data :
        \E i \in lab.items : i.doc = r.doc /\ i.n = n
=============================================================================
