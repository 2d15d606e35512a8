------------------------------ MODULE ItemPage ------------------------------
(***************************************************************************)
(* The page on which a technician enters readings test by test             *)
(* (ItemMasterPage.jsx), and the drafts it saves (testService.js,          *)
(* saveTestDraft).  Lists, details, saves and the reload after a save are  *)
(* requests of their own, and nothing on the page waits for them: answers  *)
(* come in any order, also for a metal or a test that was left.            *)
(*                                                                         *)
(* A reading is the number of the act that entered it, so a later one is   *)
(* greater.  A save carries an identifier, X-Request-Id, and a draft whose *)
(* identifier is in request_log is answered without being stored (db.js,   *)
(* transaction).  Left out: the previews of weights, the search and the    *)
(* pages of the list, which ask the same question again.                   *)
(***************************************************************************)
EXTENDS Integers

CONSTANTS
    Tests, Gold,    \* tests; the gold ones among them
    NoTest,         \* no test is selected
    Rows,           \* the items of a test
    MaxActs         \* bound of the runs: what people do

VARIABLES
    stored,     \* the readings in the tables
    closed,     \* tests that are DONE
    logged,     \* identifiers in request_log
    page,       \* what the page shows, and its save under way
    lists,      \* lists asked for
    details,    \* tests asked for
    wire,       \* saves on their way to the server
    typed,      \* for the properties: readings entered on the page and not given up
    written,    \* for the properties: readings that reached the tables
    acts        \* counter

vars == <<stored, closed, logged, page, lists, details, wire, typed, written, acts>>

Metal(t) == IF t \in Gold THEN "gold" ELSE "silver"
Metals   == {"gold", "silver"}
Samples  == Tests \X Rows
Of(t)    == {t} \X Rows

\* items: the readings of a save, 0 for those it does not send.  no: the act that
\* sent it; key: its identifier, which is the act that sent it first.
Save == [test : Tests \cup {NoTest}, via : Metals, items : [Samples -> Nat], no : Nat, key : Nat]

\* rows holds the readings of the test that is shown, 0 elsewhere.  stage: "sent":
\* the save is under way; "done" and "failed": how it ended; "reload": the test is
\* being loaded again.  key is saveReqIdRef, 0 when no save has used it.  givenup
\* is for the properties: saves whose answer will not be heard.
Page == [metal : Metals, listed : Metals \cup {"none"}, sel : Tests \cup {NoTest}, readonly : BOOLEAN,
         rows : [Samples -> Nat], dirty : SUBSET Samples, loading : BOOLEAN,
         stage : {"idle", "sent", "done", "failed", "reload"}, sent : Save,
         key : Nat, givenup : SUBSET Save]

TypeOK ==
    /\ stored \in [Samples -> Nat]
    /\ closed \in SUBSET Tests
    /\ logged \in SUBSET Nat
    /\ page \in Page
    /\ lists \in SUBSET Metals
    /\ details \in SUBSET [test : Tests, via : Metals]
    /\ wire \in SUBSET Save
    /\ typed \in SUBSET [at : Samples, reading : Nat, late : BOOLEAN]
    /\ written \in SUBSET Nat
    /\ acts \in 0..MaxActs

Empty == [s \in Samples |-> 0]
NoSave == [test |-> NoTest, via |-> "gold", items |-> Empty, no |-> 0, key |-> 0]
Fresh == [metal |-> "gold", listed |-> "none", sel |-> NoTest, readonly |-> FALSE, rows |-> Empty,
          dirty |-> {}, loading |-> FALSE, stage |-> "idle", sent |-> NoSave,
          key |-> 0, givenup |-> {}]

Init ==
    /\ stored = Empty /\ closed = {} /\ logged = {}
    /\ page = Fresh
    /\ lists = {"gold"} /\ details = {} /\ wire = {}
    /\ typed = {} /\ written = {}
    /\ acts = 0

Act == acts < MaxActs /\ acts' = acts + 1

server == <<stored, closed, logged, written>>

\* setSelectedTest and setRows, with what an answer brings.
Showing(p, t) ==
    [p EXCEPT !.sel = t, !.readonly = t \in closed,
              !.rows = [s \in Samples |-> IF s \in Of(t) THEN stored[s] ELSE 0]]

------------------------------------------------------------------------------
\* Choosing a test

\* The page is opened (again): what was on it is gone, saves on their way are not.
Enter ==
    /\ Act
    /\ page' = [Fresh EXCEPT !.givenup = wire]
    /\ lists' = {"gold"} /\ details' = {} /\ typed' = {}
    /\ UNCHANGED <<server, wire>>

\* setMetal with the effect that follows: the selection is cleared, what is being
\* saved or loaded is not, and the identifier is kept.
Switch(m) ==
    /\ page.metal # m
    /\ Act
    /\ page' = [page EXCEPT !.metal = m, !.sel = NoTest, !.rows = Empty, !.dirty = {}]
    /\ lists' = lists \cup {m} /\ typed' = {}
    /\ UNCHANGED <<server, details, wire>>

\* fetchTests
ListComes(m) ==
    /\ m \in lists
    /\ lists' = lists \ {m}
    /\ page' = [page EXCEPT !.listed = m]
    /\ UNCHANGED <<server, details, wire, typed, acts>>

ListFails(m) ==
    /\ m \in lists
    /\ lists' = lists \ {m}
    /\ UNCHANGED <<server, page, details, wire, typed, acts>>

\* handleSelectTest: a test of the list, asked for under the metal that is set.
Select(t) ==
    /\ Metal(t) = page.listed /\ page.sel # t
    /\ Act
    /\ page' = [page EXCEPT !.sel = NoTest, !.rows = Empty, !.dirty = {}, !.loading = TRUE,
                            !.key = 0]
    /\ details' = details \cup {[test |-> t, via |-> page.metal]}
    /\ typed' = {}
    /\ UNCHANGED <<server, lists, wire>>

\* A test is shown whenever its answer comes; there is none under another metal.
DetailComes(d) ==
    /\ d \in details
    /\ details' = details \ {d}
    /\ page' = [IF d.via = Metal(d.test) THEN Showing(page, d.test) ELSE page EXCEPT !.loading = FALSE]
    /\ UNCHANGED <<server, lists, wire, typed, acts>>

DetailFails(d) ==
    /\ d \in details
    /\ details' = details \ {d}
    /\ page' = [page EXCEPT !.loading = FALSE]
    /\ UNCHANGED <<server, lists, wire, typed, acts>>

------------------------------------------------------------------------------
\* Entering and saving

Editable == page.sel # NoTest /\ ~page.readonly /\ ~page.loading

\* The identifier of the next save was sent before, by a save that may be served.
Spent == \E g \in page.givenup : g.key = page.key

\* handleFieldChange
Type(s) ==
    /\ Editable /\ s \in Of(page.sel)
    /\ Act
    /\ page' = [page EXCEPT !.rows[s] = acts + 1, !.dirty = @ \cup {s}]
    /\ typed' = {e \in typed : e.at # s} \cup
                {[at |-> s, reading |-> acts + 1, late |-> page.stage # "idle" \/ details # {} \/ Spent]}
    /\ UNCHANGED <<server, lists, details, wire>>

\* handleSave: the rows that were edited are sent, all of them, under the identifier
\* of the save before if that one failed.
Press ==
    LET sending == page.dirty \cap Of(page.sel)
        key == IF page.key = 0 THEN acts + 1 ELSE page.key
        r == [test |-> page.sel, via |-> page.metal,
              items |-> [s \in Samples |-> IF s \in sending THEN page.rows[s] ELSE 0],
              no |-> acts + 1, key |-> key]
    IN
    /\ Editable /\ page.dirty # {} /\ page.stage = "idle"
    /\ Act
    /\ page' = [page EXCEPT !.stage = "sent", !.sent = r, !.key = key]
    /\ wire' = wire \cup {r}
    /\ UNCHANGED <<server, lists, details, typed>>

\* Nobody listens to the answer of a save that was given up.
Answers(r, how) ==
    page' = IF page.stage = "sent" /\ page.sent = r THEN [page EXCEPT !.stage = how] ELSE page

\* saveTestDraft in one transaction, unless the identifier is logged; what is DONE, or
\* of another metal, is refused before.  That a TODO test becomes IN_PROGRESS changes
\* nothing here.
Serve(r) ==
    LET new == r.key \notin logged IN
    /\ r \in wire
    /\ r.via = Metal(r.test) /\ r.test \notin closed
    /\ wire' = wire \ {r}
    /\ logged' = logged \cup {r.key}
    /\ stored' = [s \in Samples |-> IF new /\ r.items[s] # 0 THEN r.items[s] ELSE stored[s]]
    /\ written' = IF new THEN written \cup {r.items[s] : s \in Samples} ELSE written
    /\ Answers(r, "done")
    /\ UNCHANGED <<closed, lists, details, typed, acts>>

\* Mutant: the log is written before the transaction, and keeps what was refused.
RefuseLogged(r) ==
    /\ r \in wire
    /\ wire' = wire \ {r}
    /\ logged' = logged \cup {r.key}
    /\ Answers(r, "failed")
    /\ UNCHANGED <<stored, closed, written, lists, details, typed, acts>>

\* Also when a reading is refused (_validateSaveResults), or during a backup; the
\* identifier is not logged.
Refuse(r) ==
    /\ r \in wire
    /\ wire' = wire \ {r}
    /\ Answers(r, "failed")
    /\ UNCHANGED <<server, lists, details, typed, acts>>

\* The request, or its answer, is lost.
GiveUp ==
    /\ page.stage \in {"sent", "done"}
    /\ page' = [page EXCEPT !.stage = "failed", !.givenup = @ \cup {page.sent}]
    /\ UNCHANGED <<server, lists, details, wire, typed, acts>>

Drop(r) ==
    /\ r \in wire /\ ~(page.stage = "sent" /\ page.sent = r)
    /\ wire' = wire \ {r}
    /\ UNCHANGED <<server, page, lists, details, typed, acts>>

\* The failure is shown; the marks and the identifier stay.
Failure ==
    /\ page.stage = "failed"
    /\ page' = [page EXCEPT !.stage = "idle", !.sent = NoSave]
    /\ UNCHANGED <<server, lists, details, wire, typed, acts>>

\* Mutant: the identifier is kept after a success as well.
SuccessKeepsKey ==
    /\ page.stage = "done"
    /\ page' = [page EXCEPT !.stage = "reload", !.dirty = {}]
    /\ UNCHANGED <<server, lists, details, wire, typed, acts>>

\* 'Draft saved' is shown and every mark is cleared, those of what was entered
\* meanwhile too; the identifier is replaced, the test asked for again.
Success ==
    /\ page.stage = "done"
    /\ page' = [page EXCEPT !.stage = "reload", !.dirty = {}, !.key = 0]
    /\ UNCHANGED <<server, lists, details, wire, typed, acts>>

\* The test that was saved is shown, whatever was selected since.
Reload ==
    /\ page.stage = "reload"
    /\ page' = [Showing(page, page.sent.test) EXCEPT !.stage = "idle", !.sent = NoSave]
    /\ UNCHANGED <<server, lists, details, wire, typed, acts>>

\* 'Save failed' is shown, though it was saved.
ReloadFails ==
    /\ page.stage = "reload"
    /\ page' = [page EXCEPT !.stage = "idle", !.sent = NoSave]
    /\ UNCHANGED <<server, lists, details, wire, typed, acts>>

------------------------------------------------------------------------------
\* Other pages

\* The board saves a reading of its own, or closes the test.
OtherSaves(s) ==
    /\ s[1] \notin closed
    /\ Act
    /\ stored' = [stored EXCEPT ![s] = acts + 1]
    /\ UNCHANGED <<closed, logged, page, lists, details, wire, typed, written>>

OtherCloses(t) ==
    /\ t \notin closed
    /\ Act
    /\ closed' = closed \cup {t}
    /\ UNCHANGED <<stored, logged, page, lists, details, wire, typed, written>>

Next ==
    \/ \E m \in Metals : Switch(m) \/ ListComes(m) \/ ListFails(m)
    \/ \E t \in Tests : Select(t) \/ OtherCloses(t)
    \/ \E d \in details : DetailComes(d) \/ DetailFails(d)
    \/ \E s \in Samples : Type(s) \/ OtherSaves(s)
    \/ \E r \in wire : Serve(r) \/ Refuse(r) \/ Drop(r)
    \/ Press \/ GiveUp \/ Failure \/ Success \/ Reload \/ ReloadFails
    \/ Enter

Spec == Init /\ [][Next]_vars

------------------------------------------------------------------------------
\* Properties

\* When a draft is reported as saved, the tables hold every reading that was sent,
\* or a later one, also when the save is a repetition and answered from the log;
\* unless a save with other readings was given up before, which may be served after
\* this one, or have used up its identifier.
ToldIsSaved ==
    page.stage = "done" =>
        \/ \E g \in page.givenup : g.items # page.sent.items
        \/ \A s \in Samples : stored[s] >= page.sent.items[s]

\* A reading that was entered, and not given up by choosing another test, reached
\* the tables or is on the page and marked to be sent, whatever came or failed in
\* between, unless it was entered while an answer was still on its way, or after a
\* save was given up whose identifier will be used again.
TypedKept ==
    \A e \in typed :
        \/ e.late \/ e.reading \in written
        \/ e.at \in page.dirty /\ page.rows[e.at] = e.reading

\* What 'Draft saved' says (ItemMasterPage.jsx:147): the same as ToldIsSaved without
\* the exception.
DraftIsSaved ==
    page.stage = "done" => \A s \in Samples : stored[s] >= page.sent.items[s]

\* What the marks are for: the same as TypedKept without the exceptions.
NothingTypedIsLost ==
    \A e \in typed :
        e.reading \in written \/ (e.at \in page.dirty /\ page.rows[e.at] = e.reading)
=============================================================================
