-------------------------------- MODULE Printing --------------------------------
(***************************************************************************)
(* What comes out of the printer.  The handlers that register, edit and    *)
(* close a document store a sealed copy of its print layout in the same    *)
(* row (print_snapshot); the print route answers from that copy once the   *)
(* document is DONE and from the live rows before, and tells the browser   *)
(* how long it may keep the answer.  The pages of the front end always ask *)
(* for the same address.                                                   *)
(*                                                                         *)
(* The content of a document is abstracted to its status, which the layout *)
(* bears twice, and to the number of times its rows and the name of its    *)
(* customer were changed.  All documents belong to one customer, who may   *)
(* be renamed and switched off.                                            *)
(***************************************************************************)
EXTENDS Integers

CONSTANTS
    Tests, Metals, Photos,  \* documents: tests, gold and silver certificates, photo certificates
    Desks,                  \* browsers
    MaxChanges,             \* bound of the runs: changes of one document
    MaxNames                \* bound of the runs: changes of the name

ASSUME PrintingAssumption ==
    /\ Tests \cap Metals = {} /\ Tests \cap Photos = {} /\ Metals \cap Photos = {}
    /\ MaxChanges \in Nat /\ MaxNames \in Nat

Certs == Metals \cup Photos
Docs  == Tests \cup Certs

Status == {"TODO", "IN_PROGRESS", "DONE"}

Content == [st : Status, doc : Nat, name : Nat]

\* A snapshot column, or the browser's copy of an answer: empty or one content.
Sheet == SUBSET Content

DocRow == [st      : Status \cup {"absent", "erased"},
           changes : Nat,     \* of its rows
           snap    : Sheet]   \* print_snapshot

VARIABLES
    doc,        \* the rows of the documents
    customer,   \* the row of their customer: changes of the name; deletedon IS NULL
    kept        \* what each browser keeps for the print address of each document

vars == <<doc, customer, kept>>

TypeOK ==
    /\ doc \in [Docs -> DocRow]
    /\ customer \in [name : Nat, active : BOOLEAN]
    /\ kept \in [Desks -> [Docs -> Sheet]]

Init ==
    /\ doc = [d \in Docs |-> [st |-> "absent", changes |-> 0, snap |-> {}]]
    /\ customer = [name |-> 0, active |-> TRUE]
    /\ kept = [k \in Desks |-> [d \in Docs |-> {}]]

Live(d) == doc[d].st \notin {"absent", "erased"}

------------------------------------------------------------------------------
\* printService

Row(st, changes, snap) == [st |-> st, changes |-> changes, snap |-> snap]

\* The layout of a document from its row as it is at that moment.  A customer that
\* is switched off is not found: there is no layout then, but an error.
Layout(row) ==
    IF customer.active
    THEN {[st |-> row.st, doc |-> row.changes, name |-> customer.name]} ELSE {}

\* A snapshot is stored with the row it was laid out from.
Sealed(row) == Row(row.st, row.changes, Layout(row))

\* Mutant: the print route lays out a DONE document from its row, too.
AnswerLive(d) == Layout(doc[d])

\* What the print route sends for a document.
Answer(d) == IF doc[d].st = "DONE" THEN doc[d].snap ELSE Layout(doc[d])

Changed(d) == doc[d].changes + 1

\* Mutant: the snapshot is computed before the total is written.
SealBeforeTotal(d) == Layout(doc[d])

\* The snapshot of the row the total was just written to, which is still
\* IN_PROGRESS: the trigger lets nobody update a DONE row.
Seal(d) == Layout(Row("IN_PROGRESS", Changed(d), doc[d].snap))

------------------------------------------------------------------------------
\* Handlers.  One that stores a snapshot is aborted when there is no layout.

MayChange(d) == doc[d].changes < MaxChanges

Create(d) ==
    /\ doc[d].st = "absent" /\ customer.active
    /\ doc' = [doc EXCEPT ![d] = Sealed(Row("TODO", 0, {}))]
    /\ UNCHANGED <<customer, kept>>

\* A draft changes the items of a test and leaves its snapshot as it was.
SaveDraft(t) ==
    /\ doc[t].st \in {"TODO", "IN_PROGRESS"} /\ MayChange(t)
    /\ doc' = [doc EXCEPT ![t] = Row("IN_PROGRESS", Changed(t), doc[t].snap)]
    /\ UNCHANGED <<customer, kept>>

\* Mutant: the items of a closed certificate can be edited.
MutableAnyStatus(c) == doc[c].st # "absent"

\* A photo certificate is frozen from the moment it is started.
Mutable(c) ==
    \/ doc[c].st = "TODO"
    \/ doc[c].st = "IN_PROGRESS" /\ c \notin Photos

\* addItems, updateItem, removeItem, saveResults.
EditCert(c) ==
    /\ Mutable(c) /\ MayChange(c) /\ customer.active
    /\ doc' = [doc EXCEPT ![c] = Sealed(Row(doc[c].st, Changed(c), {}))]
    /\ UNCHANGED <<customer, kept>>

\* A status change short of DONE stores no snapshot.
Start(d) ==
    /\ doc[d].st = "TODO"
    /\ doc' = [doc EXCEPT ![d] = Row("IN_PROGRESS", @.changes, @.snap)]
    /\ UNCHANGED <<customer, kept>>

\* The total, then the snapshot, then one write of the status and the snapshot.
Closed(d) == Row("DONE", Changed(d), Seal(d))

Close(d) ==
    /\ doc[d].st = "IN_PROGRESS" /\ MayChange(d) /\ Seal(d) # {}
    /\ doc' = [doc EXCEPT ![d] = Closed(d)]
    /\ UNCHANGED <<customer, kept>>

\* Completing a test may issue a certificate, and erases the test when all of its
\* items go onto it.
CompleteTest(t, c, all) ==
    /\ doc[t].st = "IN_PROGRESS" /\ MayChange(t) /\ Seal(t) # {}
    /\ doc[c].st = "absent"
    /\ doc' = [doc EXCEPT ![t] = IF all THEN Row("erased", 0, {}) ELSE Closed(t),
                          ![c] = Sealed(Row("IN_PROGRESS", 0, {}))]
    /\ UNCHANGED <<customer, kept>>

\* Converting items of a DONE test takes them off its rows; no snapshot is stored,
\* neither of the test nor of the certificate.
ConvertToCertificate(t, c) ==
    /\ doc[t].st = "DONE" /\ MayChange(t)
    /\ doc[c].st = "absent"
    /\ doc' = [doc EXCEPT ![t] = Row("DONE", Changed(t), doc[t].snap),
                          ![c] = Row("IN_PROGRESS", 0, {})]
    /\ UNCHANGED <<customer, kept>>

Rename ==
    /\ customer.name < MaxNames
    /\ customer' = [customer EXCEPT !.name = @ + 1]
    /\ UNCHANGED <<doc, kept>>

\* toggleStatus looks the customer up among those that are not switched off: it
\* can switch one off and never on again.
SwitchOff ==
    /\ customer.active
    /\ customer' = [customer EXCEPT !.active = FALSE]
    /\ UNCHANGED <<doc, kept>>

------------------------------------------------------------------------------
\* Browsers

\* Every answer of the route goes out with the header of an immutable one: the
\* no-store of a preview is overwritten.
Kept(d) == Answer(d)

\* A desk prints what it kept for the address, and asks the route otherwise.
Paper(k, d) == IF kept[k][d] # {} THEN kept[k][d] ELSE Answer(d)

\* The print page (PrintView, or the window PrintContext opens) asks for the address.
PrintDoc(k, d) ==
    /\ Live(d) /\ kept[k][d] = {} /\ Answer(d) # {}
    /\ kept' = [kept EXCEPT ![k][d] = Kept(d)]
    /\ UNCHANGED <<doc, customer>>

\* The browser makes room, or a year has passed.
Drop(k, d) ==
    /\ kept[k][d] # {}
    /\ kept' = [kept EXCEPT ![k][d] = {}]
    /\ UNCHANGED <<doc, customer>>

Next ==
    \/ \E d \in Docs : Create(d) \/ Start(d) \/ Close(d)
    \/ \E t \in Tests : SaveDraft(t)
    \/ \E c \in Certs : EditCert(c)
    \/ \E t \in Tests, c \in Metals, all \in BOOLEAN : CompleteTest(t, c, all)
    \/ \E t \in Tests, c \in Metals : ConvertToCertificate(t, c)
    \/ Rename
    \/ SwitchOff
    \/ \E k \in Desks, d \in Docs : PrintDoc(k, d) \/ Drop(k, d)

Spec == Init /\ [][Next]_vars

------------------------------------------------------------------------------
\* Properties

\* A DONE certificate is printed as its rows are, its final total included, but for
\* its status: the paper is laid out after the total is written and before the
\* status is, so it tells the status the certificate was closed from, never the one
\* of an earlier snapshot; and no handler changes the rows without the paper later.
CertPaperIsLive ==
    \A c \in Certs : doc[c].st = "DONE" =>
        \E s \in doc[c].snap : s.doc = doc[c].changes /\ s.st = "IN_PROGRESS"

\* A document that is DONE can be printed again for ever, whatever became of its
\* customer, and however it was made: registered, issued, or converted without a
\* snapshot.
DonePrintable ==
    \A d \in Docs : doc[d].st = "DONE" => Answer(d) # {}

\* The route gives one answer for a DONE document: no rename, no conversion of the
\* items of a test, nothing changes it.
OneAnswer ==
    [][\A d \in Docs : doc[d].st = "DONE" => Answer(d)' = Answer(d)]_vars

\* printRoutes: previews are not cached, DONE snapshots are immutable, so what is
\* printed of a DONE document is its sealed snapshot.
PrintIsFinal ==
    \A k \in Desks, d \in Docs : doc[d].st = "DONE" => Paper(k, d) = doc[d].snap

\* printService.js:273-275: snapshots from before the finalization must not be treated
\* as canonical output, so the paper of a DONE document bears the status DONE.
PaperTellsStatus ==
    \A d \in Docs : doc[d].st = "DONE" => \A s \in doc[d].snap : s.st = "DONE"
=============================================================================
