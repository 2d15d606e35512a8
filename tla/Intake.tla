------------------------------- MODULE Intake -------------------------------
(***************************************************************************)
(* Registering what a customer brings: the windows in which a gold test, a *)
(* silver test or a certificate is entered (NewGoldTestModal.js,           *)
(* NewSilverTestModal.js, NewCertificateModal.js with CertificateForm.js), *)
(* what they share (certificateGuard.js, handleSubmit.js,                  *)
(* useCustomerSearch.js), and the creation on the server, which request_log*)
(* protects from repetitions.                                              *)
(*                                                                         *)
(* A window stays mounted while it is hidden: its request identifier and a *)
(* save under way outlive the closing of the window.  Requests travel on   *)
(* the wire; one that the browser gave up may still be served.             *)
(***************************************************************************)
EXTENDS Integers, FiniteSets

CONSTANTS
    Windows,    \* the windows of a page
    Customers, Known,   \* rows of customer; those that exist at first
    None,       \* no customer
    Items,      \* items that can be listed
    MaxFills,   \* bound of the runs: how often a window is opened
    MaxPresses  \* bound of the runs: how often Save is pressed

\* One window serves the three kinds of certificates.
Test == {"GT", "ST"}
Kind(w) == IF w = "certificate" THEN {"GC", "SC", "PC"} ELSE {w}

ASSUME IntakeAssumption ==
    /\ Windows \subseteq Test \cup {"certificate"}
    /\ Known \subseteq Customers /\ None \notin Customers
    /\ IsFiniteSet(Items)
    /\ MaxFills \in Nat /\ MaxPresses \in Nat

VARIABLES
    customers,  \* those that exist
    rows,       \* the tests and certificates created
    logged,     \* request_log
    wire,       \* requests on their way to the server
    window,     \* per window: its form and its handlers under way
    active,     \* activeKeys of certificateGuard
    told,       \* successes shown to the clerk
    fills, presses  \* counters

vars == <<customers, rows, logged, wire, window, active, told, fills, presses>>

\* What was entered.  fill and chosen are for the properties: the filling of a
\* form, and the customer the clerk asked for last in it.
Entry == [win : Windows, fill : Nat, kind : Test \cup Kind("certificate"), cust : Customers \cup {None},
          chosen : Customers \cup {None}, items : SUBSET Items]

Nothing(w, k) == [win |-> w, fill |-> 0, kind |-> k, cust |-> None, chosen |-> None, items |-> {}]
Unused(w)  == Nothing(w, CHOOSE k \in Kind(w) : TRUE)

\* req: submitReqRef, 0 if empty.  stage: "sent": the request is under way;
\* "done" and "failed": how it ended; "reload": the lists are being loaded.
\* doubt, raced are for the properties: a request under req was given up and may
\* have been served; the clerk chose while a new customer was being saved.
Window == [open : BOOLEAN, now : Entry, req : Nat, sent : Entry,
           stage : {"idle", "sent", "done", "failed", "reload"},
           adding : Customers \cup {None}, doubt : BOOLEAN, raced : BOOLEAN]

TypeOK ==
    /\ customers \in SUBSET Customers
    /\ rows \in SUBSET [n : Nat, of : Entry, raced : BOOLEAN]
    /\ logged \in SUBSET Nat
    /\ wire \in SUBSET [req : Nat, of : Entry, raced : BOOLEAN]
    /\ window \in [Windows -> Window]
    /\ active \in SUBSET ((UNION {Kind(w) : w \in Windows}) \X Customers)
    /\ told \in SUBSET [of : Entry, doubt : BOOLEAN]
    /\ fills \in Nat /\ presses \in Nat
    /\ \A r \in rows : r.of.cust # None /\ r.of.items # {}

Blank(w) == [open |-> FALSE, now |-> Unused(w), req |-> 0, sent |-> Unused(w), stage |-> "idle",
             adding |-> None, doubt |-> FALSE, raced |-> FALSE]

Init ==
    /\ customers = Known
    /\ rows = {} /\ logged = {} /\ wire = {} /\ active = {} /\ told = {}
    /\ window = [w \in Windows |-> Blank(w)]
    /\ fills = 0 /\ presses = 0

server == <<customers, rows, logged>>

------------------------------------------------------------------------------
\* The form

\* A window covers the page.  resetForm empties the form whenever it is shown;
\* submitReqRef is not touched.
Open(w, k) ==
    /\ \A v \in Windows : ~window[v].open
    /\ fills < MaxFills
    /\ fills' = fills + 1
    /\ window' = [window EXCEPT ![w].open = TRUE, ![w].raced = window[w].adding # None,
                    ![w].now = [Nothing(w, k) EXCEPT !.fill = fills + 1]]
    /\ UNCHANGED <<server, wire, active, told, presses>>

\* The x of the header works at all times, Cancel while nothing is sent.  What a
\* hidden form holds is not shown again.
Hide(w) ==
    /\ window[w].open
    /\ window' = [window EXCEPT ![w].open = FALSE, ![w].now = Unused(w)]
    /\ UNCHANGED <<server, wire, active, told, fills, presses>>

\* Another page is opened: the window is unmounted.
Leave(w) ==
    /\ window[w].stage = "idle" /\ window[w].adding = None
    /\ window' = [window EXCEPT ![w] = Blank(w)]
    /\ UNCHANGED <<server, wire, active, told, fills, presses>>

\* The form is given the entry e by the clerk.
Enters(w, e) ==
    /\ window[w].open
    /\ window' = [window EXCEPT ![w].now = e]
    /\ UNCHANGED <<server, wire, active, told, fills, presses>>

\* handleCustomerSelect
Choose(w, c) ==
    /\ window[w].open /\ c \in customers
    /\ window' = [window EXCEPT ![w].now.cust = c, ![w].now.chosen = c,
                    ![w].raced = @ \/ window[w].adding # None]
    /\ UNCHANGED <<server, wire, active, told, fills, presses>>

\* What an item must be, and that a test has at most twenty, is left out.
AddSample(w, i) ==
    Enters(w, [window[w].now EXCEPT !.items = @ \cup {i}])

RemoveSample(w, i) ==
    /\ i \in window[w].now.items
    /\ Enters(w, [window[w].now EXCEPT !.items = @ \ {i}])

\* saveNewCustomer, NewCustomerModal: the customer is created, then the list is
\* loaded, then the customer is selected, whatever was selected meanwhile.
SaveNewCustomer(w, c) ==
    /\ window[w].open /\ window[w].adding = None
    /\ c \notin customers
    /\ customers' = customers \cup {c}
    /\ window' = [window EXCEPT ![w].adding = c, ![w].now.chosen = c]
    /\ UNCHANGED <<rows, logged, wire, active, told, fills, presses>>

\* Mutant: the new customer is listed, not selected.
NewCustomerListed(w) ==
    /\ window[w].adding # None
    /\ window' = [window EXCEPT ![w].adding = None]
    /\ UNCHANGED <<server, wire, active, told, fills, presses>>

NewCustomerComes(w) ==
    /\ window[w].adding # None
    /\ window' = [window EXCEPT ![w].adding = None,
                    ![w].now.cust = IF window[w].open THEN window[w].adding ELSE @]
    /\ UNCHANGED <<server, wire, active, told, fills, presses>>

\* The answer is lost, and shown as a failure.  What was chosen before stays.
NewCustomerFails(w) ==
    /\ window[w].adding # None
    /\ window' = [window EXCEPT ![w].adding = None,
                    ![w].now.chosen = IF window[w].raced THEN @ ELSE window[w].now.cust]
    /\ UNCHANGED <<server, wire, active, told, fills, presses>>

------------------------------------------------------------------------------
\* Save

\* Mutant: every press is given an identifier of its own.
PressAnew(w) ==
    LET e == window[w].now IN
    /\ window[w].open /\ window[w].stage = "idle" /\ presses < MaxPresses
    /\ e.cust # None /\ e.items # {}
    /\ <<e.kind, e.cust>> \notin active
    /\ active' = active \cup {<<e.kind, e.cust>>}
    /\ presses' = presses + 1
    /\ window' = [window EXCEPT ![w].stage = "sent", ![w].sent = e, ![w].req = presses + 1]
    /\ wire' = wire \cup {[req |-> window'[w].req, of |-> e, raced |-> window[w].raced \/ window[w].adding # None]}
    /\ UNCHANGED <<server, told, fills>>

\* handleSave, handleCreate: loading disables the button; the guard lets the same
\* kind and customer pass once in 100 ms; an identifier is drawn if there is none.
Press(w) ==
    LET e == window[w].now IN
    /\ window[w].open /\ window[w].stage = "idle" /\ presses < MaxPresses
    /\ e.cust # None /\ e.items # {}
    /\ <<e.kind, e.cust>> \notin active
    /\ active' = active \cup {<<e.kind, e.cust>>}
    /\ presses' = presses + 1
    /\ window' = [window EXCEPT ![w].stage = "sent", ![w].sent = e,
                                ![w].req = IF @ = 0 THEN presses + 1 ELSE @]
    /\ wire' = wire \cup {[req |-> window'[w].req, of |-> e, raced |-> window[w].raced \/ window[w].adding # None]}
    /\ UNCHANGED <<server, told, fills>>

Released(k) ==
    /\ active' = active \ {k}
    /\ UNCHANGED <<server, wire, window, told, fills, presses>>

\* The server answers; nobody listens to the answer of a request that was given up.
Answers(r, how) ==
    LET w == r.of.win IN
    /\ wire' = wire \ {r}
    /\ window' = IF window[w].stage = "sent" /\ window[w].sent = r.of
                    THEN [window EXCEPT ![w].stage = how] ELSE window

\* createTest, createCertificate, photoCertRepo.create: a request that is logged is
\* answered from the log, whatever it asks for; any other creates the rows and is
\* logged with them.
Serve(r) ==
    /\ r \in wire
    /\ IF r.req \in logged
          THEN UNCHANGED rows
          ELSE rows' = rows \cup {[n |-> Cardinality(rows) + 1, of |-> r.of, raced |-> r.raced]}
    /\ logged' = logged \cup {r.req}
    /\ Answers(r, "done")
    /\ UNCHANGED <<customers, active, told, fills, presses>>

\* The customer was switched off meanwhile, or the database is being backed up:
\* nothing is created and nothing is logged.
Refuse(r) ==
    /\ r \in wire /\ r.req \notin logged
    /\ Answers(r, "failed")
    /\ UNCHANGED <<server, active, told, fills, presses>>

\* The browser is told of a failure: the request, or its answer, was lost.  A
\* request it gave up is served later or not at all.
GiveUp(w) ==
    /\ window[w].stage \in {"sent", "done"}
    /\ window' = [window EXCEPT ![w].stage = "failed", ![w].doubt = TRUE]
    /\ UNCHANGED <<server, wire, active, told, fills, presses>>

Drop(r) ==
    /\ r \in wire /\ window[r.of.win].stage # "sent"
    /\ wire' = wire \ {r}
    /\ UNCHANGED <<server, window, active, told, fills, presses>>

\* Mutant: a failure closes the window as well.
FailureCloses(w) ==
    /\ window[w].stage = "failed"
    /\ window' = [window EXCEPT ![w].stage = "idle", ![w].open = FALSE,
                    ![w].now = Unused(w), ![w].sent = Unused(w)]
    /\ UNCHANGED <<server, wire, active, told, fills, presses>>

\* The failure is shown; the form and the identifier stay.
Failure(w) ==
    /\ window[w].stage = "failed"
    /\ window' = [window EXCEPT ![w].stage = "idle", ![w].sent = Unused(w)]
    /\ UNCHANGED <<server, wire, active, told, fills, presses>>

\* The success is shown, with what was entered when Save was pressed.
Success(w) ==
    /\ window[w].stage = "done"
    /\ window' = [window EXCEPT ![w].stage = "reload"]
    /\ told' = told \cup {[of |-> window[w].sent, doubt |-> window[w].doubt]}
    /\ UNCHANGED <<server, wire, active, fills, presses>>

\* Mutant: the identifier is not forgotten.
CloseKeepingId(w) ==
    /\ window[w].stage = "reload"
    /\ window' = [window EXCEPT ![w].stage = "idle", ![w].open = FALSE,
                    ![w].now = Unused(w), ![w].sent = Unused(w), ![w].doubt = FALSE]
    /\ UNCHANGED <<server, wire, active, told, fills, presses>>

\* close: the identifier is forgotten and the window is hidden, even when it was
\* hidden and opened again while the save was under way.
Close(w) ==
    /\ window[w].stage = "reload"
    /\ window' = [window EXCEPT ![w].stage = "idle", ![w].open = FALSE, ![w].req = 0,
                    ![w].now = Unused(w), ![w].sent = Unused(w), ![w].doubt = FALSE]
    /\ UNCHANGED <<server, wire, active, told, fills, presses>>

Next ==
    \/ \E w \in Windows :
          \/ \E k \in Kind(w) : Open(w, k)
          \/ Hide(w) \/ Leave(w)
          \/ \E c \in Customers : Choose(w, c)
          \/ \E i \in Items : AddSample(w, i) \/ RemoveSample(w, i)
          \/ \E c \in Customers : SaveNewCustomer(w, c)
          \/ NewCustomerComes(w) \/ NewCustomerFails(w)
          \/ Press(w) \/ GiveUp(w) \/ Failure(w) \/ Success(w) \/ Close(w)
    \/ \E k \in active : Released(k)
    \/ \E r \in wire : Serve(r) \/ Refuse(r) \/ Drop(r)

Spec == Init /\ [][Next]_vars

------------------------------------------------------------------------------
\* Properties

\* However often Save is pressed on a filled form, whatever answers are lost and
\* whatever is changed in between, one test or certificate comes of it.
CreatedOnce == \A r, s \in rows : r.of.fill = s.of.fill => r = s

\* A success is shown for what was created as it was entered, unless an earlier
\* request under the same identifier was given up: its answer may be replayed.
ToldIsCreated == \A t \in told : t.doubt \/ \E r \in rows : r.of = t.of

\* What is created is for the customer the clerk chose last in that filling of the
\* form, unless another was chosen while a new customer was being saved.
ForTheChosen == \A r \in rows : r.raced \/ r.of.cust = r.of.chosen

\* The program closes a form on the clerk only after the success of what was last
\* sent from it was shown.
ClosedWhenTold ==
    [][\A w \in Windows :
          (window[w].open /\ ~window'[w].open /\ window'[w].stage # window[w].stage)
             => \E t \in told : t.of = window[w].sent]_vars

\* What the success says, without the exception ("Gold Test created").
ToldIsEntered == \A t \in told : \E r \in rows : r.of = t.of
=============================================================================
