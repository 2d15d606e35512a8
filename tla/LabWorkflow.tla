----------------------------- MODULE LabWorkflow -----------------------------
(***************************************************************************)
(* The life of a laboratory test and of a certificate, from registration   *)
(* to the final, charged, immutable record: the HTTP handlers of           *)
(* workflowRoutes, goldTestRoutes, silverTestRoutes, certificateRoutes and *)
(* auditRoutes, with the services they call.                               *)
(*                                                                         *)
(* better-sqlite3 is synchronous and the server is one Node process, so a  *)
(* handler is one step; the exception is the handlers of workflowService,  *)
(* which commit a transaction and store an idempotency key in a second     *)
(* commit: the process may crash in between (Respond, Crash).              *)
(*                                                                         *)
(* A request identifier (X-Request-Id) in Requests is one a client keeps   *)
(* and may deliver again; Fresh stands for the one-shot identifiers the    *)
(* front end's interceptor generates.  A rejected request changes no row   *)
(* and is a stuttering step.                                               *)
(***************************************************************************)
EXTENDS Integers, FiniteSets

CONSTANTS
    Tests, Certs,       \* row identifiers of the *_test and *_certificate tables
    Samples,            \* rows of the item tables, identified by their origin
    Requests,           \* identifiers a client delivers repeatedly
    Fresh, NoReq,       \* a one-shot identifier; an empty completion_request_id
    NoCert,             \* "no certificate was issued"
    MetalOf,            \* Tests -> {"gold", "silver"}
    Strict,             \* SYSTEM_MODE = STRICT
    LastmodTriggers     \* update_gt_lastmodified / update_st_lastmodified installed

Docs  == Tests \cup Certs
Ids   == Requests \cup {Fresh}
Metal == {"gold", "silver"}
Kinds == Metal \cup {"photo"}

ASSUME LabAssumption ==
    /\ IsFiniteSet(Samples)
    /\ Tests \cap Certs = {}
    /\ NoCert \notin Docs
    /\ Fresh \notin Requests /\ NoReq \notin Ids
    /\ MetalOf \in [Tests -> Metal]
    /\ Strict \in BOOLEAN /\ LastmodTriggers \in BOOLEAN

VARIABLES
    test,       \* the gold_test and silver_test tables
    cert,       \* the three certificate tables
    registered, \* item rows created so far
    measured,   \* item rows with purity >= 0.01
    returned,   \* item rows handed back untested
    wanted,     \* item rows with certificate_required = 1
    debit,      \* DEBIT rows of credit_history by reference_id: how many, their sum
    logged,     \* request_log
    keys,       \* idempotency_keys
    cmd,        \* what a kept identifier was first used for
    pending,    \* the committed request whose key is not stored yet
    told        \* <<document, status>> facts clients were answered

samples == <<registered, measured, returned, wanted>>
vars    == <<test, cert, samples, debit, logged, keys, cmd, pending, told>>

------------------------------------------------------------------------------
\* Rows.  "absent" is an identifier not used yet, "erased" a deleted row.

TestRow == [st    : {"absent", "TODO", "IN_PROGRESS", "DONE", "erased"},
            bin   : BOOLEAN,
            items : SUBSET Samples,
            claim : Ids \cup {NoReq},
            total : Nat]

CertRow == [st    : {"absent", "TODO", "IN_PROGRESS", "DONE"},
            kind  : Kinds,
            items : SUBSET Samples,
            claim : Ids \cup {NoReq},
            total : Nat]

Command == [op : {"create", "draft", "finalize", "complete", "convert", "delete",
                  "createCert", "items", "patch", "move"},
            on : SUBSET Docs]

Key  == {"move", "finalize"} \X Docs \X Requests
Idle == [op |-> "idle", doc |-> NoReq, id |-> NoReq]

NoCommand == [op |-> "none", on |-> {}]

TypeOK ==
    /\ test \in [Tests -> TestRow]
    /\ cert \in [Certs -> CertRow]
    /\ registered \in SUBSET Samples
    /\ measured   \in SUBSET Samples
    /\ returned   \in SUBSET Samples
    /\ wanted     \in SUBSET Samples
    /\ debit \in [Docs -> [n : Nat, sum : Nat]]
    /\ logged \in SUBSET Requests
    /\ keys \in SUBSET Key
    /\ cmd \in [Requests -> Command \cup {NoCommand}]
    /\ pending \in [op : {"move", "finalize"}, doc : Docs, id : Ids] \cup {Idle}
    /\ told \in SUBSET (Docs \X {"IN_PROGRESS", "DONE"})

Init ==
    /\ test = [t \in Tests |->
                 [st |-> "absent", bin |-> FALSE, items |-> {}, claim |-> NoReq, total |-> 0]]
    /\ cert = [c \in Certs |->
                 [st |-> "absent", kind |-> "gold", items |-> {}, claim |-> NoReq, total |-> 0]]
    /\ registered = {} /\ measured = {} /\ returned = {} /\ wanted = {}
    /\ debit = [d \in Docs |-> [n |-> 0, sum |-> 0]]
    /\ logged = {} /\ keys = {}
    /\ cmd = [r \in Requests |-> NoCommand]
    /\ pending = Idle
    /\ told = {}

------------------------------------------------------------------------------
\* Request identifiers

\* A client uses a kept identifier for one command only (api.js, the modals).
Uses(r, op, on) ==
    /\ pending = Idle
    /\ r \in Requests => cmd[r] \in {NoCommand, [op |-> op, on |-> on]}
    /\ cmd' = [q \in Requests |-> IF q = r THEN [op |-> op, on |-> on] ELSE cmd[q]]

\* db.transaction: an identifier already in request_log is answered from there
\* and the body does not run; otherwise it is logged in the same transaction.
Logs(r) ==
    /\ r \notin logged
    /\ logged' = logged \cup ({r} \cap Requests)

Status(d) == IF d \in Tests THEN test[d].st ELSE cert[d].st
Live(d)   == /\ Status(d) \notin {"absent", "erased"}
             /\ d \in Tests => ~test[d].bin
Claim(d)  == IF d \in Tests THEN test[d].claim ELSE cert[d].claim

\* completion_request_id is empty or this very request's.
MayClaim(r, d) == Claim(d) = NoReq \/ (r \in Requests /\ Claim(d) = r)

------------------------------------------------------------------------------
\* Registration and measurement

CreateTest(r, t, S, ret) ==
    /\ Uses(r, "create", {}) /\ Logs(r)
    /\ test[t].st = "absent"
    /\ S # {} /\ S \cap registered = {} /\ ret \subseteq S
    /\ test' = [test EXCEPT ![t].st = "TODO", ![t].items = S]
    /\ registered' = registered \cup S
    /\ returned' = returned \cup ret
    /\ UNCHANGED <<cert, measured, wanted, debit, keys, pending, told>>

\* The new purity, returned and certificate_required values of a test's items.
Writes(t, M, R, W) ==
    /\ M \subseteq test[t].items /\ R \subseteq test[t].items /\ W \subseteq test[t].items
    /\ measured' = (measured \ test[t].items) \cup M
    /\ returned' = (returned \ test[t].items) \cup R
    /\ wanted'   = (wanted   \ test[t].items) \cup W

\* Saving a draft moves a TODO test to IN_PROGRESS.
SaveDraft(r, t, M, R, W) ==
    /\ Uses(r, "draft", {t}) /\ Logs(r)
    /\ Live(t) /\ test[t].st # "DONE"
    /\ Writes(t, M, R, W)
    /\ test' = [test EXCEPT ![t].st = "IN_PROGRESS"]
    /\ UNCHANGED <<cert, registered, debit, keys, pending, told>>

\* The recycle bin: the item rows of a deleted test are marked deleted too, and
\* restoring clears the mark of the parent row alone.
DeleteTest(r, t) ==
    /\ Uses(r, "delete", {t}) /\ Logs(r)
    /\ Live(t) /\ test[t].st = "TODO"
    /\ test' = [test EXCEPT ![t].bin = TRUE, ![t].items = {}]
    /\ UNCHANGED <<cert, samples, debit, keys, pending, told>>

RestoreTest(t) ==
    /\ pending = Idle
    /\ test[t].bin
    /\ test' = [test EXCEPT ![t].bin = FALSE]
    /\ UNCHANGED <<cert, samples, debit, logged, keys, cmd, pending, told>>

\* The maintenance timer erases what has been in the bin for 30 days; a trigger
\* forbids erasing a DONE row.
FlushBin(t) ==
    /\ pending = Idle
    /\ test[t].bin /\ test[t].st # "DONE"
    /\ test' = [test EXCEPT ![t].st = "erased", ![t].bin = FALSE]
    /\ UNCHANGED <<cert, samples, debit, logged, keys, cmd, pending, told>>

------------------------------------------------------------------------------
\* Status changes short of DONE

Started(d) ==
    /\ test' = [t \in Tests |-> IF t \in d THEN [test[t] EXCEPT !.st = "IN_PROGRESS"]
                                           ELSE test[t]]
    /\ cert' = [c \in Certs |-> IF c \in d THEN [cert[c] EXCEPT !.st = "IN_PROGRESS"]
                                           ELSE cert[c]]

\* Mutant: the transition table is not consulted.
StartableAnyStatus(d) == Live(d)

Startable(d) == Live(d) /\ Status(d) = "TODO"

\* POST /workflow/move: the key is stored by Respond.
Move(r, d) ==
    /\ Uses(r, "move", {d})
    /\ Startable(d)
    /\ Started({d})
    /\ pending' = [op |-> "move", doc |-> d, id |-> r]
    /\ UNCHANGED <<samples, debit, logged, keys, told>>

\* PATCH .../status and PATCH /workflow/bulk-status: one updateStatus call per
\* item under one request identifier.  A test is updated outside db.transaction;
\* the first certificate logs the identifier, and every later one is answered
\* from request_log without being touched, yet reported as updated.
PatchStatus(r, D, first) ==
    LET ready == {d \in D : Startable(d)}
        certs == ready \cap Certs
    IN
    /\ Uses(r, "patch", D)
    /\ ready # {}
    /\ IF certs = {} \/ r \in logged
         THEN first = NoCert /\ UNCHANGED logged
         ELSE first \in certs /\ Logs(r)
    /\ Started((ready \cap Tests) \cup {first})
    /\ told' = told \cup (ready \X {"IN_PROGRESS"})
    /\ UNCHANGED <<samples, debit, keys, pending>>

------------------------------------------------------------------------------
\* Completing a test

TestFee == 30
CertFeeAtTest == 50
CertFee(kind) == IF kind = "silver" THEN 100 ELSE 50

Charged(book, d, amount) ==
    IF amount = 0 THEN book
    ELSE [book EXCEPT ![d] = [n |-> @.n + 1, sum |-> @.sum + amount]]

CertItems(t, R, W) == (test[t].items \ R) \cap W
FullConvert(t, R, W) == test[t].items # {} /\ CertItems(t, R, W) = test[t].items

\* Mutant: one measured item is enough.
CompleteAnyItem(t, M, R) == test[t].items # {} /\ (test[t].items \ R = {} \/ M \ R # {})

\* Every item not returned has a purity, and there is an item.
Complete(t, M, R) == test[t].items # {} /\ test[t].items \ R \subseteq M

\* The AFTER UPDATE lastmodified trigger updates the row again; on a row that has
\* just become DONE the immutability trigger then aborts the transaction.
DoneWriteAborts(t, R, W) == LastmodTriggers /\ ~FullConvert(t, R, W)

Fee(t) == TestFee * Cardinality(test[t].items)

\* Mutant: the charge is recorded before the full conversion is recognised.
TestBookFirst(t, R, W) == Charged(debit, t, Fee(t))

\* A test that becomes a certificate entirely is not charged itself.
TestBook(t, R, W) == IF FullConvert(t, R, W) THEN debit ELSE Charged(debit, t, Fee(t))

Completed(t, R, W, claim) ==
    IF FullConvert(t, R, W)
      THEN [test[t] EXCEPT !.st = "erased", !.items = {}]
      ELSE [test[t] EXCEPT !.st = "DONE", !.total = Fee(t), !.claim = claim]

\* Mutant: only the items flagged at measurement reach the certificate.
IssuedForWanted(t, S) ==
    [st |-> "IN_PROGRESS", kind |-> MetalOf[t], items |-> S \cap wanted,
     claim |-> NoReq, total |-> 0]

\* The certificate made of items of a test.  Totals are recorded when a document
\* becomes DONE; what the rows hold before is overwritten then.
IssuedFor(t, S) ==
    [st |-> "IN_PROGRESS", kind |-> MetalOf[t], items |-> S, claim |-> NoReq, total |-> 0]

\* testService.completeTest.  If all items are certified the test row is deleted;
\* otherwise it becomes DONE and is charged.  The certificate is charged at once.
CompleteTest(t, M, R, W, c, claim) ==
    LET mine == CertItems(t, R, W)
        book == TestBook(t, R, W)
    IN
    /\ Complete(t, M, R)
    /\ ~DoneWriteAborts(t, R, W)
    /\ Writes(t, M, R, W)
    /\ test' = [test EXCEPT ![t] = Completed(t, R, W, claim)]
    /\ IF mine = {}
         THEN c = NoCert /\ UNCHANGED cert /\ debit' = book
         ELSE /\ c \in Certs /\ cert[c].st = "absent"
              /\ cert' = [cert EXCEPT ![c] = IssuedFor(t, mine)]
              /\ debit' = Charged(book, c, CertFeeAtTest * Cardinality(mine))

\* POST /{gold,silver}-tests/:id/finalize: the client supplies the readings.
FinalizeDirect(r, t, M, R, W, c) ==
    /\ Uses(r, "complete", {t}) /\ Logs(r)
    /\ Live(t) /\ test[t].st # "DONE"
    /\ CompleteTest(t, M, R, W, c, test[t].claim)
    /\ told' = told \cup {<<t, "DONE">>}
    /\ UNCHANGED <<registered, keys, pending>>

\* A repeated direct finalize is answered from request_log before any other check.
ReplayDirect(r, t) ==
    /\ Uses(r, "complete", {t})
    /\ r \in logged
    /\ told' = told \cup {<<t, "DONE">>}
    /\ UNCHANGED <<test, cert, samples, debit, logged, keys, pending>>

\* POST /workflow/finalize of a test: the stored readings are submitted again.
FinalizeTest(r, t, c) ==
    LET items == test[t].items IN
    /\ Uses(r, "finalize", {t}) /\ Logs(r)
    /\ Live(t) /\ test[t].st = "IN_PROGRESS" /\ MayClaim(r, t)
    /\ CompleteTest(t, measured \cap items, returned \cap items, wanted \cap items, c, r)
    /\ pending' = [op |-> "finalize", doc |-> t, id |-> r]
    /\ UNCHANGED <<registered, keys, told>>

------------------------------------------------------------------------------
\* Certificates

\* Staff move items of a DONE test to a new certificate; it is not charged yet.
ConvertToCertificate(r, t, S, c) ==
    /\ Uses(r, "convert", {t}) /\ Logs(r)
    /\ Live(t) /\ test[t].st = "DONE"
    /\ S # {} /\ S \subseteq test[t].items \ returned
    /\ cert[c].st = "absent"
    /\ cert' = [cert EXCEPT ![c] = IssuedFor(t, S)]
    /\ test' = [test EXCEPT ![t].items = @ \ S]
    /\ UNCHANGED <<samples, debit, keys, pending, told>>

CreateCertificate(r, c, kind, S) ==
    /\ Uses(r, "createCert", {}) /\ Logs(r)
    /\ cert[c].st = "absent"
    /\ S # {} /\ S \cap registered = {}
    /\ cert' = [cert EXCEPT ![c] = [st |-> "TODO", kind |-> kind, items |-> S,
                                    claim |-> NoReq, total |-> 0]]
    /\ registered' = registered \cup S
    /\ UNCHANGED <<test, measured, returned, wanted, debit, keys, pending, told>>

\* Mutant: _assertMutable is not called.
MutableCertAnyStatus(c) == Live(c) /\ cert[c].kind \in Metal

\* Items of gold and silver certificates may change until the certificate is DONE.
MutableCert(c) == Live(c) /\ cert[c].kind \in Metal /\ cert[c].st # "DONE"

AddItem(r, c, s) ==
    /\ Uses(r, "items", {c}) /\ Logs(r)
    /\ MutableCert(c) /\ s \notin registered
    /\ cert' = [cert EXCEPT ![c].items = @ \cup {s}]
    /\ registered' = registered \cup {s}
    /\ UNCHANGED <<test, measured, returned, wanted, debit, keys, pending, told>>

\* Mutant: the snapshot of the certificate is not validated when an item goes.
RemoveAnyItem(r, c, s) ==
    /\ Uses(r, "items", {c}) /\ Logs(r)
    /\ MutableCert(c) /\ s \in cert[c].items
    /\ cert' = [cert EXCEPT ![c].items = @ \ {s}]
    /\ UNCHANGED <<test, samples, debit, keys, pending, told>>

\* The snapshot taken after every change has at least one item, or the change is
\* rolled back.
RemoveItem(r, c, s) ==
    /\ Uses(r, "items", {c}) /\ Logs(r)
    /\ MutableCert(c) /\ s \in cert[c].items
    /\ cert[c].items # {s}
    /\ cert' = [cert EXCEPT ![c].items = @ \ {s}]
    /\ UNCHANGED <<test, samples, debit, keys, pending, told>>

FinalFee(c) == CertFee(cert[c].kind) * Cardinality(cert[c].items)

\* Mutant: an earlier charge for the certificate is not looked for.
NeedsChargeAgain(c) == FinalFee(c) > 0

NeedsCharge(c) == FinalFee(c) > 0 /\ debit[c].n = 0

\* ledgerService.recordRevenue in STRICT mode wants the row it charges to be DONE
\* already; the photo repository alone asks it to skip that check.
CrossCheckFails(c) == Strict /\ cert[c].kind # "photo" /\ NeedsCharge(c)

\* Mutant: the completion_request_id is not stamped.
ClosedUnstamped(r, c) == [cert[c] EXCEPT !.st = "DONE", !.total = FinalFee(c)]

Closed(r, c) == [cert[c] EXCEPT !.st = "DONE", !.claim = r, !.total = FinalFee(c)]

FinalizeCert(r, c) ==
    /\ Uses(r, "finalize", {c}) /\ Logs(r)
    /\ Live(c) /\ cert[c].st = "IN_PROGRESS" /\ MayClaim(r, c)
    /\ ~CrossCheckFails(c)
    /\ cert' = [cert EXCEPT ![c] = Closed(r, c)]
    /\ debit' = IF NeedsCharge(c) THEN Charged(debit, c, FinalFee(c)) ELSE debit
    /\ pending' = [op |-> "finalize", doc |-> c, id |-> r]
    /\ UNCHANGED <<test, samples, keys, told>>

------------------------------------------------------------------------------
\* The second commit, replays, crash and retention

ToldBy(op) == IF op = "move" THEN "IN_PROGRESS" ELSE "DONE"

\* saveIdempotencyKey, then the answer to the client.
Respond ==
    /\ pending # Idle
    /\ keys' = IF pending.id \in Requests
                 THEN keys \cup {<<pending.op, pending.doc, pending.id>>} ELSE keys
    /\ told' = told \cup {<<pending.doc, ToldBy(pending.op)>>}
    /\ pending' = Idle
    /\ UNCHANGED <<test, cert, samples, debit, logged, cmd>>

\* The process dies after the commit and before the key is stored.
Crash ==
    /\ pending # Idle
    /\ pending' = Idle
    /\ UNCHANGED <<test, cert, samples, debit, logged, keys, cmd, told>>

KeyHit(op, d, r) == Strict /\ <<op, d, r>> \in keys
Stamped(d, r)    == Live(d) /\ Status(d) = "DONE" /\ Claim(d) = r

ReplayMove(r, d) ==
    /\ Uses(r, "move", {d})
    /\ KeyHit("move", d, r)
    /\ told' = told \cup {<<d, "IN_PROGRESS">>}
    /\ UNCHANGED <<test, cert, samples, debit, logged, keys, pending>>

ReplayFinalize(r, d) ==
    /\ Uses(r, "finalize", {d})
    /\ KeyHit("finalize", d, r) \/ Stamped(d, r)
    /\ told' = told \cup {<<d, "DONE">>}
    /\ UNCHANGED <<test, cert, samples, debit, logged, keys, pending>>

\* The timers of app.js: keys expire after 24 hours, request_log after 30 days.
ExpireKey(k) ==
    /\ pending = Idle /\ k \in keys
    /\ keys' = keys \ {k}
    /\ UNCHANGED <<test, cert, samples, debit, logged, cmd, pending, told>>

PurgeLog(r) ==
    /\ pending = Idle /\ r \in logged
    /\ logged' = logged \ {r}
    /\ UNCHANGED <<test, cert, samples, debit, keys, cmd, pending, told>>

------------------------------------------------------------------------------
TestNext(r, t) ==
    \/ \E S, ret \in SUBSET Samples : CreateTest(r, t, S, ret)
    \/ \E M, R, W \in SUBSET test[t].items : SaveDraft(r, t, M, R, W)
    \/ DeleteTest(r, t)
    \/ \E M, R, W \in SUBSET test[t].items, c \in Certs \cup {NoCert} :
         FinalizeDirect(r, t, M, R, W, c)
    \/ \E c \in Certs \cup {NoCert} : FinalizeTest(r, t, c)
    \/ \E S \in SUBSET Samples, c \in Certs : ConvertToCertificate(r, t, S, c)

CertNext(r, c) ==
    \/ \E kind \in Kinds, S \in SUBSET Samples : CreateCertificate(r, c, kind, S)
    \/ \E s \in Samples : AddItem(r, c, s) \/ RemoveItem(r, c, s)
    \/ FinalizeCert(r, c)

ReplayNext(r, d) ==
    \/ d \in Tests /\ ReplayDirect(r, d)
    \/ ReplayMove(r, d)
    \/ ReplayFinalize(r, d)

Next ==
    \/ \E r \in Ids, t \in Tests : TestNext(r, t)
    \/ \E r \in Ids, c \in Certs : CertNext(r, c)
    \/ \E r \in Ids, d \in Docs : Move(r, d)
    \/ \E r \in Ids, D \in SUBSET Docs, first \in Certs \cup {NoCert} :
         PatchStatus(r, D, first)
    \/ \E r \in Requests, d \in Docs : ReplayNext(r, d)
    \/ \E t \in Tests : RestoreTest(t) \/ FlushBin(t)
    \/ Respond
    \/ Crash
    \/ \E k \in keys : ExpireKey(k)
    \/ \E r \in Requests : PurgeLog(r)

Spec == Init /\ [][Next]_vars

------------------------------------------------------------------------------
\* Properties

\* However often a document is completed, retried, replayed or pre-charged at the
\* completion of its test, credit_history has at most one DEBIT row for it.
ChargedOnce == \A d \in Docs : debit[d].n <= 1

\* A closed record is a charged record: a DONE test has been debited exactly its
\* total, and a DONE certificate has been debited.
DoneIsCharged ==
    /\ \A t \in Tests : test[t].st = "DONE" => debit[t] = [n |-> 1, sum |-> test[t].total]
    /\ \A c \in Certs : cert[c].st = "DONE" => debit[c].n >= 1

\* Nobody pays for work that is not delivered: an open or erased test and a
\* certificate not started yet have no DEBIT row.
OpenIsFree ==
    /\ \A t \in Tests : test[t].st # "DONE" => debit[t].n = 0
    /\ \A c \in Certs : cert[c].st \in {"absent", "TODO"} => debit[c].n = 0

\* The charging rules together, with what an induction needs besides: an entry of
\* credit_history that counts no row sums to nothing.
ChargeInv ==
    /\ TypeOK
    /\ ChargedOnce
    /\ DoneIsCharged
    /\ OpenIsFree
    /\ \A d \in Docs : debit[d].n = 0 => debit[d].sum = 0

\* The items of a DONE test were all measured, those handed back excepted,
\* whichever of the two completion routes was taken and whatever the client sent.
DoneIsMeasured ==
    \A t \in Tests : test[t].st = "DONE" => test[t].items \subseteq measured \cup returned

\* What a client was told stays true: a document answered as DONE is DONE, or is a
\* test that was turned into a certificate entirely.
FinalizeTold ==
    \A d \in Docs : <<d, "DONE">> \in told => Status(d) \in {"DONE", "erased"}

\* An identifier that request_log remembers for a finalize was not consumed in
\* vain: its document is closed, so a 409 or a cached answer never hides work
\* that was not done.
LoggedFinalize ==
    \A r \in logged : cmd[r].op \in {"finalize", "complete"} =>
        \A d \in cmd[r].on : Status(d) \in {"DONE", "erased"}

\* A certificate finalized under a kept identifier bears it, also when the process
\* died before storing the idempotency key: the retry is recognised, not refused.
RetryRecognised ==
    \A r \in logged, c \in Certs :
        cmd[r] = [op |-> "finalize", on |-> {c}] => Stamped(c, r)

\* A sample leaves a live test only into a certificate; the recycle bin is the one
\* other way out.
SampleHandover ==
    [][\A t \in Tests : \A s \in test[t].items \ test'[t].items :
         test'[t].bin \/ \E c \in Certs : s \in cert'[c].items]_vars

\* A DONE record is frozen: no request changes its status, its total, its claim,
\* its items or what was debited for it; a test may only give items away.
DoneFrozen ==
    [][/\ \A t \in Tests : test[t].st = "DONE" =>
            /\ \E S \in SUBSET test[t].items : test'[t] = [test[t] EXCEPT !.items = S]
            /\ debit'[t] = debit[t]
       /\ \A c \in Certs : cert[c].st = "DONE" =>
            cert'[c] = cert[c] /\ debit'[c] = debit[c]]_vars

\* A certificate certifies something: whatever was removed, moved or converted,
\* every certificate lists an item.
CertHasItems == \A c \in Certs : cert[c].st # "absent" => cert[c].items # {}

\* Only a test that nobody started is in the recycle bin.
BinInv == TypeOK /\ \A t \in Tests : test[t].bin => test[t].st = "TODO"

\* The three promises about acknowledgements together, with what an induction needs:
\* a logged identifier is bound to its command, and a finalize whose key is stored
\* or about to be stored has closed its document.
AckInv ==
    /\ TypeOK
    /\ FinalizeTold
    /\ LoggedFinalize
    /\ RetryRecognised
    /\ \A r \in logged : cmd[r] # NoCommand
    /\ pending.op = "finalize" => Status(pending.doc) \in {"DONE", "erased"}
    /\ \A d \in Docs, r \in Requests :
         <<"finalize", d, r>> \in keys => Status(d) \in {"DONE", "erased"}

\* The workflow implements the account of Charging: whatever is retried, replayed,
\* converted, restored or cut short by a crash, a document is closed in the
\* transaction that enters its one positive DEBIT row, or after it, and for good.
Account == INSTANCE Charging WITH
    Advance <- Certs,
    closed  <- {d \in Docs : Status(d) = "DONE"},
    account <- debit

ImplementsCharging == Account!Spec

\* What the documentation promises and the code does not keep.

\* migrations.js: the lastmodified triggers "never fire during a legitimate
\* finalization", so a complete test can be closed.
FinalizeNeverAborts ==
    \A t \in Tests :
        LET items == test[t].items
            M == measured \cap items
            R == returned \cap items
            W == wanted \cap items
        IN Live(t) /\ test[t].st = "IN_PROGRESS" /\ Complete(t, M, R) => ~DoneWriteAborts(t, R, W)

\* certificateService: a certificate is charged when it is moved to DONE; the
\* cross-check of the ledger never forbids that very charge.
CertChargeNeverRefused ==
    \A c \in Certs : Live(c) /\ cert[c].st = "IN_PROGRESS" => ~CrossCheckFails(c)

\* workflowRoutes: bulk-status moves every item it reports as moved.
MoveTold ==
    \A d \in Docs : <<d, "IN_PROGRESS">> \in told => Status(d) # "TODO"

\* certificateService: a certificate is charged its rate for each of its items,
\* the total it shows when it is DONE.
DebitIsTotal ==
    \A c \in Certs : cert[c].st = "DONE" => debit[c].sum = cert[c].total

\* testService: items moved to a certificate live there, so no other certificate
\* lists them.
CertifiedOnce ==
    \A c, d \in Certs : c # d => cert[c].items \cap cert[d].items = {}
=============================================================================
