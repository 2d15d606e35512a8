------------------------------ MODULE CertItems ------------------------------
(***************************************************************************)
(* The items of one certificate: how they are calculated, numbered, rolled *)
(* up into the certificate's totals and, for a photo certificate, pictured *)
(* (certificateService, photoCertificateRepository, calculationService),   *)
(* with the results window of the front end that fills them in             *)
(* (Phase2Modal): it uploads, saves and moves in requests of their own,    *)
(* any of which may be lost while other desks work on the certificate.     *)
(*                                                                         *)
(* Weights typed are in tenths of a milligram and stored ones in           *)
(* milligrams; a purity is in hundredths of a percent, a rate in rupees    *)
(* and an amount in paise.  A refused request changes nothing and has no   *)
(* action.  Numbers of bills, charges and snapshots are in other modules.  *)
(***************************************************************************)
EXTENDS Integers, Sequences, FiniteSetsExt

CONSTANTS
    Grosses, Tests,     \* weights a desk may type
    Purities, Rates,    \* purities and rates a desk may type
    MaxRows,            \* bound: item rows of the certificate
    MaxFaults           \* bound: requests of the window that are lost

\* Assumed by the modules that give these constants a value.
CertItemsAssumption ==
    /\ Grosses \subseteq Nat /\ Tests \subseteq Nat
    /\ Purities \subseteq Nat /\ Rates \subseteq Nat
    /\ MaxRows \in Nat /\ MaxRows >= 2     \* what a registration may bring (Lists)
    /\ MaxFaults \in Nat

\* What a desk may type for an item.
Typed == [gross : Grosses, test : Tests, purity : Purities, rate : Rates,
          returned : BOOLEAN]

VARIABLES
    cert,       \* the certificate row: kind, status, totals
    rows,       \* its item rows in the order of their registration
    said,       \* the total was written by a payment, not by a roll-up
    dragged,    \* the card was moved to "Tested" without the window
    window,     \* the results window: its step and the rows it was loaded with
    faults      \* requests lost so far

vars == <<cert, rows, said, dragged, window, faults>>

Metal == {"gold", "silver"}
Kinds == Metal \cup {"photo"}
Status == {"none", "TODO", "IN_PROGRESS", "DONE"}

ItemRow == [seq : Nat, gone : BOOLEAN, gross : Nat, test : Nat, net : Nat,
            purity : Nat, fine : Nat, amount : Nat,
            returned : BOOLEAN, photo : BOOLEAN]

TypeOK ==
    /\ cert \in [kind : Kinds, st : Status,
                 total : Nat, net : Nat, fine : Nat]
    /\ rows \in Seq(ItemRow) /\ Len(rows) <= MaxRows
    /\ said \in BOOLEAN /\ dragged \in BOOLEAN
    /\ window \in [step : {"closed", "open", "saving", "moving"}, st : Status,
                   loaded : SUBSET (1..MaxRows), media : SUBSET (1..MaxRows),
                   files : SUBSET (1..MaxRows)]
    /\ faults \in 0..MaxFaults

Closed == [step |-> "closed", st |-> "none", loaded |-> {}, media |-> {}, files |-> {}]

Init ==
    /\ \E k \in Kinds : cert = [kind |-> k, st |-> "none", total |-> 0, net |-> 0, fine |-> 0]
    /\ rows = <<>> /\ said = FALSE /\ dragged = FALSE
    /\ window = Closed /\ faults = 0

------------------------------------------------------------------------------
\* The calculation of one item

\* Decimal.toDecimalPlaces(.., ROUND_HALF_UP) of n / d, for n >= 0.
HalfUp(n, d) == (2 * n + d) \div (2 * d)

Whole == 10000      \* a purity of 100 %

Weighable(in) == in.gross > 0 /\ in.test >= 0 /\ in.test <= in.gross

\* _validateWeights, _validatePurity and the check of the rate.
Accepted(kind, in, needPurity) ==
    /\ Weighable(in) /\ in.purity \in 0..Whole
    /\ kind = "gold" => in.rate >= 0 /\ (needPurity => in.purity > 0)

Net(in)  == HalfUp(in.gross - in.test, 10)
Fine(in) == HalfUp(Net(in) * in.purity, Whole)

\* What _calcGoldItem and _calcSilverItem store: silver has no price, an item
\* handed back has no worth.
Amount(kind, in) ==
    IF kind # "gold" \/ in.returned THEN 0 ELSE HalfUp(Fine(in) * in.rate, 10)

\* An item row.  A photo item is stored as it is sent: net as gross, no worth.
ItemOf(kind, in, seq) ==
    [seq |-> seq, gone |-> FALSE, gross |-> in.gross, test |-> in.test,
     net    |-> IF kind = "photo" THEN HalfUp(in.gross, 10) ELSE Net(in),
     fine   |-> IF kind = "photo" THEN 0 ELSE Fine(in),
     purity |-> in.purity, amount |-> Amount(kind, in),
     returned |-> in.returned, photo |-> FALSE]

------------------------------------------------------------------------------
\* The roll-up

LiveIn(rs) == {i \in DOMAIN rs : ~rs[i].gone}
Live       == LiveIn(rows)

SumOf(rs, f(_)) == MapThenSumSet(LAMBDA i : f(rs[i]), LiveIn(rs))

WorthOf(rs)  == SumOf(rs, LAMBDA r : r.amount)
NetOf(rs)    == SumOf(rs, LAMBDA r : r.net)
FineOf(rs)   == SumOf(rs, LAMBDA r : r.fine)

\* rollupTotals and updateCertificateTotals: silver keeps no fine weight and a
\* photo certificate neither weight.
Totalled(c, rs) ==
    [c EXCEPT !.total = WorthOf(rs),
              !.net   = IF c.kind = "photo" THEN 0 ELSE NetOf(rs),
              !.fine  = IF c.kind = "gold" THEN FineOf(rs) ELSE 0]

\* Every change of the items rolls up, over whatever total was paid.
Stores(rs) ==
    /\ rows' = rs
    /\ cert' = Totalled(cert, rs)
    /\ said' = FALSE

------------------------------------------------------------------------------
\* Registration

ItemsOf(ins) == [i \in DOMAIN ins |-> ItemOf(cert.kind, ins[i], i)]

\* The entry window registers a certificate, with a photo of its first item at most.
Register(ins, picture) ==
    LET rs == IF picture THEN [ItemsOf(ins) EXCEPT ![1].photo = TRUE] ELSE ItemsOf(ins)
    IN
    /\ cert.st = "none"
    /\ picture => cert.kind = "photo"
    /\ \A i \in DOMAIN ins : cert.kind = "photo" \/ Accepted(cert.kind, ins[i], FALSE)
    /\ rows' = rs
    /\ cert' = [Totalled(cert, rs) EXCEPT !.st = "TODO"]
    /\ UNCHANGED <<said, dragged, window, faults>>

FeeAtTest == 5000

\* A completed test issues one for items it has measured, at the fee of its own.
IssueWithTest(ins) ==
    /\ cert.st = "none" /\ cert.kind \in Metal
    /\ \A i \in DOMAIN ins :
         /\ Accepted(cert.kind, ins[i], TRUE)
         /\ ins[i].purity > 0 /\ ins[i].rate = 0 /\ ~ins[i].returned
    /\ rows' = ItemsOf(ins)
    /\ cert' = [Totalled(cert, ItemsOf(ins)) EXCEPT !.st = "IN_PROGRESS",
                                                    !.total = FeeAtTest * Len(ins)]
    /\ said' = TRUE
    /\ UNCHANGED <<dragged, window, faults>>

------------------------------------------------------------------------------
\* The item editor, for gold and silver

\* _assertMutable; the routes know no photo certificate.
Mutable == cert.kind \in Metal /\ cert.st \in {"TODO", "IN_PROGRESS"}

\* addItems numbers on from the count of the items that are left.
NextSeq == Cardinality(Live) + 1

\* Mutant: item_number is unique among the items that are left.
UnusedByLive(n) == \A i \in Live : rows[i].seq # n

\* item_number is UNIQUE over all rows, the removed ones included.
Unused(n) == \A i \in DOMAIN rows : rows[i].seq # n

AddItem(in) ==
    /\ Mutable /\ Len(rows) < MaxRows
    /\ Accepted(cert.kind, in, FALSE)
    /\ Unused(NextSeq)
    /\ Stores(Append(rows, ItemOf(cert.kind, in, NextSeq)))
    /\ UNCHANGED <<dragged, window, faults>>

\* A row written again with what was sent; a rate that is not sent is no rate,
\* since the table has no column for it.
Rewritten(r, in) == [ItemOf(cert.kind, in, r.seq) EXCEPT !.photo = r.photo]

UpdateItem(i, in) ==
    /\ Mutable /\ i \in Live
    /\ Accepted(cert.kind, in, TRUE)
    /\ Stores([rows EXCEPT ![i] = Rewritten(@, in)])
    /\ UNCHANGED <<dragged, window, faults>>

\* Mutant: the totals are left as they were.
RemoveItemAlone(i) ==
    /\ Mutable /\ i \in Live /\ Live # {i}
    /\ rows' = [rows EXCEPT ![i].gone = TRUE]
    /\ UNCHANGED <<cert, said, dragged, window, faults>>

\* The snapshot needs an item, so the last one stays.
RemoveItem(i) ==
    /\ Mutable /\ i \in Live /\ Live # {i}
    /\ Stores([rows EXCEPT ![i].gone = TRUE])
    /\ UNCHANGED <<dragged, window, faults>>

------------------------------------------------------------------------------
\* The results window

OpenWindow ==
    /\ window.step = "closed" /\ cert.st \in {"TODO", "IN_PROGRESS"}
    /\ window' = [step |-> "open", st |-> cert.st, loaded |-> Live,
                  media |-> {i \in Live : rows[i].photo}, files |-> {}]
    /\ UNCHANGED <<cert, rows, said, dragged, faults>>

CloseWindow ==
    /\ window.step = "open"
    /\ window' = Closed
    /\ UNCHANGED <<cert, rows, said, dragged, faults>>

Stopped == [window EXCEPT !.step = "open", !.files = {}]

\* What the window sends of an item: its purity and whether it is handed back.
Result(i, p, R) == [gross |-> rows[i].gross, test |-> rows[i].test, purity |-> p,
                    rate |-> 0, returned |-> i \in R]

Readings == [window.loaded -> Purities]

\* POST /certificates/:id/results accepts these readings of the loaded rows.  One
\* transaction: a row that was removed since, or a gold item without a purity,
\* refuses them all.  A photo certificate takes them while it is TODO and stores
\* the purity alone.
Takes(readings, R) ==
    \/ /\ Mutable /\ window.loaded \subseteq Live
       /\ \A i \in window.loaded : Accepted(cert.kind, Result(i, readings[i], R), TRUE)
    \/ /\ cert.kind = "photo" /\ cert.st = "TODO"

Measured(readings, R) ==
    [i \in DOMAIN rows |->
       IF i \notin window.loaded THEN rows[i]
       ELSE IF cert.kind = "photo" THEN [rows[i] EXCEPT !.purity = readings[i]]
       ELSE Rewritten(rows[i], Result(i, readings[i], R))]

\* The request is answered and the window goes on, or its answer is lost and the
\* window stops with an error.
Then(next) ==
    \/ window' = next /\ UNCHANGED faults
    \/ faults < MaxFaults /\ window' = Stopped /\ faults' = faults + 1

SaveDraft(readings, R) ==
    /\ window.step = "open" /\ Takes(readings, R)
    /\ Stores(Measured(readings, R))
    /\ UNCHANGED <<dragged, window, faults>>

\* "Submit to Tested": validate() asks for every photo before anything is sent.
Submit(files) ==
    /\ window.step = "open" /\ window.st = "TODO"
    /\ files \subseteq window.loaded
    /\ files # {} => cert.kind = "photo"
    /\ cert.kind = "photo" => files \cup window.media = window.loaded
    /\ window' = [window EXCEPT !.step = "saving", !.files = files]
    /\ UNCHANGED <<cert, rows, said, dragged, faults>>

\* One request per photo.
Upload(i) ==
    /\ window.step = "saving" /\ i \in window.files
    /\ cert.st = "TODO"
    /\ Stores([rows EXCEPT ![i].photo = TRUE])
    /\ Then([window EXCEPT !.files = @ \ {i}])
    /\ UNCHANGED dragged

\* validate(): what is not handed back has a purity.
Valid(readings, R) == \A i \in window.loaded : i \in R \/ readings[i] > 0

\* The readings, with the payment: the amount is not asked for yet and sent as 0.
Save(readings, R) ==
    /\ window.step = "saving" /\ window.files = {}
    /\ Valid(readings, R) /\ Takes(readings, R)
    /\ rows' = Measured(readings, R)
    /\ cert' = [Totalled(cert, rows') EXCEPT !.total = 0]
    /\ said' = TRUE
    /\ Then([window EXCEPT !.step = "moving"])
    /\ UNCHANGED dragged

\* PATCH /workflow/:type/:id/status closes the window when it is accepted.
MoveSaved ==
    /\ window.step = "moving" /\ cert.st = "TODO"
    /\ cert' = [cert EXCEPT !.st = "IN_PROGRESS"]
    /\ Then(Closed)
    /\ UNCHANGED <<rows, said, dragged>>

\* A photo and a move are refused when the certificate has been moved; readings
\* are when the server does not take them: a gold item that is handed back without
\* a purity passes validate() and is refused here.
Refused ==
    \/ window.step = "moving" /\ cert.st # "TODO"
    \/ window.step = "saving" /\ window.files # {} /\ cert.st # "TODO"
    \/ /\ window.step = "saving" /\ window.files = {}
       /\ \E readings \in Readings, R \in SUBSET window.loaded :
            Valid(readings, R) /\ ~Takes(readings, R)

RefusedRequest ==
    /\ Refused
    /\ window' = Stopped
    /\ UNCHANGED <<cert, rows, said, dragged, faults>>

\* Mutant: a photo that does not arrive is passed over.
LostRequestPassed ==
    /\ window.step \in {"saving", "moving"} /\ faults < MaxFaults
    /\ window' = [window EXCEPT !.files = {}]
    /\ faults' = faults + 1
    /\ UNCHANGED <<cert, rows, said, dragged>>

\* A request of the window does not arrive.
LostRequest ==
    /\ window.step \in {"saving", "moving"} /\ faults < MaxFaults
    /\ window' = Stopped
    /\ faults' = faults + 1
    /\ UNCHANGED <<cert, rows, said, dragged>>

------------------------------------------------------------------------------
\* The board

\* A card dropped on "Tested", or moved with others: nothing is asked of a
\* certificate.
MoveCard ==
    /\ cert.st = "TODO"
    /\ cert' = [cert EXCEPT !.st = "IN_PROGRESS"]
    /\ dragged' = TRUE
    /\ UNCHANGED <<rows, said, window, faults>>

Fee(kind) == IF kind = "silver" THEN 10000 ELSE 5000

Pictured == \A i \in Live : rows[i].photo

\* Finalization: rolled up once more, then the fee; a photo certificate is not
\* rolled up, and wants its photos.
Finalize ==
    /\ cert.st = "IN_PROGRESS"
    /\ cert.kind = "photo" => Pictured
    /\ cert' = [(IF cert.kind = "photo" THEN cert ELSE Totalled(cert, rows))
                  EXCEPT !.st = "DONE", !.total = Fee(cert.kind) * Cardinality(Live)]
    /\ said' = TRUE
    /\ UNCHANGED <<rows, dragged, window, faults>>

------------------------------------------------------------------------------
Lists == UNION {[1..n -> Typed] : n \in 1..2}

Next ==
    \/ \E ins \in Lists : \/ \E picture \in BOOLEAN : Register(ins, picture)
                          \/ IssueWithTest(ins)
    \/ \E in \in Typed : AddItem(in) \/ \E i \in Live : UpdateItem(i, in)
    \/ \E i \in Live : RemoveItem(i) \/ Upload(i)
    \/ OpenWindow \/ CloseWindow
    \/ \E files \in SUBSET window.loaded : Submit(files)
    \/ \E readings \in Readings, R \in SUBSET window.loaded :
         SaveDraft(readings, R) \/ Save(readings, R)
    \/ MoveSaved \/ RefusedRequest \/ LostRequest
    \/ MoveCard
    \/ Finalize

Spec == Init /\ [][Next]_vars

------------------------------------------------------------------------------
\* Properties

\* Whatever was added, rewritten, removed or saved, the certificate's weights are
\* the sums over the items it has left, also after its finalization; so is its
\* total, until a payment or the fee is written over it.
TotalsAreSums ==
    /\ cert.kind \in Metal => cert.net = NetOf(rows)
    /\ cert.kind = "gold"  => cert.fine = FineOf(rows)
    /\ ~said => cert.total = WorthOf(rows)

\* A photo certificate that reached "Tested" through the window has all its
\* photos, though they were sent one by one and any request may have failed: it
\* can be closed.  Afterwards no photo can be added any more.
WindowNeverStrands ==
    cert.kind = "photo" /\ cert.st \in {"IN_PROGRESS", "DONE"} /\ ~dragged => Pictured

\* Items are numbered 1, 2, 3, ... in the order they came in, and no number is given
\* twice, though the next is taken from the count of the items that are left: what
\* was printed of a removed item never names another one, and the next number fits
\* until an item is removed.
NumberedOnce == \A i \in DOMAIN rows : rows[i].seq = i

\* certificateService.js: items may be edited in all pre-completed states, so an
\* item can always be added to a certificate that is not DONE.
OpenForItems == Mutable => Unused(NextSeq)
=============================================================================
