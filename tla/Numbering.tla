------------------------------ MODULE Numbering ------------------------------
(***************************************************************************)
(* The numbers the laboratory prints on its documents: sequenceService     *)
(* mints them from counters kept in the globals table, inside the          *)
(* transaction that inserts the document.  Tests count from one every day, *)
(* above what the table already holds; certificates count on for ever, one *)
(* counter with GST and one without, shared by the three kinds; gold and   *)
(* silver certificates also take a bill number from counters that are      *)
(* seeded the first time they are used.                                    *)
(*                                                                         *)
(* Nothing in the code makes these four schemes agree except the UNIQUE    *)
(* constraints of the tables: a number already in its table would abort    *)
(* the registration, every time it is retried.                             *)
(***************************************************************************)
EXTENDS Integers, Sequences

CONSTANTS
    DaysPerYear,    \* how many days of the clock a year has
    LastDay,        \* bound: the clock stops there
    MaxNumber,      \* bound: the largest number minted
    MaxCerts,       \* bound: certificates registered
    ClosedWith      \* bound: the GST choices closing forms are sent with

Metal == {"gold", "silver"}
Kinds == Metal \cup {"photo"}

NoSeq  == -1                                  \* the globals row does not exist yet
NoBill == [gst |-> FALSE, yy |-> 0, n |-> 0]  \* gst_bill_number = ''
Open   == {}                                  \* the certificate is not DONE

ASSUME NumberingAssumption ==
    /\ DaysPerYear \in Nat \ {0}
    /\ LastDay \in Nat /\ MaxNumber \in Nat /\ MaxCerts \in Nat
    /\ ClosedWith \subseteq BOOLEAN

VARIABLES
    day,        \* the date of the server clock
    stamped,    \* globals.daily_last_date
    testSeq,    \* globals.GOLD_TEST_SEQ, SILVER_TEST_SEQ
    certSeq,    \* globals.GST_CERT_SEQ (TRUE), NON_GST_CERT_SEQ (FALSE)
    billSeq,    \* globals.GST_BILL_SEQ (TRUE), NON_GST_BILL_SEQ (FALSE)
    tests,      \* auto_number of every row of the test tables, binned rows included
    certs       \* the rows of the certificate tables, oldest first

vars == <<day, stamped, testSeq, certSeq, billSeq, tests, certs>>

TestNumber == [metal : Metal, yy : Nat, n : Nat]
CertNumber == [gst : BOOLEAN, yy : Nat, n : Nat]
CertRow    == [kind : Kinds, auto : CertNumber, bill : CertNumber,
               gst  : {Open, {TRUE}, {FALSE}}]   \* the GST flag it was closed with

TypeOK ==
    /\ day \in Nat /\ stamped \in Nat
    /\ testSeq \in [Metal -> Nat]
    /\ certSeq \in [BOOLEAN -> Nat]
    /\ billSeq \in [BOOLEAN -> Nat \cup {NoSeq}]
    /\ tests \in SUBSET TestNumber
    /\ certs \in Seq(CertRow)

Init ==
    /\ day = 0 /\ stamped = 0
    /\ testSeq = [m \in Metal |-> 0]
    /\ certSeq = [g \in BOOLEAN |-> 0]
    /\ billSeq = [g \in BOOLEAN |-> NoSeq]
    /\ tests = {}
    /\ certs = << >>

------------------------------------------------------------------------------
\* sequenceService

yy == day \div DaysPerYear

\* SELECT MAX(...) of a set of numbers; 0 when there is none.
Highest(S, h) == h \in S \cup {0} /\ \A x \in S : x <= h

Larger(a, b) == IF a < b THEN b ELSE a

CertCount(g) == certSeq[g]

\* The first number minted on a new day restarts the counters of the tests.
TestCount(m) == IF stamped = day THEN testSeq[m] ELSE 0

TestsOfYear(m) == {t.n : t \in {u \in tests : u.metal = m /\ u.yy = yy}}

\* The highest number of a gold or silver certificate, of any year and prefix.
\* Photo certificates are not looked at.
MetalCerts == {certs[i].auto.n : i \in {j \in DOMAIN certs : certs[j].kind \in Metal}}

\* Mutant: the table is not consulted, the counter alone decides.
NextTestFromCounter(m, h) == TestCount(m) + 1

NextTest(m, h) == Larger(TestCount(m), h) + 1

\* Mutant: the number follows the tables alone, which leave the photos out.
NextCertFromTables(g, h) == h + 1

NextCert(g, h) == Larger(CertCount(g), h) + 1

\* Bills of this year; the CAST of an earlier year's bill number is 0.
BillsOfYear == {certs[i].bill.n : i \in {j \in DOMAIN certs : certs[j].bill.yy = yy}}

\* Mutant: the counter follows the tables at every call, not at the first.
NextBillHealed(g, h) == Larger(billSeq[g], h) + 1

\* getNextBillNumber seeds the counter from the bills of both prefixes once.
NextBill(g, h) == (IF billSeq[g] = NoSeq THEN h ELSE billSeq[g]) + 1

\* Every mint stamps the day, and on a new day restarts the counters of the tests.
Stamp == stamped' = day

Restarted == [m \in Metal |-> TestCount(m)]

------------------------------------------------------------------------------
\* Documents

FreeTest(t) == t \notin tests

\* UNIQUE auto_number of each table; unique bill numbers in the gold and in the
\* silver table.
FreeCert(kind, auto, bill) ==
    \A i \in DOMAIN certs : certs[i].kind = kind =>
        certs[i].auto # auto /\ (bill # NoBill => certs[i].bill # bill)

CreateTest(m, h) ==
    LET t == [metal |-> m, yy |-> yy, n |-> NextTest(m, h)] IN
    /\ Highest(TestsOfYear(m), h)
    /\ t.n <= MaxNumber
    /\ FreeTest(t)
    /\ tests' = tests \cup {t}
    /\ testSeq' = [Restarted EXCEPT ![m] = t.n]
    /\ Stamp
    /\ UNCHANGED <<day, certSeq, billSeq, certs>>

\* A test converted entirely, or flushed from the recycle bin, leaves its table.
EraseTest(t) ==
    /\ t \in tests
    /\ tests' = tests \ {t}
    /\ UNCHANGED <<day, stamped, testSeq, certSeq, billSeq, certs>>

\* A gold or silver certificate: registered, or made of the items of a test.
CreateMetalCert(kind, g, h, b) ==
    LET auto == [gst |-> g, yy |-> yy, n |-> NextCert(g, h)]
        bill == [gst |-> g, yy |-> yy, n |-> NextBill(g, b)]
    IN
    /\ kind \in Metal /\ Len(certs) < MaxCerts
    /\ Highest(MetalCerts, h) /\ Highest(BillsOfYear, b)
    /\ FreeCert(kind, auto, bill)
    /\ certs' = Append(certs, [kind |-> kind, auto |-> auto, bill |-> bill,
                               gst |-> Open])
    /\ certSeq' = [certSeq EXCEPT ![g] = auto.n]
    /\ billSeq' = [billSeq EXCEPT ![g] = bill.n]
    /\ testSeq' = Restarted /\ Stamp
    /\ UNCHANGED <<day, tests>>

\* A photo certificate takes a number of the same series and no bill number.
CreatePhotoCert(g, h) ==
    LET auto == [gst |-> g, yy |-> yy, n |-> NextCert(g, h)] IN
    /\ Len(certs) < MaxCerts
    /\ Highest(MetalCerts, h)
    /\ FreeCert("photo", auto, NoBill)
    /\ certs' = Append(certs, [kind |-> "photo", auto |-> auto, bill |-> NoBill,
                               gst |-> Open])
    /\ certSeq' = [certSeq EXCEPT ![g] = auto.n]
    /\ testSeq' = Restarted /\ Stamp
    /\ UNCHANGED <<day, billSeq, tests>>

\* The GST choice of the form may change until the certificate is DONE; it is
\* written before the DONE write, and the numbers are left as they were minted.
Close(i, g) ==
    /\ certs[i].gst = Open
    /\ certs' = [certs EXCEPT ![i].gst = {g}]
    /\ UNCHANGED <<day, stamped, testSeq, certSeq, billSeq, tests>>

NextDay ==
    /\ day < LastDay
    /\ day' = day + 1
    /\ UNCHANGED <<stamped, testSeq, certSeq, billSeq, tests, certs>>

Next ==
    \/ \E m \in Metal, h \in 0..MaxNumber : CreateTest(m, h)
    \/ \E t \in tests : EraseTest(t)
    \/ \E kind \in Metal, g \in BOOLEAN, h, b \in 0..MaxCerts : CreateMetalCert(kind, g, h, b)
    \/ \E g \in BOOLEAN, h \in 0..MaxCerts : CreatePhotoCert(g, h)
    \/ \E i \in DOMAIN certs, g \in ClosedWith : Close(i, g)
    \/ NextDay

Spec == Init /\ [][Next]_vars

------------------------------------------------------------------------------
\* Properties

\* Registration never fails on a number: whatever the day, the deletions and the
\* order in which the kinds were registered, the next number of every series is
\* not in its table yet, so no UNIQUE constraint can abort the insert.
MintNeverRefused ==
    /\ \A m \in Metal, h \in 0..MaxNumber :
         Highest(TestsOfYear(m), h) =>
           FreeTest([metal |-> m, yy |-> yy, n |-> NextTest(m, h)])
    /\ \A kind \in Kinds, g \in BOOLEAN, h, b \in 0..MaxCerts :
         Highest(MetalCerts, h) /\ Highest(BillsOfYear, b) =>
           FreeCert(kind, [gst |-> g, yy |-> yy, n |-> NextCert(g, h)],
                          [gst |-> g, yy |-> yy, n |-> NextBill(g, b)])

\* A certificate's number grows within its series, over days, years and the three
\* tables, though the comments call the series daily (CertSeriesDaily): verifyRoutes,
\* which looks a bare number up in one table after another, can find one certificate
\* only.
CertSeriesGrow ==
    \A i, j \in DOMAIN certs :
        i < j /\ certs[i].auto.gst = certs[j].auto.gst => certs[i].auto.n < certs[j].auto.n

\* Bills of one series are numbered without a gap, as invoices must be, over the
\* gold and silver tables, days and years: between two bills lies every number.
Billed(g) == {certs[i].bill.n : i \in {j \in DOMAIN certs :
                  certs[j].kind \in Metal /\ certs[j].bill.gst = g}}
BillsWithoutGap ==
    \A g \in BOOLEAN : \A n, k \in Billed(g) : n..k \subseteq Billed(g)

\* ... and no number is given to two bills, though each table has an index of its own.
BillSeriesGrow ==
    \A i, j \in DOMAIN certs :
        /\ i < j /\ certs[i].kind \in Metal /\ certs[j].kind \in Metal
        /\ certs[i].bill.gst = certs[j].bill.gst
        => certs[i].bill.n < certs[j].bill.n

\* 'reset at midnight' (sequenceService.js:239-240), 'lab sequence, daily-reset'
\* (certificateService.js:267): the first number a series mints on a day is one.
CertSeriesDaily ==
    [][\A g \in BOOLEAN : stamped # day /\ certSeq'[g] # certSeq[g] => certSeq'[g] = 1]_vars

\* 'Sequence is YEARLY' (sequenceService.js:237): the first bill of a year is one.
BillSeriesYearly ==
    [][\A g \in BOOLEAN :
         billSeq[g] # NoSeq /\ billSeq'[g] # billSeq[g] /\ BillsOfYear = {} => billSeq'[g] = 1]_vars

\* sequenceService: a bill number's letter tells whether the bill has GST.
BillTellsGst ==
    \A i \in DOMAIN certs :
        certs[i].kind \in Metal /\ certs[i].gst # Open => certs[i].gst = {certs[i].bill.gst}
=============================================================================
