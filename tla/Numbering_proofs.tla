-------------------------- MODULE Numbering_proofs --------------------------
(***************************************************************************)
(* Every series of numbers stays ahead of the rows it numbered, for any    *)
(* length of the year, any clock and any number of documents.              *)
(***************************************************************************)
EXTENDS Numbering, TLAPS

USE DEF Metal, Kinds, Open

\* Every certificate counter has reached the numbers of its prefix, in all three
\* tables: this is what the self-healing, blind to photos, does not give.
CountersAhead == \A i \in DOMAIN certs : certs[i].auto.n <= certSeq[certs[i].auto.gst]

\* A bill counter exists once a bill of its series does, and has reached it; photo
\* certificates have no bill.
BillsAhead ==
    \A i \in DOMAIN certs :
        IF certs[i].kind \in Metal
          THEN certs[i].bill.n <= billSeq[certs[i].bill.gst]
          ELSE certs[i].bill = NoBill

\* From any bill of a series up to its counter, every number was given out.
BillsReachCounter ==
    \A g \in BOOLEAN : \A n \in Billed(g) : n..billSeq[g] \subseteq Billed(g)

NumInv ==
    /\ TypeOK /\ CountersAhead /\ BillsAhead /\ BillsReachCounter
    /\ CertSeriesGrow /\ BillSeriesGrow

\* The counters of the tests are numbers, restarted or not.
LEMMA RestartedType == TypeOK => Restarted \in [Metal -> Nat]
BY DEF TypeOK, Restarted, TestCount

\* The number of a new certificate: above its counter.
LEMMA NextCertAbove ==
    ASSUME TypeOK, NEW g \in BOOLEAN, NEW h \in Nat
    PROVE  NextCert(g, h) \in Nat /\ certSeq[g] < NextCert(g, h)
BY DEF TypeOK, NextCert, CertCount, Larger

\* The number of a new bill: one above its counter, or the first of its series.
LEMMA NextBillAbove ==
    ASSUME TypeOK, NEW g \in BOOLEAN, NEW b \in Nat
    PROVE  /\ NextBill(g, b) \in Nat \ {0}
           /\ billSeq[g] # NoSeq => NextBill(g, b) = billSeq[g] + 1
           /\ billSeq[g] < NextBill(g, b)
BY DEF TypeOK, NextBill, NoSeq

\* A row appended to the certificates.
LEMMA Appended ==
    ASSUME TypeOK, NEW row, certs' = Append(certs, row)
    PROVE  /\ DOMAIN certs' = DOMAIN certs \cup {Len(certs) + 1}
           /\ certs'[Len(certs) + 1] = row
           /\ \A i \in DOMAIN certs : certs'[i] = certs[i] /\ i < Len(certs) + 1
           /\ Len(certs) + 1 \notin DOMAIN certs
<1>1. certs \in Seq(CertRow) /\ DOMAIN certs = 1..Len(certs) /\ Len(certs) \in Nat
  BY DEF TypeOK
<1>2. /\ DOMAIN certs' = 1..(Len(certs) + 1)
      /\ \A i \in 1..Len(certs) : certs'[i] = certs[i]
      /\ certs'[Len(certs) + 1] = row
  BY <1>1
<1> QED
  BY <1>1, <1>2

\* What the rows hold, field by field.
LEMMA RowTypes ==
    ASSUME TypeOK, NEW i \in DOMAIN certs
    PROVE  /\ i \in Nat /\ certs[i].kind \in Kinds
           /\ certs[i].auto.gst \in BOOLEAN /\ certs[i].auto.n \in Nat
           /\ certs[i].bill.gst \in BOOLEAN /\ certs[i].bill.n \in Nat
<1>1. certs[i] \in CertRow /\ i \in Nat
  BY DEF TypeOK
<1> QED
  BY <1>1 DEF CertRow, CertNumber

\* A certificate counter that moved up to the number of a row just appended.
LEMMA CountersStayAhead ==
    ASSUME TypeOK, CountersAhead, CertSeriesGrow, NEW g \in BOOLEAN, NEW n \in Nat,
           NEW last \in Nat, certSeq[g] < n, certSeq' = [certSeq EXCEPT ![g] = n],
           DOMAIN certs' = DOMAIN certs \cup {last}, last \notin DOMAIN certs,
           certs'[last].auto.gst = g, certs'[last].auto.n = n,
           \A i \in DOMAIN certs : certs'[i] = certs[i] /\ i < last
    PROVE  CountersAhead' /\ CertSeriesGrow'
<1>1. certSeq'[g] = n /\ \A k \in BOOLEAN : certSeq[k] \in Nat /\ certSeq[k] <= certSeq'[k]
  BY DEF TypeOK
<1>2. \A i \in DOMAIN certs : /\ i \in Nat /\ certs[i].auto.n \in Nat
                              /\ certs[i].auto.gst \in BOOLEAN
                              /\ certs[i].auto.n <= certSeq[certs[i].auto.gst]
  BY RowTypes DEF CountersAhead
<1>3. certSeq' \in [BOOLEAN -> Nat]
  BY DEF TypeOK
<1>4. CountersAhead'
  <2> SUFFICES ASSUME NEW i \in DOMAIN certs' PROVE certs'[i].auto.n <= certSeq'[certs'[i].auto.gst]
    BY DEF CountersAhead
  <2>1. CASE i = last
    BY <2>1, <1>1
  <2>2. CASE i \in DOMAIN certs
    <3>1. certs'[i] = certs[i]
      BY <2>2
    <3>2. certSeq[certs[i].auto.gst] <= certSeq'[certs[i].auto.gst]
      BY <1>1, <1>2, <2>2
    <3> QED
      BY <3>1, <3>2, <1>1, <1>2, <1>3, <2>2
  <2> QED
    BY <2>1, <2>2
<1>5. CertSeriesGrow'
  <2> SUFFICES ASSUME NEW i \in DOMAIN certs', NEW j \in DOMAIN certs', i < j,
                      certs'[i].auto.gst = certs'[j].auto.gst
               PROVE  certs'[i].auto.n < certs'[j].auto.n
    BY DEF CertSeriesGrow
  <2>1. i # last
    BY <1>2
  <2>2. i \in DOMAIN certs /\ certs'[i] = certs[i]
    BY <2>1
  <2>3. CASE j = last
    BY <2>2, <2>3, <1>1, <1>2
  <2>4. CASE j \in DOMAIN certs
    BY <2>2, <2>4 DEF CertSeriesGrow
  <2> QED
    BY <2>3, <2>4
<1> QED
  BY <1>4, <1>5

LEMMA InitNum == Init => NumInv
<1> SUFFICES ASSUME Init PROVE NumInv
  OBVIOUS
<1>1. DOMAIN certs = {}
  BY DEF Init
<1>2. TypeOK
  BY DEF Init, TypeOK, NoSeq
<1>3. \A g \in BOOLEAN : Billed(g) = {}
  BY <1>1 DEF Billed
<1> QED
  BY <1>1, <1>2, <1>3 DEF NumInv, CountersAhead, BillsAhead, BillsReachCounter,
                         CertSeriesGrow, BillSeriesGrow

\* Steps that leave the numbers alone.
LEMMA SameNumbers ==
    ASSUME NumInv, TypeOK',
           DOMAIN certs' = DOMAIN certs,
           \A i \in DOMAIN certs : /\ certs'[i].kind = certs[i].kind
                                   /\ certs'[i].auto = certs[i].auto
                                   /\ certs'[i].bill = certs[i].bill,
           UNCHANGED <<certSeq, billSeq>>
    PROVE  NumInv'
<1>1. \A g \in BOOLEAN : Billed(g)' = Billed(g)
  BY DEF Billed
<1> QED
  BY <1>1 DEF NumInv, CountersAhead, BillsAhead, BillsReachCounter,
             CertSeriesGrow, BillSeriesGrow

LEMMA MetalCertNum ==
    ASSUME NumInv, NEW kind \in Metal, NEW g \in BOOLEAN,
           NEW h \in 0..MaxCerts, NEW b \in 0..MaxCerts,
           CreateMetalCert(kind, g, h, b)
    PROVE  NumInv'
<1> DEFINE auto == [gst |-> g, yy |-> yy, n |-> NextCert(g, h)]
           bill == [gst |-> g, yy |-> yy, n |-> NextBill(g, b)]
           row  == [kind |-> kind, auto |-> auto, bill |-> bill, gst |-> Open]
           last == Len(certs) + 1
<1>1. TypeOK /\ h \in Nat /\ b \in Nat /\ yy \in Nat
  BY NumberingAssumption DEF NumInv, TypeOK, yy
<1>2. /\ NextCert(g, h) \in Nat /\ certSeq[g] < NextCert(g, h)
  BY <1>1, NextCertAbove
<1>3. /\ NextBill(g, b) \in Nat \ {0}
      /\ billSeq[g] # NoSeq => NextBill(g, b) = billSeq[g] + 1
      /\ billSeq[g] < NextBill(g, b)
  BY <1>1, NextBillAbove
<1>4. /\ certs' = Append(certs, row)
      /\ certSeq' = [certSeq EXCEPT ![g] = NextCert(g, h)]
      /\ billSeq' = [billSeq EXCEPT ![g] = NextBill(g, b)]
      /\ testSeq' = Restarted /\ stamped' = day /\ UNCHANGED <<day, tests>>
  BY DEF CreateMetalCert, Stamp
<1>5. row \in CertRow
  BY <1>1, <1>2, <1>3 DEF CertRow, CertNumber
<1>6. TypeOK'
  <2>1. certs' \in Seq(CertRow)
    BY <1>1, <1>4, <1>5 DEF TypeOK
  <2>2. certSeq' \in [BOOLEAN -> Nat] /\ billSeq' \in [BOOLEAN -> Nat \cup {NoSeq}]
    BY <1>1, <1>2, <1>3, <1>4 DEF TypeOK
  <2> QED
    BY <1>1, <1>4, <2>1, <2>2, RestartedType DEF TypeOK
<1>7. /\ DOMAIN certs' = DOMAIN certs \cup {last}
      /\ certs'[last] = row
      /\ \A i \in DOMAIN certs : certs'[i] = certs[i] /\ i < last
      /\ last \notin DOMAIN certs
  BY <1>1, <1>4, Appended
<1>8. \A i \in DOMAIN certs : certs[i] \in CertRow /\ i \in Nat
  BY <1>1 DEF TypeOK
<1>9. last \in Nat
  BY <1>1 DEF TypeOK
<1>10. CountersAhead' /\ CertSeriesGrow'
  <2> HIDE DEF auto, bill, row, last
  <2>1. certs'[last].auto.gst = g /\ certs'[last].auto.n = NextCert(g, h)
    BY <1>7 DEF row, auto
  <2> QED
    BY <1>1, <1>2, <1>4, <1>7, <1>9, <2>1, CountersStayAhead DEF NumInv
<1>11. /\ \A i \in DOMAIN certs : /\ i \in Nat /\ i < last /\ certs'[i] = certs[i]
                                 /\ certs[i].kind \in Kinds
                                 /\ certs[i].bill.gst \in BOOLEAN /\ certs[i].bill.n \in Nat
       /\ \A k \in BOOLEAN : billSeq[k] \in Int /\ billSeq'[k] \in Int /\ billSeq[k] <= billSeq'[k]
       /\ billSeq'[g] = NextBill(g, b) /\ billSeq[g] < NextBill(g, b)
       /\ certs'[last].kind = kind /\ certs'[last].bill.gst = g
       /\ certs'[last].bill.n = NextBill(g, b)
  <2>1. \A k \in BOOLEAN : billSeq[k] \in Nat \cup {NoSeq}
    BY <1>1 DEF TypeOK
  <2>2. billSeq'[g] = NextBill(g, b) /\ \A k \in BOOLEAN : k # g => billSeq'[k] = billSeq[k]
    BY <1>1, <1>4 DEF TypeOK
  <2>3. \A k \in BOOLEAN : billSeq[k] \in Int /\ billSeq'[k] \in Int /\ billSeq[k] <= billSeq'[k]
    BY <2>1, <2>2, <1>3 DEF NoSeq
  <2>4. /\ certs'[last].kind = kind /\ certs'[last].bill.gst = g
        /\ certs'[last].bill.n = NextBill(g, b)
    BY <1>7
  <2> QED
    BY <1>1, <1>3, <1>7, <2>2, <2>3, <2>4, RowTypes
<1>12. BillsAhead'
  <2> HIDE DEF auto, bill, row, last
  <2> SUFFICES ASSUME NEW i \in DOMAIN certs'
               PROVE  IF certs'[i].kind \in Metal
                        THEN certs'[i].bill.n <= billSeq'[certs'[i].bill.gst]
                        ELSE certs'[i].bill = NoBill
    BY DEF BillsAhead
  <2>1. CASE i = last
    BY <2>1, <1>3, <1>11
  <2>2. CASE i \in DOMAIN certs
    <3>1. CASE certs[i].kind \in Metal
      <4>1. certs[i].bill.n <= billSeq[certs[i].bill.gst]
        BY <3>1, <2>2 DEF NumInv, BillsAhead
      <4>2. certs[i].bill.gst \in BOOLEAN /\ certs[i].bill.n \in Nat /\ certs'[i] = certs[i]
        BY <2>2, <1>11
      <4>3. /\ billSeq[certs[i].bill.gst] \in Int /\ billSeq'[certs[i].bill.gst] \in Int
            /\ billSeq[certs[i].bill.gst] <= billSeq'[certs[i].bill.gst]
        BY <4>2, <1>11
      <4> QED
        BY <3>1, <4>1, <4>2, <4>3
    <3>2. CASE certs[i].kind \notin Metal
      BY <3>2, <2>2, <1>11 DEF NumInv, BillsAhead
    <3> QED
      BY <3>1, <3>2
  <2> QED
    BY <2>1, <2>2, <1>7
<1>13. BillSeriesGrow'
  <2> HIDE DEF auto, bill, row, last
  <2> SUFFICES ASSUME NEW i \in DOMAIN certs', NEW j \in DOMAIN certs', i < j,
                      certs'[i].kind \in Metal, certs'[j].kind \in Metal,
                      certs'[i].bill.gst = certs'[j].bill.gst
               PROVE  certs'[i].bill.n < certs'[j].bill.n
    BY DEF BillSeriesGrow
  <2>1. i # last
    BY <1>7, <1>9, <1>11
  <2>2. i \in DOMAIN certs /\ certs'[i] = certs[i]
    BY <2>1, <1>7
  <2>3. CASE j = last
    <3>1. certs[i].bill.n <= billSeq[g]
      BY <2>2, <2>3, <1>11 DEF NumInv, BillsAhead
    <3>2. certs[i].bill.n \in Nat /\ billSeq[g] \in Int /\ NextBill(g, b) \in Nat
      BY <2>2, <1>3, <1>11
    <3> QED
      BY <3>1, <3>2, <2>2, <2>3, <1>11
  <2>4. CASE j \in DOMAIN certs
    BY <2>2, <2>4, <1>7 DEF NumInv, BillSeriesGrow
  <2> QED
    BY <2>3, <2>4, <1>7
<1>14. \A k \in BOOLEAN : Billed(k)' = IF k = g THEN Billed(k) \cup {NextBill(g, b)} ELSE Billed(k)
  BY <1>4, <1>7 DEF Billed
<1>15. BillsReachCounter'
  <2> SUFFICES ASSUME NEW k \in BOOLEAN, NEW n \in Billed(k)', NEW x \in n..billSeq[k]'
               PROVE  x \in Billed(k)'
    BY DEF BillsReachCounter
  <2>1. CASE k # g
    BY <2>1, <1>1, <1>4, <1>14 DEF NumInv, BillsReachCounter, TypeOK
  <2>2. CASE k = g /\ n \in Billed(g)
    <3>1. billSeq[g] # NoSeq /\ billSeq[g] \in Nat /\ n \in Nat
      <4>1. PICK i \in DOMAIN certs : /\ certs[i].kind \in Metal /\ certs[i].bill.gst = g
                                      /\ certs[i].bill.n = n
        BY <2>2 DEF Billed
      <4>2. n \in Nat /\ n <= billSeq[g]
        BY <4>1, <1>11 DEF NumInv, BillsAhead
      <4>3. billSeq[g] \in Nat \cup {NoSeq}
        BY <1>1 DEF TypeOK
      <4> QED
        BY <4>2, <4>3 DEF NoSeq
    <3>2. billSeq[g]' = billSeq[g] + 1
      BY <3>1, <1>1, <1>3, <1>4 DEF TypeOK
    <3>3. CASE x = billSeq[g] + 1
      BY <3>3, <3>1, <1>3, <1>14, <2>2
    <3>4. CASE x \in n..billSeq[g]
      BY <3>4, <2>2, <1>14 DEF NumInv, BillsReachCounter
    <3> QED
      BY <3>1, <3>2, <3>3, <3>4, <2>2
  <2>3. CASE k = g /\ n = NextBill(g, b)
    BY <2>3, <1>1, <1>3, <1>4, <1>14 DEF TypeOK
  <2> QED
    BY <2>1, <2>2, <2>3, <1>14
<1> QED
  BY <1>6, <1>10, <1>12, <1>13, <1>15 DEF NumInv

LEMMA PhotoCertNum ==
    ASSUME NumInv, NEW g \in BOOLEAN, NEW h \in 0..MaxCerts, CreatePhotoCert(g, h)
    PROVE  NumInv'
<1> DEFINE auto == [gst |-> g, yy |-> yy, n |-> NextCert(g, h)]
           row  == [kind |-> "photo", auto |-> auto, bill |-> NoBill, gst |-> Open]
           last == Len(certs) + 1
<1>1. TypeOK /\ h \in Nat /\ yy \in Nat
  BY NumberingAssumption DEF NumInv, TypeOK, yy
<1>2. NextCert(g, h) \in Nat /\ certSeq[g] < NextCert(g, h)
  BY <1>1, NextCertAbove
<1>3. /\ certs' = Append(certs, row)
      /\ certSeq' = [certSeq EXCEPT ![g] = NextCert(g, h)]
      /\ testSeq' = Restarted /\ stamped' = day /\ UNCHANGED <<day, billSeq, tests>>
  BY DEF CreatePhotoCert, Stamp
<1>4. row \in CertRow
  BY <1>1, <1>2 DEF CertRow, CertNumber, NoBill
<1>5. TypeOK'
  <2>1. certs' \in Seq(CertRow)
    BY <1>1, <1>3, <1>4 DEF TypeOK
  <2>2. certSeq' \in [BOOLEAN -> Nat]
    BY <1>1, <1>2, <1>3 DEF TypeOK
  <2> QED
    BY <1>1, <1>3, <2>1, <2>2, RestartedType DEF TypeOK
<1>6. /\ DOMAIN certs' = DOMAIN certs \cup {last}
      /\ certs'[last] = row
      /\ \A i \in DOMAIN certs : certs'[i] = certs[i] /\ i < last
      /\ last \notin DOMAIN certs
  BY <1>1, <1>3, Appended
<1>7. \A i \in DOMAIN certs : certs[i] \in CertRow /\ i \in Nat
  BY <1>1 DEF TypeOK
<1>8. last \in Nat
  BY <1>1 DEF TypeOK
<1>9. CountersAhead' /\ CertSeriesGrow'
  <2> HIDE DEF auto, row, last
  <2>1. certs'[last].auto.gst = g /\ certs'[last].auto.n = NextCert(g, h)
    BY <1>6 DEF row, auto
  <2> QED
    BY <1>1, <1>2, <1>3, <1>6, <1>8, <2>1, CountersStayAhead DEF NumInv
<1>10. BillsAhead'
  BY <1>3, <1>6 DEF NumInv, BillsAhead
<1>12. BillSeriesGrow'
  BY <1>3, <1>6 DEF NumInv, BillSeriesGrow
<1>13. \A k \in BOOLEAN : Billed(k)' = Billed(k)
  BY <1>6 DEF Billed
<1>14. BillsReachCounter'
  BY <1>3, <1>13 DEF NumInv, BillsReachCounter
<1> QED
  BY <1>5, <1>9, <1>10, <1>12, <1>14 DEF NumInv

LEMMA NextNum == NumInv /\ [Next]_vars => NumInv'
<1> SUFFICES ASSUME NumInv, [Next]_vars PROVE NumInv'
  OBVIOUS
<1>1. TypeOK
  BY DEF NumInv
<1>2. ASSUME NEW m \in Metal, NEW h \in 0..MaxNumber, CreateTest(m, h) PROVE NumInv'
  <2> DEFINE t == [metal |-> m, yy |-> yy, n |-> NextTest(m, h)]
  <2>1. yy \in Nat /\ NextTest(m, h) \in Nat
    <3>1. yy \in Nat
      BY <1>1, NumberingAssumption DEF TypeOK, yy
    <3>2. TestCount(m) \in Nat
      BY <1>1 DEF TypeOK, TestCount
    <3>3. h \in Nat
      BY NumberingAssumption
    <3> QED
      BY <3>1, <3>2, <3>3 DEF NextTest, Larger
  <2>2. /\ tests' = tests \cup {t} /\ testSeq' = [Restarted EXCEPT ![m] = t.n]
        /\ stamped' = day /\ UNCHANGED <<day, certSeq, billSeq, certs>>
    BY <1>2 DEF CreateTest, Stamp
  <2>3. t \in TestNumber
    BY <2>1 DEF TestNumber
  <2>4. testSeq' \in [Metal -> Nat]
    BY <1>1, <2>1, <2>2, RestartedType
  <2>5. TypeOK'
    BY <1>1, <2>2, <2>3, <2>4 DEF TypeOK
  <2> QED
    BY <2>2, <2>5, SameNumbers
<1>3. ASSUME NEW t \in tests, EraseTest(t) PROVE NumInv'
  <2>1. TypeOK'
    BY <1>1, <1>3 DEF EraseTest, TypeOK
  <2> QED
    BY <1>3, <2>1, SameNumbers DEF EraseTest
<1>4. ASSUME NEW kind \in Metal, NEW g \in BOOLEAN, NEW h \in 0..MaxCerts,
             NEW b \in 0..MaxCerts, CreateMetalCert(kind, g, h, b)
      PROVE  NumInv'
  BY <1>4, MetalCertNum
<1>5. ASSUME NEW g \in BOOLEAN, NEW h \in 0..MaxCerts, CreatePhotoCert(g, h) PROVE NumInv'
  BY <1>5, PhotoCertNum
<1>6. ASSUME NEW i \in DOMAIN certs, NEW g \in ClosedWith, Close(i, g) PROVE NumInv'
  <2>0. g \in BOOLEAN
    BY NumberingAssumption
  <2>1. certs \in Seq(CertRow) /\ certs[i] \in CertRow
    BY <1>1 DEF TypeOK
  <2>2. /\ certs' = [certs EXCEPT ![i].gst = {g}]
        /\ UNCHANGED <<day, stamped, testSeq, certSeq, billSeq, tests>>
    BY <1>6 DEF Close
  <2>3. [certs[i] EXCEPT !.gst = {g}] \in CertRow
    BY <2>0, <2>1 DEF CertRow
  <2>4. certs' \in Seq(CertRow) /\ DOMAIN certs' = DOMAIN certs
    BY <2>1, <2>2, <2>3
  <2>5. TypeOK'
    BY <1>1, <2>2, <2>4 DEF TypeOK
  <2>6. \A j \in DOMAIN certs : /\ certs'[j].kind = certs[j].kind
                                /\ certs'[j].auto = certs[j].auto
                                /\ certs'[j].bill = certs[j].bill
    BY <1>1, <2>1, <2>2 DEF TypeOK, CertRow
  <2> QED
    BY <2>2, <2>4, <2>5, <2>6, SameNumbers
<1>7. CASE NextDay
  <2>1. TypeOK'
    BY <1>1, <1>7 DEF NextDay, TypeOK
  <2> QED
    BY <1>7, <2>1, SameNumbers DEF NextDay
<1>8. CASE UNCHANGED vars
  <2>1. TypeOK'
    BY <1>1, <1>8 DEF vars, TypeOK
  <2> QED
    BY <1>8, <2>1, SameNumbers DEF vars
<1> QED
  BY <1>2, <1>3, <1>4, <1>5, <1>6, <1>7, <1>8 DEF Next

\* The inductive invariant of the numbering holds throughout.
THEOREM NumCorrect == Spec => []NumInv
<1>1. Init => NumInv
  BY InitNum
<1>2. NumInv /\ [Next]_vars => NumInv'
  BY NextNum
<1> QED
  BY <1>1, <1>2, PTL DEF Spec

\* The counters and the rows keep their types.
THEOREM NumberingTypeCorrect == Spec => []TypeOK
<1>1. NumInv => TypeOK
  BY DEF NumInv
<1> QED
  BY <1>1, NumCorrect, PTL

\* A certificate's number grows within its series over the three tables, so a number
\* on paper names one certificate (verifyRoutes).
THEOREM CertSeriesCorrect == Spec => []CertSeriesGrow
<1>1. NumInv => CertSeriesGrow
  BY DEF NumInv
<1> QED
  BY <1>1, NumCorrect, PTL

\* Bill numbers grow within their series over the gold and the silver table.
THEOREM BillSeriesCorrect == Spec => []BillSeriesGrow
<1>1. NumInv => BillSeriesGrow
  BY DEF NumInv
<1> QED
  BY <1>1, NumCorrect, PTL

\* No bill number of a series is ever skipped, from its first bill on.
THEOREM BillsWithoutGapCorrect == Spec => []BillsWithoutGap
<1>1. NumInv => BillsWithoutGap
  <2> SUFFICES ASSUME NumInv, NEW g \in BOOLEAN, NEW n \in Billed(g), NEW k \in Billed(g),
                      NEW x \in n..k
               PROVE  x \in Billed(g)
    BY DEF BillsWithoutGap
  <2>1. \A i \in DOMAIN certs : certs[i] \in CertRow
    BY DEF NumInv, TypeOK
  <2>2. n \in Nat /\ k \in Nat /\ k <= billSeq[g] /\ billSeq[g] \in Int
    <3>1. PICK i \in DOMAIN certs : certs[i].kind \in Metal /\ certs[i].bill.gst = g /\ certs[i].bill.n = n
      BY DEF Billed
    <3>2. PICK j \in DOMAIN certs : certs[j].kind \in Metal /\ certs[j].bill.gst = g /\ certs[j].bill.n = k
      BY DEF Billed
    <3>3. n \in Nat /\ k \in Nat
      BY <3>1, <3>2, RowTypes DEF NumInv
    <3>4. k <= billSeq[g]
      BY <3>2 DEF NumInv, BillsAhead
    <3>5. billSeq[g] \in Nat \cup {NoSeq}
      BY DEF NumInv, TypeOK
    <3> QED
      BY <3>3, <3>4, <3>5 DEF NoSeq
  <2>3. x \in n..billSeq[g]
    BY <2>2
  <2> QED
    BY <2>3 DEF NumInv, BillsReachCounter
<1> QED
  BY <1>1, NumCorrect, PTL

\* No UNIQUE constraint ever refuses the number of a new document.
THEOREM MintCorrect == Spec => []MintNeverRefused
<1>1. NumInv => MintNeverRefused
  <2> SUFFICES ASSUME NumInv PROVE MintNeverRefused
    OBVIOUS
  <2>1. TypeOK
    BY DEF NumInv
  <2>2. \A i \in DOMAIN certs : certs[i] \in CertRow
    BY <2>1 DEF TypeOK
  <2>3. ASSUME NEW m \in Metal, NEW h \in 0..MaxNumber, Highest(TestsOfYear(m), h)
        PROVE  FreeTest([metal |-> m, yy |-> yy, n |-> NextTest(m, h)])
    <3> DEFINE t == [metal |-> m, yy |-> yy, n |-> NextTest(m, h)]
    <3>1. h \in Nat /\ NextTest(m, h) \in Nat /\ h < NextTest(m, h)
      BY <2>1 DEF TypeOK, NextTest, TestCount, Larger
    <3>2. ASSUME t \in tests PROVE NextTest(m, h) \in TestsOfYear(m)
      BY <3>2 DEF TestsOfYear
    <3> QED
      BY <2>3, <3>1, <3>2 DEF Highest, FreeTest
  <2>4. ASSUME NEW kind \in Kinds, NEW g \in BOOLEAN,
               NEW h \in 0..MaxCerts, NEW b \in 0..MaxCerts
        PROVE  FreeCert(kind, [gst |-> g, yy |-> yy, n |-> NextCert(g, h)],
                              [gst |-> g, yy |-> yy, n |-> NextBill(g, b)])
    <3> DEFINE auto == [gst |-> g, yy |-> yy, n |-> NextCert(g, h)]
               bill == [gst |-> g, yy |-> yy, n |-> NextBill(g, b)]
    <3>1. h \in Nat /\ b \in Nat
      OBVIOUS
    <3>2. NextCert(g, h) \in Nat /\ certSeq[g] < NextCert(g, h)
      BY <2>1, <3>1, NextCertAbove
    <3>3. NextBill(g, b) \in Nat \ {0} /\ billSeq[g] < NextBill(g, b)
      BY <2>1, <3>1, NextBillAbove
    <3>4. ASSUME NEW i \in DOMAIN certs PROVE certs[i].auto # auto
      BY <2>1, <2>2, <3>2 DEF NumInv, CountersAhead, TypeOK, CertRow, CertNumber
    <3>5. ASSUME NEW i \in DOMAIN certs PROVE certs[i].bill # bill
      <4>1. bill.gst = g /\ bill.n = NextBill(g, b)
        OBVIOUS
      <4>2. CASE certs[i].kind \in Metal
        <5>1. certs[i].bill.n =< billSeq[certs[i].bill.gst]
          BY <4>2 DEF NumInv, BillsAhead
        <5>2. billSeq[g] \in Int
          BY <2>1 DEF TypeOK, NoSeq
        <5> QED BY <3>3, <4>1, <5>1, <5>2
      <4>3. CASE certs[i].kind \notin Metal
        <5>1. certs[i].bill = NoBill
          BY <4>3 DEF NumInv, BillsAhead
        <5> QED BY <3>3, <4>1, <5>1 DEF NoBill
      <4> QED BY <4>2, <4>3
    <3> QED
      BY <3>4, <3>5 DEF FreeCert
  <2> QED
    BY <2>3, <2>4 DEF MintNeverRefused
<1> QED
  BY <1>1, NumCorrect, PTL
=============================================================================
