---------------------------- MODULE Printing_proofs ----------------------------
(***************************************************************************)
(* Proofs about Printing: for any documents, browsers and bound, a DONE    *)
(* document keeps the paper it was closed with, and a DONE certificate's   *)
(* paper shows its rows.  And proofs about CertItems, in the second half:  *)
(* the rows that become the paper, their sums and their photos.            *)
(***************************************************************************)
EXTENDS MCPaper, FiniteSetTheorems, TLAPS

\* What a layout is, when there is one.
LEMMA LayoutIs ==
    ASSUME TypeOK, NEW row, row.st \in Status, row.changes \in Nat
    PROVE  /\ Layout(row) \in Sheet
           /\ \A s \in Layout(row) : s.doc = row.changes /\ s.st = row.st
  <1> DEFINE content == [st |-> row.st, doc |-> row.changes, name |-> customer.name]
  <1>1. content \in Content /\ content.doc = row.changes /\ content.st = row.st
    BY DEF TypeOK, Content
  <1>2. Layout(row) = {} \/ Layout(row) = {content}  BY DEF Layout
  <1> HIDE DEF content
  <1>3. QED  BY <1>1, <1>2 DEF Sheet

LEMMA DocsApart ==
    Tests \subseteq Docs /\ Certs \subseteq Docs /\ Metals \subseteq Docs
    /\ Tests \cap Certs = {}
  BY PrintingAssumption DEF Docs, Certs

\* The rows a handler writes are rows.
LEMMA RowType ==
    ASSUME NEW st \in {"TODO", "IN_PROGRESS", "DONE", "erased"}, NEW n \in Nat, NEW snap \in Sheet
    PROVE  /\ Row(st, n, snap) \in DocRow
           /\ Row(st, n, snap).st = st
           /\ Row(st, n, snap).changes = n
           /\ Row(st, n, snap).snap = snap
  BY DEF Row, DocRow, Status

\* A row that was laid out is a row.
LEMMA SealedRow ==
    ASSUME TypeOK, NEW st \in {"TODO", "IN_PROGRESS"}, NEW n \in Nat
    PROVE  Sealed(Row(st, n, {})) \in DocRow /\ Sealed(Row(st, n, {})).st = st
  <1> DEFINE row == Row(st, n, {})
  <1>1. row.st = st /\ row.changes = n  BY DEF Row
  <1>2. Layout(row) \in Sheet  BY <1>1, LayoutIs DEF Status
  <1> HIDE DEF row
  <1>3. Sealed(row) = Row(st, n, Layout(row))  BY <1>1 DEF Sealed
  <1>4. QED  BY <1>2, <1>3, RowType DEF row

\* What is known of the row of a document.
LEMMA RowOf ==
    ASSUME TypeOK, NEW d \in Docs
    PROVE  doc[d].changes \in Nat /\ Changed(d) \in Nat /\ doc[d].snap \in Sheet /\ {} \in Sheet
  BY DEF TypeOK, DocRow, Changed, Sheet

LEMMA ClosedRow ==
    ASSUME TypeOK, NEW d \in Docs, Seal(d) # {}
    PROVE  /\ Closed(d) \in DocRow
           /\ Closed(d).st = "DONE"
           /\ Closed(d).snap # {}
           /\ \A s \in Closed(d).snap : s.doc = Closed(d).changes /\ s.st = "IN_PROGRESS"
  <1> DEFINE row == Row("IN_PROGRESS", Changed(d), doc[d].snap)
  <1>1. Changed(d) \in Nat /\ row.st = "IN_PROGRESS" /\ row.changes = Changed(d)
    BY RowOf DEF Row
  <1>2. Seal(d) \in Sheet /\ \A s \in Seal(d) : s.doc = Changed(d) /\ s.st = "IN_PROGRESS"
    <2> HIDE DEF row
    <2>1. Layout(row) \in Sheet /\ \A s \in Layout(row) : s.doc = Changed(d) /\ s.st = "IN_PROGRESS"
      BY <1>1, LayoutIs DEF Status
    <2>2. QED  BY <2>1 DEF Seal, row
  <1> HIDE DEF row
  <1>3. QED  BY <1>1, <1>2, RowType DEF Closed

------------------------------------------------------------------------------
\* What no step does to a document that is DONE, and what a step that makes it
\* DONE does.

\* A document that is DONE keeps its status and its paper, and a certificate its rows.
Frozen(d) ==
    /\ doc'[d].st = "DONE"
    /\ doc'[d].snap = doc[d].snap
    /\ d \in Certs => doc'[d].changes = doc[d].changes

\* A document becomes DONE with a paper that was laid out from its rows just before.
ClosedWell(d) ==
    /\ doc'[d].snap # {}
    /\ \A s \in doc'[d].snap : s.doc = doc'[d].changes /\ s.st = "IN_PROGRESS"

\* One handler and one row: the cases of DocStep.
DocStep(d) ==
    /\ doc'[d] \in DocRow
    /\ doc[d].st = "DONE" => Frozen(d)
    /\ doc[d].st # "DONE" /\ doc'[d].st = "DONE" => ClosedWell(d)

LEMMA Steps ==
    ASSUME TypeOK, Next
    PROVE  doc' \in [Docs -> DocRow] /\ \A d \in Docs : DocStep(d)
  <1> USE DocsApart
  <1>a. doc \in [Docs -> DocRow]  BY DEF TypeOK
  <1>b. ASSUME doc' = doc
        PROVE  doc' \in [Docs -> DocRow] /\ \A d \in Docs : DocStep(d)
    BY <1>a, <1>b DEF DocStep, Frozen
  \* A row that is not DONE is replaced by one that is not DONE, either.
  <1>c. ASSUME NEW d \in Docs, NEW row \in DocRow, doc[d].st # "DONE", row.st # "DONE",
               doc' = [doc EXCEPT ![d] = row]
        PROVE  doc' \in [Docs -> DocRow] /\ \A e \in Docs : DocStep(e)
    BY <1>a, <1>c DEF DocStep, Frozen
  \* Two rows are replaced: a test's and the one of its new certificate.
  <1>d. ASSUME NEW t \in Tests, NEW c \in Metals, NEW row \in DocRow, NEW issued \in DocRow,
               doc[c].st # "DONE", issued.st # "DONE",
               doc[t].st = "DONE" => row.st = "DONE" /\ row.snap = doc[t].snap,
               doc[t].st # "DONE" /\ row.st = "DONE" =>
                   row.snap # {} /\ \A s \in row.snap : s.doc = row.changes /\ s.st = "IN_PROGRESS",
               doc' = [doc EXCEPT ![t] = row, ![c] = issued]
        PROVE  doc' \in [Docs -> DocRow] /\ \A e \in Docs : DocStep(e)
    <2>1. t \in Docs /\ c \in Docs /\ t # c /\ t \notin Certs  BY DEF Certs
    <2>2. doc' \in [Docs -> DocRow]  BY <1>a, <1>d, <2>1
    <2>3. doc'[t] = row /\ doc'[c] = issued  BY <1>a, <1>d, <2>1
    <2>4. \A e \in Docs \ {t, c} : doc'[e] = doc[e]  BY <1>a, <1>d, <2>1
    <2>5. ASSUME NEW e \in Docs PROVE DocStep(e)
      <3>1. CASE e = t
        BY <3>1, <1>d, <2>1, <2>2, <2>3 DEF DocStep, Frozen, ClosedWell
      <3>2. CASE e = c
        BY <3>2, <1>d, <2>1, <2>2, <2>3 DEF DocStep
      <3>3. CASE e \notin {t, c}
        BY <3>3, <2>2, <2>4 DEF DocStep, Frozen
      <3>4. QED  BY <3>1, <3>2, <3>3
    <2>6. QED  BY <2>2, <2>5
  <1>1. ASSUME NEW d \in Docs, Create(d)
        PROVE  doc' \in [Docs -> DocRow] /\ \A e \in Docs : DocStep(e)
    <2> DEFINE row == Sealed(Row("TODO", 0, {}))
    <2>1. row \in DocRow /\ row.st = "TODO"  BY SealedRow
    <2>2. doc[d].st # "DONE" /\ doc' = [doc EXCEPT ![d] = row]
      BY <1>1 DEF Create
    <2> HIDE DEF row
    <2>3. QED  BY <1>c, <2>1, <2>2
  <1>2. ASSUME NEW d \in Docs, Start(d)
        PROVE  doc' \in [Docs -> DocRow] /\ \A e \in Docs : DocStep(e)
    <2> DEFINE row == Row("IN_PROGRESS", doc[d].changes, doc[d].snap)
    <2>1. row \in DocRow /\ row.st = "IN_PROGRESS"  BY RowOf, RowType
    <2>2. doc[d].st # "DONE" /\ doc' = [doc EXCEPT ![d] = row]
      BY <1>2 DEF Start
    <2>3. QED  BY <1>c, <2>1, <2>2
  <1>3. ASSUME NEW d \in Docs, Close(d)
        PROVE  doc' \in [Docs -> DocRow] /\ \A e \in Docs : DocStep(e)
    <2>1. /\ Seal(d) # {} /\ doc[d].st # "DONE"
          /\ doc' = [doc EXCEPT ![d] = Closed(d)]
      BY <1>3 DEF Close
    <2>2. QED  BY <1>a, <2>1, ClosedRow DEF DocStep, Frozen, ClosedWell
  <1>4. ASSUME NEW t \in Tests, SaveDraft(t)
        PROVE  doc' \in [Docs -> DocRow] /\ \A e \in Docs : DocStep(e)
    <2> DEFINE row == Row("IN_PROGRESS", Changed(t), doc[t].snap)
    <2>1. row \in DocRow /\ row.st = "IN_PROGRESS"  BY RowOf, RowType
    <2>2. doc[t].st # "DONE" /\ doc' = [doc EXCEPT ![t] = row]  BY <1>4 DEF SaveDraft
    <2>3. QED  BY <1>c, <2>1, <2>2
  <1>5. ASSUME NEW c \in Certs, EditCert(c)
        PROVE  doc' \in [Docs -> DocRow] /\ \A e \in Docs : DocStep(e)
    <2> DEFINE row == Sealed(Row(doc[c].st, Changed(c), {}))
    <2>1. doc[c].st \in {"TODO", "IN_PROGRESS"} /\ doc' = [doc EXCEPT ![c] = row]
      BY <1>5 DEF EditCert, Mutable
    <2>2. row \in DocRow /\ row.st = doc[c].st  BY <2>1, RowOf, SealedRow
    <2> HIDE DEF row
    <2>3. QED  BY <1>c, <2>1, <2>2
  <1>6. ASSUME NEW t \in Tests, NEW c \in Metals, NEW all \in BOOLEAN, CompleteTest(t, c, all)
        PROVE  doc' \in [Docs -> DocRow] /\ \A e \in Docs : DocStep(e)
    <2> DEFINE issued == Sealed(Row("IN_PROGRESS", 0, {}))
               row    == IF all THEN Row("erased", 0, {}) ELSE Closed(t)
    <2>1. issued \in DocRow /\ issued.st # "DONE"  BY SealedRow
    <2>2. Seal(t) # {} /\ doc[t].st # "DONE" /\ doc[c].st # "DONE"
          /\ doc' = [doc EXCEPT ![t] = row, ![c] = issued]
      BY <1>6 DEF CompleteTest
    <2>3. Row("erased", 0, {}) \in DocRow /\ Row("erased", 0, {}).st = "erased"
      <3>1. {} \in Sheet  BY DEF Sheet
      <3>2. QED  BY <3>1, RowType
    <2>4. row \in DocRow
          /\ (row.st = "DONE" =>
                row.snap # {} /\ \A s \in row.snap : s.doc = row.changes /\ s.st = "IN_PROGRESS")
      BY <2>2, <2>3, ClosedRow
    <2> HIDE DEF issued, row
    <2>5. QED  BY <1>d, <2>1, <2>2, <2>4
  <1>7. ASSUME NEW t \in Tests, NEW c \in Metals, ConvertToCertificate(t, c)
        PROVE  doc' \in [Docs -> DocRow] /\ \A e \in Docs : DocStep(e)
    <2> DEFINE issued == Row("IN_PROGRESS", 0, {})
               row    == Row("DONE", Changed(t), doc[t].snap)
    <2>1. issued \in DocRow /\ issued.st # "DONE"
      <3>1. {} \in Sheet  BY DEF Sheet
      <3>2. QED  BY <3>1, RowType
    <2>2. row \in DocRow /\ row.st = "DONE" /\ row.snap = doc[t].snap
      <3>1. Changed(t) \in Nat /\ doc[t].snap \in Sheet  BY RowOf, DocsApart
      <3>2. QED  BY <3>1, RowType
    <2>3. /\ doc[t].st = "DONE" /\ doc[c].st # "DONE"
          /\ doc' = [doc EXCEPT ![t] = row, ![c] = issued]
      BY <1>7 DEF ConvertToCertificate
    <2> HIDE DEF issued, row
    <2>4. QED  BY <1>d, <2>1, <2>2, <2>3
  <1>8. CASE Rename \/ SwitchOff \/ \E k \in Desks, d \in Docs : PrintDoc(k, d) \/ Drop(k, d)
    <2>1. doc' = doc  BY <1>8 DEF Rename, SwitchOff, PrintDoc, Drop
    <2>2. QED  BY <1>b, <2>1
  <1>9. QED  BY <1>1, <1>2, <1>3, <1>4, <1>5, <1>6, <1>7, <1>8 DEF Next

------------------------------------------------------------------------------
\* The columns of the rows, the customer and the browsers keep their types.
THEOREM PrintingTypeCorrect == Spec => []TypeOK
  <1>1. Init => TypeOK
    BY DEF Init, TypeOK, DocRow, Sheet, Status
  <1>2. TypeOK /\ [Next]_vars => TypeOK'
    <2> SUFFICES ASSUME TypeOK, [Next]_vars PROVE TypeOK'  OBVIOUS
    <2>1. CASE UNCHANGED vars  BY <2>1 DEF TypeOK, vars
    <2>2. CASE Next
      <3>1. doc' \in [Docs -> DocRow]  BY <2>2, Steps
      <3>2. customer' \in [name : Nat, active : BOOLEAN]
        <4>1. CASE UNCHANGED customer  BY <4>1 DEF TypeOK
        <4>2. CASE Rename  BY <4>2 DEF TypeOK, Rename
        <4>3. CASE SwitchOff  BY <4>3 DEF TypeOK, SwitchOff
        <4>4. QED
          BY <2>2, <4>1, <4>2, <4>3
          DEF Next, Create, Start, Close, SaveDraft, EditCert, CompleteTest,
              ConvertToCertificate, PrintDoc, Drop
      <3>3. kept' \in [Desks -> [Docs -> Sheet]]
        <4>1. CASE UNCHANGED kept  BY <4>1 DEF TypeOK
        <4>2. ASSUME NEW k \in Desks, NEW d \in Docs, PrintDoc(k, d)
              PROVE  kept' \in [Desks -> [Docs -> Sheet]]
          <5>1. doc[d] \in DocRow  BY DEF TypeOK
          <5>2. Kept(d) \in Sheet
            <6>1. CASE doc[d].st = "DONE"  BY <6>1, <5>1 DEF Kept, Answer, DocRow
            <6>2. CASE doc[d].st # "DONE"
              <7>1. doc[d].st \in Status /\ doc[d].changes \in Nat
                BY <4>2, <5>1 DEF PrintDoc, Live, DocRow
              <7>2. QED  BY <6>2, <7>1, LayoutIs DEF Kept, Answer
            <6>3. QED  BY <6>1, <6>2
          <5>3. QED  BY <4>2, <5>2 DEF TypeOK, PrintDoc
        <4>3. ASSUME NEW k \in Desks, NEW d \in Docs, Drop(k, d)
              PROVE  kept' \in [Desks -> [Docs -> Sheet]]
          <5>1. {} \in Sheet  BY DEF Sheet
          <5>2. QED  BY <4>3, <5>1 DEF TypeOK, Drop
        <4>4. QED
          BY <2>2, <4>1, <4>2, <4>3
          DEF Next, Create, Start, Close, SaveDraft, EditCert, CompleteTest,
              ConvertToCertificate, Rename, SwitchOff
      <3>4. QED  BY <3>1, <3>2, <3>3 DEF TypeOK
    <2>3. QED  BY <2>1, <2>2
  <1>3. QED  BY <1>1, <1>2, PTL DEF Spec

\* The inductive invariant: a DONE document has a paper, and a DONE certificate's
\* paper shows its rows, with the status they had when the total was written.
PrintInv == TypeOK /\ DonePrintable /\ CertPaperIsLive

THEOREM PrintCorrect == Spec => []PrintInv
  <1>1. Init => DonePrintable /\ CertPaperIsLive
    BY DocsApart DEF Init, DonePrintable, CertPaperIsLive
  <1>2. TypeOK /\ DonePrintable /\ CertPaperIsLive /\ [Next]_vars
          => DonePrintable' /\ CertPaperIsLive'
    <2> SUFFICES ASSUME TypeOK, DonePrintable, CertPaperIsLive, [Next]_vars
                 PROVE  DonePrintable' /\ CertPaperIsLive'
      OBVIOUS
    <2>1. CASE UNCHANGED vars
      BY <2>1 DEF vars, DonePrintable, CertPaperIsLive, Answer, Layout
    <2>2. CASE Next
      <3>1. \A d \in Docs : DocStep(d)  BY <2>2, Steps
      <3>2. \A d \in Docs : doc'[d].st = "DONE" => doc'[d].snap # {}
        BY <3>1 DEF DocStep, Frozen, ClosedWell, DonePrintable, Answer
      <3>3. \A c \in Certs : doc'[c].st = "DONE" =>
               \E s \in doc'[c].snap : s.doc = doc'[c].changes /\ s.st = "IN_PROGRESS"
        <4> SUFFICES ASSUME NEW c \in Certs, doc'[c].st = "DONE"
                     PROVE  \E s \in doc'[c].snap : s.doc = doc'[c].changes /\ s.st = "IN_PROGRESS"
          OBVIOUS
        <4>1. DocStep(c) /\ c \in Docs  BY <3>1, DocsApart
        <4>2. CASE doc[c].st = "DONE"
          BY <4>1, <4>2 DEF DocStep, Frozen, CertPaperIsLive
        <4>3. CASE doc[c].st # "DONE"
          BY <4>1, <4>3 DEF DocStep, ClosedWell
        <4>4. QED  BY <4>2, <4>3
      <3>4. QED  BY <3>2, <3>3 DEF DonePrintable, CertPaperIsLive, Answer
    <2>3. QED  BY <2>1, <2>2
  <1>3. QED  BY <1>1, <1>2, PrintingTypeCorrect, PTL DEF Spec, PrintInv

\* A DONE certificate is printed as its rows are, but for the status.
THEOREM CertPaperCorrect == Spec => []CertPaperIsLive
  BY PrintCorrect, PTL DEF PrintInv

\* A DONE document can be printed again, whatever became of its customer.
THEOREM DonePrintableCorrect == Spec => []DonePrintable
  BY PrintCorrect, PTL DEF PrintInv

\* The print route gives one answer for a DONE document.
THEOREM OneAnswerCorrect == Spec => OneAnswer
  <1>1. TypeOK /\ [Next]_vars
          => [\A d \in Docs : doc[d].st = "DONE" => Answer(d)' = Answer(d)]_vars
    <2> SUFFICES ASSUME TypeOK, Next
                 PROVE  \A d \in Docs : doc[d].st = "DONE" => Answer(d)' = Answer(d)
      OBVIOUS
    <2>1. \A d \in Docs : DocStep(d)  BY Steps
    <2>2. QED  BY <2>1 DEF DocStep, Frozen, Answer
  <1>2. QED  BY <1>1, PrintingTypeCorrect, PTL DEF Spec, OneAnswer
------------------------------------------------------------------------------
\* The items of a certificate (module CertItems).

\* Every row is a row.
RowsTyped == rows \in Seq(Items!ItemRow)

\* The certificate is a record; that its totals are numbers is left to its sums.
CertShape ==
    cert \in [kind : Items!Kinds, st : Items!Status,
              total : {cert.total}, net : {cert.net}, fine : {cert.fine}]

WindowShape ==
    /\ window \in [step : {"closed", "open", "saving", "moving"}, st : Items!Status,
                   loaded : SUBSET DOMAIN rows, media : SUBSET DOMAIN rows, files : SUBSET DOMAIN rows]
    /\ window.files \subseteq window.loaded
    /\ window.step = "closed" => window = Items!Closed
    /\ cert.st = "none" => window.step = "closed"

\* The rows are numbered in the order they came in.
Numbered == \A i \in DOMAIN rows : rows[i].seq = i

\* The items of a photo certificate stay what the window was loaded with, and a
\* photo the window counts on is there or still to be sent.
WindowKnows ==
    cert.kind = "photo" =>
        /\ \A i \in DOMAIN rows : ~rows[i].gone
        /\ window.step # "closed" => window.loaded = DOMAIN rows
        /\ \A i \in window.media : rows[i].photo
        /\ window.step = "saving" => \A i \in window.loaded \ window.files : rows[i].photo
        /\ window.step = "moving" => \A i \in window.loaded : rows[i].photo

ItemsInv ==
    /\ RowsTyped /\ CertShape /\ WindowShape
    /\ Items!TotalsAreSums /\ Numbered /\ WindowKnows /\ Items!WindowNeverStrands

\* What is calculated from: a typed item, or a reading of the results window.
Input == [gross : Nat, test : Nat, purity : Nat, rate : Nat, returned : BOOLEAN]

LEMMA HalfUpNat ==
    ASSUME NEW n \in Nat
    PROVE  Items!HalfUp(n, 10) \in Nat /\ Items!HalfUp(n, Items!Whole) \in Nat
  <1>1. (2 * n + 10) \div 20 \in Nat  OBVIOUS
  <1>2. (2 * n + 10000) \div 20000 \in Nat  OBVIOUS
  <1>3. QED  BY <1>1, <1>2 DEF Items!HalfUp, Items!Whole

LEMMA TimesNat ==
    ASSUME NEW m \in Nat, NEW n \in Nat
    PROVE  m * n \in Nat
  OBVIOUS

\* Weights, fine weight and price of what is accepted are numbers.
LEMMA WeightsTyped ==
    ASSUME NEW x \in Input, Items!Weighable(x), x.purity \in 0..Items!Whole, NEW kind
    PROVE  /\ Items!Net(x) \in Nat /\ Items!Fine(x) \in Nat
           /\ Items!Amount(kind, x) \in Nat
  <1>1. x.gross \in Nat /\ x.test \in Nat /\ x.purity \in Nat /\ x.rate \in Nat
    BY DEF Input
  <1>2. x.gross - x.test \in Nat
    BY <1>1 DEF Items!Weighable
  <1>3. Items!Net(x) \in Nat
    BY <1>2, HalfUpNat DEF Items!Net
  <1>4. Items!Net(x) * x.purity \in Nat
    BY <1>1, <1>3, TimesNat
  <1>5. Items!Fine(x) \in Nat
    BY <1>4, HalfUpNat DEF Items!Fine
  <1>6. Items!Fine(x) * x.rate \in Nat
    BY <1>1, <1>5, TimesNat
  <1>7. Items!HalfUp(Items!Fine(x) * x.rate, 10) \in Nat
    BY <1>6, HalfUpNat
  <1>8. Items!Amount(kind, x) \in Nat
    BY <1>7 DEF Items!Amount
  <1>9. QED  BY <1>3, <1>5, <1>8

LEMMA AcceptedIs ==
    ASSUME NEW kind, NEW x, NEW b, Items!Accepted(kind, x, b)
    PROVE  Items!Weighable(x) /\ x.purity \in 0..Items!Whole
  BY DEF Items!Accepted

LEMMA ItemTyped ==
    ASSUME NEW kind \in Items!Kinds, NEW x \in Input, NEW seq \in Nat, NEW b \in BOOLEAN,
           kind = "photo" \/ Items!Accepted(kind, x, b)
    PROVE  /\ Items!ItemOf(kind, x, seq) \in Items!ItemRow
           /\ ~Items!ItemOf(kind, x, seq).gone
           /\ Items!ItemOf(kind, x, seq).seq = seq
  <1>1. x.gross \in Nat /\ x.test \in Nat /\ x.purity \in Nat /\ x.rate \in Nat /\ x.returned \in BOOLEAN
    BY DEF Input
  <1>2. CASE kind = "photo"
    <2>1. Items!HalfUp(x.gross, 10) \in Nat  BY <1>1, HalfUpNat
    <2>2. Items!Amount(kind, x) = 0  BY <1>2 DEF Items!Amount
    <2>3. QED  BY <1>1, <1>2, <2>1, <2>2 DEF Items!ItemOf, Items!ItemRow
  <1>3. CASE kind # "photo"
    <2>1. Items!Accepted(kind, x, b)  BY <1>3
    <2>2. Items!Net(x) \in Nat /\ Items!Fine(x) \in Nat /\ Items!Amount(kind, x) \in Nat
      BY <2>1, AcceptedIs, WeightsTyped
    <2>3. QED  BY <1>1, <1>3, <2>2 DEF Items!ItemOf, Items!ItemRow
  <1>4. QED  BY <1>2, <1>3

\* A row written again with what was sent keeps its photo.
LEMMA RewrittenTyped ==
    ASSUME NEW r \in Items!ItemRow, NEW x \in Input, NEW b \in BOOLEAN,
           cert.kind \in Items!Kinds, Items!Accepted(cert.kind, x, b)
    PROVE  /\ Items!Rewritten(r, x) \in Items!ItemRow
           /\ ~Items!Rewritten(r, x).gone
           /\ Items!Rewritten(r, x).seq = r.seq
  <1> DEFINE w == Items!ItemOf(cert.kind, x, r.seq)
  <1>1. r.seq \in Nat /\ r.photo \in BOOLEAN  BY DEF Items!ItemRow
  <1>2. w \in Items!ItemRow /\ ~w.gone /\ w.seq = r.seq
    BY <1>1, ItemTyped
  <1>3. Items!Rewritten(r, x) = [w EXCEPT !.photo = r.photo]
    BY DEF Items!Rewritten
  <1> HIDE DEF w
  <1>4. /\ [w EXCEPT !.photo = r.photo] \in Items!ItemRow
        /\ [w EXCEPT !.photo = r.photo].gone = w.gone
        /\ [w EXCEPT !.photo = r.photo].seq = w.seq
    BY <1>1, <1>2 DEF Items!ItemRow
  <1>5. QED  BY <1>2, <1>3, <1>4

------------------------------------------------------------------------------
\* The roll-up

LEMMA TotalledIs ==
    ASSUME CertShape, NEW rs
    PROVE  Items!Totalled(cert, rs) =
             [kind |-> cert.kind, st |-> cert.st, total |-> Items!WorthOf(rs),
              net |-> IF cert.kind = "photo" THEN 0 ELSE Items!NetOf(rs),
              fine |-> IF cert.kind = "gold" THEN Items!FineOf(rs) ELSE 0]
  <1> DEFINE total == Items!WorthOf(rs)
             net   == IF cert.kind = "photo" THEN 0 ELSE Items!NetOf(rs)
             fine  == IF cert.kind = "gold" THEN Items!FineOf(rs) ELSE 0
  <1>1. Items!Totalled(cert, rs) = [cert EXCEPT !.total = total, !.net = net, !.fine = fine]
    BY DEF Items!Totalled
  <1> HIDE DEF total, net, fine
  <1>2. [cert EXCEPT !.total = total, !.net = net, !.fine = fine]
          = [kind |-> cert.kind, st |-> cert.st, total |-> total, net |-> net, fine |-> fine]
    <2> DEFINE c1 == [kind |-> cert.kind, st |-> cert.st, total |-> total, net |-> cert.net, fine |-> cert.fine]
               c2 == [kind |-> cert.kind, st |-> cert.st, total |-> total, net |-> net, fine |-> cert.fine]
    <2>1. [cert EXCEPT !.total = total] = c1  BY DEF CertShape
    <2>2. [c1 EXCEPT !.net = net] = c2  OBVIOUS
    <2>3. [c2 EXCEPT !.fine = fine]
            = [kind |-> cert.kind, st |-> cert.st, total |-> total, net |-> net, fine |-> fine]
      OBVIOUS
    <2> HIDE DEF c1, c2
    <2>4. QED  BY <2>1, <2>2, <2>3, Zenon
  <1>3. QED  BY <1>1, <1>2 DEF total, net, fine

LEMMA StoresIs ==
    ASSUME CertShape, NEW rs, Items!Stores(rs)
    PROVE  /\ rows' = rs /\ CertShape' /\ Items!TotalsAreSums'
           /\ cert'.kind = cert.kind /\ cert'.st = cert.st
  <1>1. rows' = rs /\ said' = FALSE /\ cert' = Items!Totalled(cert, rs)
    BY DEF Items!Stores
  <1>2. cert' = [kind |-> cert.kind, st |-> cert.st, total |-> Items!WorthOf(rs),
                 net |-> IF cert.kind = "photo" THEN 0 ELSE Items!NetOf(rs),
                 fine |-> IF cert.kind = "gold" THEN Items!FineOf(rs) ELSE 0]
    BY <1>1, TotalledIs
  <1>3. CertShape'
    BY <1>2 DEF CertShape
  <1>4. Items!TotalsAreSums'
    BY <1>1, <1>2 DEF Items!TotalsAreSums, Items!Metal
  <1>5. QED  BY <1>1, <1>2, <1>3, <1>4

------------------------------------------------------------------------------
\* What the steps do to the rows, and to the window

\* Rows that may take the place of the present ones: typed, and numbered in their
\* order; of a photo certificate no row and no photo goes.
Fits(rs) ==
    /\ rs \in Seq(Items!ItemRow) /\ DOMAIN rows \subseteq DOMAIN rs
    /\ \A i \in DOMAIN rs : rs[i].seq = i
    /\ cert.kind = "photo" => /\ DOMAIN rs = DOMAIN rows
                              /\ \A i \in DOMAIN rs : ~rs[i].gone /\ (rows[i].photo => rs[i].photo)

LEMMA AllLive ==
    ASSUME RowsTyped, \A i \in DOMAIN rows : ~rows[i].gone
    PROVE  Items!Live = DOMAIN rows
  BY DEF Items!Live, Items!LiveIn

\* The rows and the window change; the certificate stays where it is.
LEMMA BothChange ==
    ASSUME ItemsInv, Fits(rows'), CertShape', Items!TotalsAreSums', cert'.kind = cert.kind, cert'.st = cert.st,
           WindowShape', WindowKnows', dragged' = dragged
    PROVE  ItemsInv'
  <1>1. RowsTyped' /\ Numbered'
    BY DEF Fits, RowsTyped, Numbered
  <1>2. Items!WindowNeverStrands'
    <2> SUFFICES ASSUME cert.kind = "photo", cert.st \in {"IN_PROGRESS", "DONE"}, ~dragged PROVE Items!Pictured'
      BY DEF Items!WindowNeverStrands
    <2>1. Items!Live = DOMAIN rows  BY AllLive DEF ItemsInv, WindowKnows
    <2>2. \A i \in DOMAIN rows : rows[i].photo
      BY <2>1 DEF ItemsInv, Items!WindowNeverStrands, Items!Pictured
    <2>3. \A i \in DOMAIN rows' : rows'[i].photo
      BY <2>2 DEF Fits
    <2>4. QED  BY <2>3 DEF Items!Pictured, Items!Live, Items!LiveIn
  <1>3. QED  BY <1>1, <1>2 DEF ItemsInv

\* A window that stays where it is.
LEMMA RowsChange ==
    ASSUME ItemsInv, Fits(rows'), CertShape', Items!TotalsAreSums', cert'.kind = cert.kind, cert'.st = cert.st,
           window' = window, dragged' = dragged
    PROVE  ItemsInv'
  <1>1. DOMAIN rows \subseteq DOMAIN rows'
    BY DEF Fits
  <1>2. WindowShape'
    BY <1>1 DEF ItemsInv, WindowShape
  <1>3. WindowKnows'
    BY DEF ItemsInv, WindowKnows, WindowShape, Fits
  <1>4. QED  BY <1>2, <1>3, BothChange

LEMMA StoresKeeps ==
    ASSUME ItemsInv, NEW rs, Fits(rs), Items!Stores(rs), window' = window, dragged' = dragged
    PROVE  ItemsInv'
  BY StoresIs, RowsChange DEF ItemsInv

\* A step of the window alone.
LEMMA WindowChange ==
    ASSUME ItemsInv, UNCHANGED <<cert, rows, said, dragged>>, WindowShape', WindowKnows'
    PROVE  ItemsInv'
  <1>1. RowsTyped' /\ CertShape' /\ Numbered'
    BY DEF ItemsInv, RowsTyped, CertShape, Numbered
  <1>2. Items!TotalsAreSums'
    BY DEF ItemsInv, Items!TotalsAreSums
  <1>3. Items!WindowNeverStrands'
    BY DEF ItemsInv, Items!WindowNeverStrands, Items!Pictured, Items!Live, Items!LiveIn
  <1>4. QED  BY <1>1, <1>2, <1>3 DEF ItemsInv

LEMMA ClosedTyped ==
    /\ Items!Closed \in [step : {"closed", "open", "saving", "moving"}, st : Items!Status,
                         loaded : SUBSET DOMAIN rows, media : SUBSET DOMAIN rows, files : SUBSET DOMAIN rows]
    /\ Items!Closed.step = "closed" /\ Items!Closed.files = {} /\ Items!Closed.media = {}
    /\ Items!Closed.loaded = {}
  BY DEF Items!Closed, Items!Status

LEMMA StoppedIs ==
    ASSUME WindowShape
    PROVE  /\ Items!Stopped \in [step : {"closed", "open", "saving", "moving"}, st : Items!Status,
                                 loaded : SUBSET DOMAIN rows, media : SUBSET DOMAIN rows, files : SUBSET DOMAIN rows]
           /\ Items!Stopped.step = "open" /\ Items!Stopped.files = {}
           /\ Items!Stopped.loaded = window.loaded /\ Items!Stopped.media = window.media
  BY DEF Items!Stopped, WindowShape

\* A window that stops knows what it knew.
LEMMA StopsWell ==
    ASSUME ItemsInv, window' = Items!Stopped, Fits(rows'), cert'.kind = cert.kind, cert'.st # "none",
           window.step # "closed"
    PROVE  WindowShape' /\ WindowKnows'
  <1>1. DOMAIN rows \subseteq DOMAIN rows'
    BY DEF Fits
  <1>2. WindowShape'
    BY <1>1, StoppedIs DEF ItemsInv, WindowShape
  <1>3. WindowKnows'
    BY StoppedIs DEF ItemsInv, WindowKnows, Fits, WindowShape
  <1>4. QED  BY <1>2, <1>3

LEMMA SameFits == ItemsInv => Fits(rows)
  BY DEF ItemsInv, Fits, RowsTyped, Numbered, WindowKnows

\* The next number is one; and when it is unused it is the number of the next row,
\* as the items that are left are not more than all.
LEMMA NextSeqIs ==
    ASSUME RowsTyped
    PROVE  /\ Items!NextSeq \in Nat
           /\ Numbered /\ Items!Unused(Items!NextSeq) => Items!NextSeq = Len(rows) + 1
  <1> DEFINE n == Cardinality(Items!Live)
  <1>1. Len(rows) \in Nat /\ DOMAIN rows = 1..Len(rows)  BY DEF RowsTyped
  <1>2. IsFiniteSet(DOMAIN rows) /\ Cardinality(DOMAIN rows) = Len(rows)
    <2> DEFINE l == Len(rows)
    <2>1. l \in Nat  BY <1>1
    <2> HIDE DEF l
    <2>2. IsFiniteSet(1..l) /\ Cardinality(1..l) = IF 1 > l THEN 0 ELSE l - 1 + 1
      BY <2>1, FS_Interval
    <2>3. Cardinality(1..l) = l  BY <2>1, <2>2
    <2>4. QED  BY <1>1, <2>2, <2>3 DEF l
  <1>3. IsFiniteSet(Items!Live) /\ n \in Nat /\ n <= Len(rows)
    <2>1. Items!Live \subseteq DOMAIN rows  BY DEF Items!Live, Items!LiveIn
    <2>2. QED  BY <1>2, <2>1, FS_Subset, FS_CardinalityType
  <1>4. Items!NextSeq = n + 1
    BY DEF Items!NextSeq, Items!Cardinality, Cardinality
  <1> HIDE DEF n
  <1>5. ASSUME Numbered, Items!Unused(Items!NextSeq)
        PROVE  Items!NextSeq = Len(rows) + 1
    <2>1. n + 1 \notin DOMAIN rows
      BY <1>4, <1>5 DEF Numbered, Items!Unused
    <2>2. QED  BY <1>1, <1>3, <1>4, <2>1
  <1>6. QED  BY <1>3, <1>4, <1>5

LEMMA TypedIsInput ==
    ASSUME Items!CertItemsAssumption
    PROVE  Items!Typed \subseteq Input
  BY DEF Items!CertItemsAssumption, Items!Typed, Input

\* What the window sends of a row it was loaded with.
LEMMA ResultIsInput ==
    ASSUME Items!CertItemsAssumption, RowsTyped, NEW i \in DOMAIN rows, NEW p \in Purities, NEW R
    PROVE  Items!Result(i, p, R) \in Input
  <1>1. rows[i] \in Items!ItemRow  BY DEF RowsTyped
  <1>2. rows[i].gross \in Nat /\ rows[i].test \in Nat  BY <1>1 DEF Items!ItemRow
  <1>3. p \in Nat  BY DEF Items!CertItemsAssumption
  <1>4. QED  BY <1>2, <1>3 DEF Items!Result, Input

\* No rows have no weight and no worth.
LEMMA EmptySums == Items!WorthOf(<<>>) = 0 /\ Items!NetOf(<<>>) = 0 /\ Items!FineOf(<<>>) = 0
  <1> DEFINE S == Items!LiveIn(<<>>)
  <1>1. S = {}
    BY DEF Items!LiveIn
  <1>2. Items!WorthOf(<<>>) = 0
    <2> DEFINE F(g) == [s \in SUBSET S |-> IF s = {} THEN 0
                                           ELSE (<<>>[CHOOSE x \in s : TRUE]).amount + g[s \ {CHOOSE x \in s : TRUE}]]
               G == CHOOSE g : g = F(g)
    <2>1. Items!WorthOf(<<>>) = G[S]
      BY DEF Items!WorthOf, Items!SumOf, Items!MapThenSumSet, Items!MapThenFoldSet
    <2>2. F([s \in SUBSET S |-> 0]) = [s \in SUBSET S |-> 0]
      BY <1>1
    <2>3. G = F(G)
      BY <2>2
    <2>4. QED  BY <1>1, <2>1, <2>3
  <1>3. Items!NetOf(<<>>) = 0
    <2> DEFINE F(g) == [s \in SUBSET S |-> IF s = {} THEN 0
                                           ELSE (<<>>[CHOOSE x \in s : TRUE]).net + g[s \ {CHOOSE x \in s : TRUE}]]
               G == CHOOSE g : g = F(g)
    <2>1. Items!NetOf(<<>>) = G[S]
      BY DEF Items!NetOf, Items!SumOf, Items!MapThenSumSet, Items!MapThenFoldSet
    <2>2. F([s \in SUBSET S |-> 0]) = [s \in SUBSET S |-> 0]
      BY <1>1
    <2>3. G = F(G)
      BY <2>2
    <2>4. QED  BY <1>1, <2>1, <2>3
  <1>4. Items!FineOf(<<>>) = 0
    <2> DEFINE F(g) == [s \in SUBSET S |-> IF s = {} THEN 0
                                           ELSE (<<>>[CHOOSE x \in s : TRUE]).fine + g[s \ {CHOOSE x \in s : TRUE}]]
               G == CHOOSE g : g = F(g)
    <2>1. Items!FineOf(<<>>) = G[S]
      BY DEF Items!FineOf, Items!SumOf, Items!MapThenSumSet, Items!MapThenFoldSet
    <2>2. F([s \in SUBSET S |-> 0]) = [s \in SUBSET S |-> 0]
      BY <1>1
    <2>3. G = F(G)
      BY <2>2
    <2>4. QED  BY <1>1, <2>1, <2>3
  <1>5. QED  BY <1>2, <1>3, <1>4

LEMMA ItemsInit == Items!Init => ItemsInv
  <1> SUFFICES ASSUME Items!Init PROVE ItemsInv
    OBVIOUS
  <1>1. rows = <<>> /\ said = FALSE /\ dragged = FALSE /\ window = Items!Closed
    BY DEF Items!Init
  <1>2. PICK k \in Items!Kinds : cert = [kind |-> k, st |-> "none", total |-> 0, net |-> 0, fine |-> 0]
    BY DEF Items!Init
  <1>3. RowsTyped /\ DOMAIN rows = {}
    BY <1>1 DEF RowsTyped
  <1>4. CertShape
    BY <1>2 DEF CertShape, Items!Status
  <1>5. WindowShape
    BY <1>1, <1>3, ClosedTyped DEF WindowShape
  <1>6. Numbered /\ WindowKnows /\ Items!WindowNeverStrands
    BY <1>1, <1>2, <1>3, ClosedTyped DEF Numbered, WindowKnows, Items!WindowNeverStrands
  <1>7. Items!TotalsAreSums
    BY <1>1, <1>2, EmptySums DEF Items!TotalsAreSums
  <1>8. QED  BY <1>3, <1>4, <1>5, <1>6, <1>7 DEF ItemsInv

------------------------------------------------------------------------------
\* Registration

LEMMA ListIs ==
    ASSUME NEW ins \in Items!Lists
    PROVE  \E n \in {1, 2} : ins \in [1..n -> Items!Typed] /\ Len(ins) = n
  BY DEF Items!Lists

LEMMA ItemsOfTyped ==
    ASSUME Items!CertItemsAssumption, cert.kind \in Items!Kinds, NEW ins \in Items!Lists, NEW b \in BOOLEAN,
           \A i \in DOMAIN ins : cert.kind = "photo" \/ Items!Accepted(cert.kind, ins[i], b)
    PROVE  /\ Items!ItemsOf(ins) \in Seq(Items!ItemRow) /\ 1 \in DOMAIN Items!ItemsOf(ins)
           /\ \A i \in DOMAIN Items!ItemsOf(ins) :
                /\ ~Items!ItemsOf(ins)[i].gone
                /\ Items!ItemsOf(ins)[i].seq = i
  <1>1. PICK n \in {1, 2} : ins \in [1..n -> Items!Typed]
    BY ListIs
  <1>2. \A i \in 1..n : ins[i] \in Input /\ i \in Nat
    BY <1>1, TypedIsInput
  <1>3. \A i \in 1..n : cert.kind = "photo" \/ Items!Accepted(cert.kind, ins[i], b)
    BY <1>1
  <1>4. \A i \in 1..n : /\ Items!ItemOf(cert.kind, ins[i], i) \in Items!ItemRow
                        /\ ~Items!ItemOf(cert.kind, ins[i], i).gone
                        /\ Items!ItemOf(cert.kind, ins[i], i).seq = i
    BY <1>2, <1>3, ItemTyped
  <1>5. Items!ItemsOf(ins) = [i \in 1..n |-> Items!ItemOf(cert.kind, ins[i], i)]
    BY <1>1 DEF Items!ItemsOf
  <1>6. QED  BY <1>4, <1>5

\* A certificate that is registered.
LEMMA NewCert ==
    ASSUME ItemsInv, cert.st = "none", NEW st \in {"TODO", "IN_PROGRESS"}, cert'.st = st, cert'.kind = cert.kind,
           CertShape', Items!TotalsAreSums', rows' \in Seq(Items!ItemRow),
           \A i \in DOMAIN rows' : ~rows'[i].gone /\ rows'[i].seq = i,
           cert.kind = "photo" => st = "TODO", UNCHANGED <<dragged, window>>
    PROVE  ItemsInv'
  <1>1. RowsTyped' /\ Numbered'
    BY DEF RowsTyped, Numbered
  <1>2. window = Items!Closed /\ window' = Items!Closed
    BY DEF ItemsInv, WindowShape
  <1>3. /\ Items!Closed \in [step : {"closed", "open", "saving", "moving"}, st : Items!Status,
                            loaded : SUBSET DOMAIN rows', media : SUBSET DOMAIN rows', files : SUBSET DOMAIN rows']
        /\ Items!Closed.step = "closed" /\ Items!Closed.files = {} /\ Items!Closed.media = {}
        /\ Items!Closed.loaded = {}
    BY DEF Items!Closed, Items!Status
  <1>4. WindowShape' /\ WindowKnows'
    BY <1>2, <1>3 DEF WindowShape, WindowKnows
  <1>5. Items!WindowNeverStrands'
    BY DEF Items!WindowNeverStrands
  <1>6. QED  BY <1>1, <1>4, <1>5 DEF ItemsInv

\* A record of the certificate, written out.
LEMMA CertIs ==
    ASSUME NEW st \in Items!Status, NEW total, NEW net, NEW fine, cert.kind \in Items!Kinds,
           cert' = [kind |-> cert.kind, st |-> st, total |-> total, net |-> net, fine |-> fine]
    PROVE  CertShape' /\ cert'.kind = cert.kind /\ cert'.st = st
           /\ cert'.total = total /\ cert'.net = net /\ cert'.fine = fine
  BY DEF CertShape

LEMMA RegisterKeeps ==
    ASSUME Items!CertItemsAssumption, ItemsInv,
           NEW ins \in Items!Lists, NEW picture \in BOOLEAN, Items!Register(ins, picture)
    PROVE  ItemsInv'
  <1> DEFINE is == Items!ItemsOf(ins)
             rs == IF picture THEN [is EXCEPT ![1].photo = TRUE] ELSE is
  <1>1. /\ cert.st = "none" /\ rows' = rs
        /\ cert' = [Items!Totalled(cert, rs) EXCEPT !.st = "TODO"]
        /\ UNCHANGED <<said, dragged, window>>
        /\ \A i \in DOMAIN ins : cert.kind = "photo" \/ Items!Accepted(cert.kind, ins[i], FALSE)
    BY DEF Items!Register
  <1>2. cert.kind \in Items!Kinds
    BY DEF ItemsInv, CertShape
  <1>3. /\ is \in Seq(Items!ItemRow) /\ 1 \in DOMAIN is
        /\ \A i \in DOMAIN is : ~is[i].gone /\ is[i].seq = i
    BY <1>1, <1>2, ItemsOfTyped
  <1> HIDE DEF is
  <1>4. /\ rs \in Seq(Items!ItemRow)
        /\ \A i \in DOMAIN rs : ~rs[i].gone /\ rs[i].seq = i
    <2>1. CASE ~picture
      BY <1>3, <2>1
    <2>2. CASE picture
      <3> DEFINE r == [is[1] EXCEPT !.photo = TRUE]
      <3>1. is[1] \in Items!ItemRow  BY <1>3
      <3>2. r \in Items!ItemRow /\ r.gone = is[1].gone /\ r.seq = is[1].seq
        BY <3>1 DEF Items!ItemRow
      <3>3. rs = [is EXCEPT ![1] = r]  BY <2>2
      <3> HIDE DEF r, rs
      <3>4. rs \in Seq(Items!ItemRow) /\ DOMAIN rs = DOMAIN is
            /\ \A i \in DOMAIN rs : rs[i] = IF i = 1 THEN r ELSE is[i]
        BY <1>3, <3>2, <3>3
      <3>5. QED  BY <1>3, <3>2, <3>4
    <2>3. QED  BY <2>1, <2>2
  <1> HIDE DEF rs
  <1> DEFINE total == Items!WorthOf(rs)
             net   == IF cert.kind = "photo" THEN 0 ELSE Items!NetOf(rs)
             fine  == IF cert.kind = "gold" THEN Items!FineOf(rs) ELSE 0
  <1>5. Items!Totalled(cert, rs) = [kind |-> cert.kind, st |-> cert.st, total |-> total, net |-> net, fine |-> fine]
    BY TotalledIs DEF ItemsInv
  <1> HIDE DEF total, net, fine
  <1>6. cert' = [kind |-> cert.kind, st |-> "TODO", total |-> total, net |-> net, fine |-> fine]
    BY <1>1, <1>5
  <1>7. /\ CertShape' /\ cert'.kind = cert.kind /\ cert'.st = "TODO"
        /\ cert'.total = total /\ cert'.net = net /\ cert'.fine = fine
    BY <1>2, <1>6, CertIs DEF Items!Status
  <1>8. Items!TotalsAreSums'
    BY <1>1, <1>7 DEF Items!TotalsAreSums, Items!Metal, total, net, fine
  <1>9. QED  BY <1>1, <1>4, <1>7, <1>8, NewCert

LEMMA IssueKeeps ==
    ASSUME Items!CertItemsAssumption, ItemsInv, NEW ins \in Items!Lists, Items!IssueWithTest(ins)
    PROVE  ItemsInv'
  <1> DEFINE rs == Items!ItemsOf(ins)
             fee == Items!FeeAtTest * Len(ins)
  <1>1. /\ cert.st = "none" /\ cert.kind \in Items!Metal /\ rows' = rs
        /\ cert' = [Items!Totalled(cert, rs) EXCEPT !.st = "IN_PROGRESS", !.total = fee]
        /\ said' = TRUE /\ UNCHANGED <<dragged, window>>
    BY DEF Items!IssueWithTest
  <1>2. \A i \in DOMAIN ins : cert.kind = "photo" \/ Items!Accepted(cert.kind, ins[i], TRUE)
    BY DEF Items!IssueWithTest
  <1>3. cert.kind \in Items!Kinds /\ cert.kind # "photo"
    BY <1>1 DEF Items!Kinds, Items!Metal
  <1>4. /\ rs \in Seq(Items!ItemRow)
        /\ \A i \in DOMAIN rs : ~rs[i].gone /\ rs[i].seq = i
    BY <1>2, <1>3, ItemsOfTyped
  <1> HIDE DEF rs, fee
  <1> DEFINE total == Items!WorthOf(rs)
             net   == IF cert.kind = "photo" THEN 0 ELSE Items!NetOf(rs)
             fine  == IF cert.kind = "gold" THEN Items!FineOf(rs) ELSE 0
  <1>5. Items!Totalled(cert, rs) = [kind |-> cert.kind, st |-> cert.st, total |-> total, net |-> net, fine |-> fine]
    BY TotalledIs DEF ItemsInv
  <1> HIDE DEF total, net, fine
  <1>6. cert' = [kind |-> cert.kind, st |-> "IN_PROGRESS", total |-> fee, net |-> net, fine |-> fine]
    <2> DEFINE c == [kind |-> cert.kind, st |-> "IN_PROGRESS", total |-> total, net |-> net, fine |-> fine]
    <2>1. [Items!Totalled(cert, rs) EXCEPT !.st = "IN_PROGRESS"] = c
      BY <1>5
    <2>2. [c EXCEPT !.total = fee]
            = [kind |-> cert.kind, st |-> "IN_PROGRESS", total |-> fee, net |-> net, fine |-> fine]
      OBVIOUS
    <2>3. cert' = [[Items!Totalled(cert, rs) EXCEPT !.st = "IN_PROGRESS"] EXCEPT !.total = fee]
      BY <1>1, Zenon
    <2> HIDE DEF c
    <2>4. QED  BY <2>1, <2>2, <2>3
  <1>7. /\ CertShape' /\ cert'.kind = cert.kind /\ cert'.st = "IN_PROGRESS"
        /\ cert'.net = net /\ cert'.fine = fine
    BY <1>3, <1>6, CertIs DEF Items!Status
  <1>8. Items!TotalsAreSums'
    BY <1>1, <1>3, <1>7 DEF Items!TotalsAreSums, Items!Metal, net, fine
  <1>9. QED  BY <1>1, <1>3, <1>4, <1>7, <1>8, NewCert

------------------------------------------------------------------------------
\* The item editor

LEMMA AddKeeps ==
    ASSUME Items!CertItemsAssumption, ItemsInv, NEW x \in Items!Typed, Items!AddItem(x)
    PROVE  ItemsInv'
  <1> DEFINE r == Items!ItemOf(cert.kind, x, Items!NextSeq)
  <1>1. /\ cert.kind \in Items!Metal /\ Items!Accepted(cert.kind, x, FALSE)
        /\ Items!Stores(Append(rows, r)) /\ UNCHANGED <<dragged, window>>
    BY DEF Items!AddItem, Items!Mutable
  <1>2. cert.kind \in Items!Kinds /\ cert.kind # "photo"
    BY <1>1 DEF Items!Kinds, Items!Metal
  <1>3. x \in Input /\ Items!NextSeq \in Nat
    BY TypedIsInput, NextSeqIs DEF ItemsInv
  <1>4. r \in Items!ItemRow /\ r.seq = Len(rows) + 1
    <2>1. Items!NextSeq = Len(rows) + 1
      BY NextSeqIs DEF Items!AddItem, ItemsInv
    <2>2. QED  BY <1>1, <1>2, <1>3, <2>1, ItemTyped
  <1> HIDE DEF r
  <1>5. Fits(Append(rows, r))
    <2>1. rows \in Seq(Items!ItemRow)  BY DEF ItemsInv, RowsTyped
    <2>2. /\ Append(rows, r) \in Seq(Items!ItemRow)
          /\ DOMAIN Append(rows, r) = DOMAIN rows \cup {Len(rows) + 1}
          /\ Append(rows, r)[Len(rows) + 1] = r
          /\ \A i \in DOMAIN rows : Append(rows, r)[i] = rows[i]
      BY <1>4, <2>1
    <2>3. QED  BY <1>2, <1>4, <2>2 DEF Fits, ItemsInv, Numbered
  <1>6. QED  BY <1>1, <1>5, StoresKeeps

\* One row is replaced in a gold or a silver certificate.
LEMMA OneRow ==
    ASSUME ItemsInv, cert.kind # "photo", NEW i \in DOMAIN rows, NEW r \in Items!ItemRow,
           r.seq = i
    PROVE  Fits([rows EXCEPT ![i] = r])
  <1>1. rows \in Seq(Items!ItemRow)  BY DEF ItemsInv, RowsTyped
  <1> DEFINE rs == [rows EXCEPT ![i] = r]
  <1>2. rs \in Seq(Items!ItemRow) /\ DOMAIN rs = DOMAIN rows
        /\ \A j \in DOMAIN rows : rs[j] = IF j = i THEN r ELSE rows[j]
    BY <1>1
  <1> HIDE DEF rs
  <1>3. Fits(rs)  BY <1>2 DEF Fits, ItemsInv, Numbered
  <1>4. QED  BY <1>3 DEF rs

LEMMA UpdateKeeps ==
    ASSUME Items!CertItemsAssumption, ItemsInv, NEW i \in Items!Live, NEW x \in Items!Typed, Items!UpdateItem(i, x)
    PROVE  ItemsInv'
  <1> DEFINE r == Items!Rewritten(rows[i], x)
  <1>1. /\ cert.kind \in Items!Metal /\ Items!Accepted(cert.kind, x, TRUE)
        /\ Items!Stores([rows EXCEPT ![i] = r]) /\ UNCHANGED <<dragged, window>>
    BY DEF Items!UpdateItem, Items!Mutable
  <1>2. cert.kind \in Items!Kinds /\ cert.kind # "photo" /\ i \in DOMAIN rows
    BY <1>1 DEF Items!Kinds, Items!Metal, Items!Live, Items!LiveIn
  <1>3. x \in Input /\ rows[i] \in Items!ItemRow
    BY <1>2, TypedIsInput DEF ItemsInv, RowsTyped
  <1>4. r \in Items!ItemRow /\ r.seq = i
    BY <1>1, <1>2, <1>3, RewrittenTyped DEF ItemsInv, Numbered
  <1> HIDE DEF r
  <1>5. QED  BY <1>1, <1>2, <1>4, OneRow, StoresKeeps

LEMMA RemoveKeeps ==
    ASSUME ItemsInv, NEW i \in Items!Live, Items!RemoveItem(i)
    PROVE  ItemsInv'
  <1> DEFINE r == [rows[i] EXCEPT !.gone = TRUE]
  <1>1. /\ cert.kind \in Items!Metal
        /\ Items!Stores([rows EXCEPT ![i].gone = TRUE]) /\ UNCHANGED <<dragged, window>>
    BY DEF Items!RemoveItem, Items!Mutable
  <1>2. cert.kind # "photo" /\ i \in DOMAIN rows
    BY <1>1 DEF Items!Metal, Items!Live, Items!LiveIn
  <1>3. rows[i] \in Items!ItemRow
    BY <1>2 DEF ItemsInv, RowsTyped
  <1>4. r \in Items!ItemRow /\ r.seq = i
    BY <1>2, <1>3 DEF Items!ItemRow, ItemsInv, Numbered
  <1>5. Items!Stores([rows EXCEPT ![i] = r])
    BY <1>1
  <1> HIDE DEF r
  <1>6. QED  BY <1>1, <1>2, <1>4, <1>5, OneRow, StoresKeeps

------------------------------------------------------------------------------
\* The results window

LEMMA OpenKeeps ==
    ASSUME ItemsInv, Items!OpenWindow
    PROVE  ItemsInv'
  <1> DEFINE media == {i \in Items!Live : rows[i].photo}
  <1>1. /\ cert.st \in {"TODO", "IN_PROGRESS"}
        /\ window' = [step |-> "open", st |-> cert.st, loaded |-> Items!Live, media |-> media, files |-> {}]
        /\ UNCHANGED <<cert, rows, said, dragged>>
    BY DEF Items!OpenWindow
  <1>2. Items!Live \subseteq DOMAIN rows /\ media \subseteq DOMAIN rows /\ \A i \in media : rows[i].photo
    BY DEF Items!Live, Items!LiveIn
  <1> HIDE DEF media
  <1>3. WindowShape'
    BY <1>1, <1>2 DEF WindowShape, Items!Status
  <1>4. WindowKnows'
    <2>1. cert.kind = "photo" => Items!Live = DOMAIN rows
      BY AllLive DEF ItemsInv, WindowKnows
    <2>2. QED  BY <1>1, <1>2, <2>1 DEF ItemsInv, WindowKnows
  <1>5. QED  BY <1>1, <1>3, <1>4, WindowChange

LEMMA CloseKeeps ==
    ASSUME ItemsInv, Items!CloseWindow
    PROVE  ItemsInv'
  <1>1. window' = Items!Closed /\ UNCHANGED <<cert, rows, said, dragged>>
    BY DEF Items!CloseWindow
  <1>2. WindowShape'
    BY <1>1, ClosedTyped DEF WindowShape
  <1>3. WindowKnows'
    BY <1>1, ClosedTyped DEF ItemsInv, WindowKnows
  <1>4. QED  BY <1>1, <1>2, <1>3, WindowChange

LEMMA StopKeeps ==
    ASSUME ItemsInv, Items!RefusedRequest \/ Items!LostRequest
    PROVE  ItemsInv'
  <1>1. window' = Items!Stopped /\ UNCHANGED <<cert, rows, said, dragged>> /\ window.step \in {"saving", "moving"}
    BY DEF Items!RefusedRequest, Items!Refused, Items!LostRequest
  <1>2. Fits(rows')  BY <1>1, SameFits
  <1>3. WindowShape' /\ WindowKnows'
    BY <1>1, <1>2, StopsWell DEF ItemsInv, WindowShape
  <1>4. QED  BY <1>1, <1>3, WindowChange

LEMMA SubmitKeeps ==
    ASSUME ItemsInv, NEW files \in SUBSET window.loaded, Items!Submit(files)
    PROVE  ItemsInv'
  <1>1. /\ window.step = "open" /\ (cert.kind = "photo" => files \cup window.media = window.loaded)
        /\ window' = [window EXCEPT !.step = "saving", !.files = files]
        /\ UNCHANGED <<cert, rows, said, dragged>>
    BY DEF Items!Submit
  <1>2. /\ window' \in [step : {"closed", "open", "saving", "moving"}, st : Items!Status,
                        loaded : SUBSET DOMAIN rows, media : SUBSET DOMAIN rows, files : SUBSET DOMAIN rows]
        /\ window'.step = "saving" /\ window'.files = files
        /\ window'.loaded = window.loaded /\ window'.media = window.media
    BY <1>1 DEF ItemsInv, WindowShape
  <1>3. WindowShape'
    BY <1>1, <1>2 DEF ItemsInv, WindowShape
  <1>4. WindowKnows'
    BY <1>1, <1>2 DEF ItemsInv, WindowKnows
  <1>5. QED  BY <1>1, <1>3, <1>4, WindowChange

\* Readings that are taken make rows that fit.
LEMMA MeasuredFits ==
    ASSUME Items!CertItemsAssumption, ItemsInv, NEW readings \in Items!Readings, NEW R, Items!Takes(readings, R)
    PROVE  Fits(Items!Measured(readings, R))
  <1> DEFINE r(i) == IF i \notin window.loaded THEN rows[i]
                     ELSE IF cert.kind = "photo" THEN [rows[i] EXCEPT !.purity = readings[i]]
                     ELSE Items!Rewritten(rows[i], Items!Result(i, readings[i], R))
             rs == Items!Measured(readings, R)
  <1>1. /\ rows \in Seq(Items!ItemRow) /\ \A i \in DOMAIN rows : rows[i] \in Items!ItemRow
        /\ window.loaded \subseteq DOMAIN rows /\ cert.kind \in Items!Kinds
    BY DEF ItemsInv, RowsTyped, WindowShape, CertShape
  <1>2. rs = [i \in DOMAIN rows |-> r(i)]
    BY DEF Items!Measured
  <1>3. \A i \in window.loaded : readings[i] \in Purities
    BY DEF Items!Readings
  <1>4. CASE cert.kind = "photo"
    <2>1. ASSUME NEW i \in DOMAIN rows
          PROVE  r(i) \in Items!ItemRow /\ r(i).gone = rows[i].gone /\ r(i).photo = rows[i].photo /\ r(i).seq = i
      <3>1. CASE i \notin window.loaded
        BY <1>1, <3>1 DEF ItemsInv, Numbered
      <3>2. CASE i \in window.loaded
        <4>1. readings[i] \in Nat  BY <1>3, <3>2 DEF Items!CertItemsAssumption
        <4>2. rows[i] \in Items!ItemRow /\ rows[i].seq = i  BY <1>1 DEF ItemsInv, Numbered
        <4>3. r(i) = [rows[i] EXCEPT !.purity = readings[i]]  BY <1>4, <3>2
        <4> HIDE DEF r
        <4>4. QED  BY <4>1, <4>2, <4>3 DEF Items!ItemRow
      <3>3. QED  BY <3>1, <3>2
    <2> HIDE DEF r, rs
    <2>2. rs \in Seq(Items!ItemRow) /\ DOMAIN rs = DOMAIN rows /\ \A i \in DOMAIN rows : rs[i] = r(i)
      BY <1>1, <1>2, <2>1
    <2>3. Fits(rs)
      BY <1>4, <2>1, <2>2 DEF Fits, ItemsInv, WindowKnows
    <2>4. QED  BY <2>3 DEF rs
  <1>5. CASE cert.kind # "photo"
    <2>1. \A i \in window.loaded : Items!Accepted(cert.kind, Items!Result(i, readings[i], R), TRUE)
      BY <1>5 DEF Items!Takes
    <2>2. ASSUME NEW i \in DOMAIN rows
          PROVE  r(i) \in Items!ItemRow /\ r(i).seq = i
      <3>1. CASE i \notin window.loaded
        BY <1>1, <3>1 DEF ItemsInv, Numbered
      <3>2. CASE i \in window.loaded
        <4> DEFINE x == Items!Result(i, readings[i], R)
        <4>1. r(i) = Items!Rewritten(rows[i], x)  BY <1>5, <3>2
        <4>2. readings[i] \in Purities  BY <1>3, <3>2
        <4>3. x \in Input  BY <4>2, ResultIsInput DEF ItemsInv
        <4>4. Items!Accepted(cert.kind, x, TRUE)  BY <2>1, <3>2
        <4> HIDE DEF r, x
        <4>5. rows[i].seq = i  BY DEF ItemsInv, Numbered
        <4>6. QED  BY <1>1, <4>1, <4>3, <4>4, <4>5, RewrittenTyped
      <3>3. QED  BY <3>1, <3>2
    <2> HIDE DEF r, rs
    <2>3. rs \in Seq(Items!ItemRow) /\ DOMAIN rs = DOMAIN rows /\ \A i \in DOMAIN rows : rs[i] = r(i)
      BY <1>1, <1>2, <2>2
    <2>4. Fits(rs)
      BY <1>5, <2>2, <2>3 DEF Fits
    <2>5. QED  BY <2>4 DEF rs
  <1>6. QED  BY <1>4, <1>5

LEMMA DraftKeeps ==
    ASSUME Items!CertItemsAssumption, ItemsInv, NEW readings \in Items!Readings, NEW R,
           Items!SaveDraft(readings, R)
    PROVE  ItemsInv'
  <1>1. Items!Takes(readings, R) /\ Items!Stores(Items!Measured(readings, R)) /\ UNCHANGED <<dragged, window>>
    BY DEF Items!SaveDraft
  <1>2. QED  BY <1>1, MeasuredFits, StoresKeeps

LEMMA UploadKeeps ==
    ASSUME ItemsInv, NEW i \in Items!Live, Items!Upload(i)
    PROVE  ItemsInv'
  <1> DEFINE r == [rows[i] EXCEPT !.photo = TRUE]
             rs == [rows EXCEPT ![i] = r]
             next == [window EXCEPT !.files = window.files \ {i}]
  <1>1. /\ window.step = "saving" /\ i \in window.files
        /\ Items!Stores([rows EXCEPT ![i].photo = TRUE]) /\ dragged' = dragged
        /\ window' = next \/ window' = Items!Stopped
    BY DEF Items!Upload, Items!Then
  <1>2. i \in DOMAIN rows /\ rows \in Seq(Items!ItemRow) /\ rows[i] \in Items!ItemRow
    BY DEF ItemsInv, RowsTyped, Items!Live, Items!LiveIn
  <1>3. r \in Items!ItemRow /\ r.seq = i /\ r.gone = rows[i].gone /\ r.photo = TRUE
    BY <1>2 DEF Items!ItemRow, ItemsInv, Numbered
  <1>4. Items!Stores(rs)
    BY <1>1
  <1> HIDE DEF r
  <1>5. rs \in Seq(Items!ItemRow) /\ DOMAIN rs = DOMAIN rows
        /\ \A j \in DOMAIN rows : rs[j] = IF j = i THEN r ELSE rows[j]
    BY <1>2, <1>3
  <1> HIDE DEF rs
  <1>6. Fits(rs)
    BY <1>3, <1>5 DEF Fits, ItemsInv, Numbered, WindowKnows
  <1>7. rows' = rs /\ CertShape' /\ Items!TotalsAreSums' /\ cert'.kind = cert.kind /\ cert'.st = cert.st
    BY <1>4, StoresIs DEF ItemsInv
  <1>8. WindowShape' /\ WindowKnows'
    <2>1. CASE window' = Items!Stopped
      BY <1>1, <1>6, <1>7, <2>1, StopsWell DEF ItemsInv, WindowShape
    <2>2. CASE window' = next
      <3>1. /\ next \in [step : {"closed", "open", "saving", "moving"}, st : Items!Status,
                         loaded : SUBSET DOMAIN rows, media : SUBSET DOMAIN rows, files : SUBSET DOMAIN rows]
            /\ next.step = "saving" /\ next.files = window.files \ {i}
            /\ next.loaded = window.loaded /\ next.media = window.media
        BY <1>1 DEF ItemsInv, WindowShape
      <3> HIDE DEF next
      <3>2. WindowShape'
        BY <1>1, <1>5, <1>7, <2>2, <3>1 DEF ItemsInv, WindowShape
      <3>3. WindowKnows'
        <4> SUFFICES ASSUME cert.kind = "photo" PROVE WindowKnows'
          BY <1>7 DEF WindowKnows
        <4>1. \A j \in DOMAIN rs : ~rs[j].gone /\ (rows[j].photo => rs[j].photo)
          BY <1>6 DEF Fits
        <4>2. \A j \in window.loaded \ next.files : rs[j].photo
          BY <1>1, <1>2, <1>3, <1>5, <3>1, <4>1 DEF ItemsInv, WindowKnows, WindowShape
        <4>3. window.loaded = DOMAIN rows /\ \A j \in window.media : j \in DOMAIN rows /\ rows[j].photo
          BY <1>1 DEF ItemsInv, WindowKnows, WindowShape
        <4>4. QED  BY <1>5, <1>7, <2>2, <3>1, <4>1, <4>2, <4>3 DEF WindowKnows
      <3>4. QED  BY <3>2, <3>3
    <2>3. QED  BY <1>1, <2>1, <2>2
  <1>9. QED  BY <1>1, <1>6, <1>7, <1>8, BothChange

LEMMA SaveKeeps ==
    ASSUME Items!CertItemsAssumption, ItemsInv, NEW readings \in Items!Readings, NEW R, Items!Save(readings, R)
    PROVE  ItemsInv'
  <1> DEFINE rs == Items!Measured(readings, R)
             next == [window EXCEPT !.step = "moving"]
             total == Items!WorthOf(rs)
             net   == IF cert.kind = "photo" THEN 0 ELSE Items!NetOf(rs)
             fine  == IF cert.kind = "gold" THEN Items!FineOf(rs) ELSE 0
  <1>1. /\ window.step = "saving" /\ window.files = {} /\ Items!Takes(readings, R)
        /\ rows' = rs /\ cert' = [Items!Totalled(cert, rs) EXCEPT !.total = 0]
        /\ said' = TRUE /\ dragged' = dragged
        /\ window' = next \/ window' = Items!Stopped
    BY DEF Items!Save, Items!Then
  <1>2. Fits(rs)
    BY <1>1, MeasuredFits
  <1> HIDE DEF rs
  <1>3. Items!Totalled(cert, rs) = [kind |-> cert.kind, st |-> cert.st, total |-> total, net |-> net, fine |-> fine]
    BY TotalledIs DEF ItemsInv
  <1> HIDE DEF total, net, fine
  <1>4. cert' = [kind |-> cert.kind, st |-> cert.st, total |-> 0, net |-> net, fine |-> fine]
    BY <1>1, <1>3
  <1>5. CertShape' /\ cert'.kind = cert.kind /\ cert'.st = cert.st /\ cert'.net = net /\ cert'.fine = fine
    BY <1>4, CertIs DEF ItemsInv, CertShape
  <1>6. Items!TotalsAreSums'
    BY <1>1, <1>5 DEF Items!TotalsAreSums, Items!Metal, net, fine
  <1>7. WindowShape' /\ WindowKnows'
    <2>1. CASE window' = Items!Stopped
      BY <1>1, <1>2, <1>5, <2>1, StopsWell DEF ItemsInv, WindowShape
    <2>2. CASE window' = next
      <3>1. /\ next \in [step : {"closed", "open", "saving", "moving"}, st : Items!Status,
                         loaded : SUBSET DOMAIN rows, media : SUBSET DOMAIN rows, files : SUBSET DOMAIN rows]
            /\ next.step = "moving" /\ next.files = window.files
            /\ next.loaded = window.loaded /\ next.media = window.media
        BY <1>1 DEF ItemsInv, WindowShape
      <3> HIDE DEF next
      <3>2. DOMAIN rows \subseteq DOMAIN rs  BY <1>2 DEF Fits
      <3>3. WindowShape'
        BY <1>1, <1>5, <2>2, <3>1, <3>2 DEF ItemsInv, WindowShape
      <3>4. WindowKnows'
        BY <1>1, <1>2, <1>5, <2>2, <3>1 DEF ItemsInv, WindowKnows, WindowShape, Fits
      <3>5. QED  BY <3>3, <3>4
    <2>3. QED  BY <1>1, <2>1, <2>2
  <1>8. QED  BY <1>1, <1>2, <1>5, <1>6, <1>7, BothChange

------------------------------------------------------------------------------
\* Status changes

\* The certificate moves, and nothing is done to its rows.
LEMMA StatusChange ==
    ASSUME ItemsInv, NEW st \in {"TODO", "IN_PROGRESS", "DONE"}, cert.st # "none", UNCHANGED rows,
           cert'.st = st, cert'.kind = cert.kind, CertShape', Items!TotalsAreSums', WindowShape', WindowKnows',
           cert.kind = "photo" /\ st \in {"IN_PROGRESS", "DONE"} /\ ~dragged' => Items!Pictured
    PROVE  ItemsInv'
  <1>1. RowsTyped' /\ Numbered'
    BY DEF ItemsInv, RowsTyped, Numbered
  <1>2. Items!WindowNeverStrands'
    BY DEF Items!WindowNeverStrands, Items!Pictured, Items!Live, Items!LiveIn
  <1>3. QED  BY <1>1, <1>2 DEF ItemsInv

LEMMA MovedCert ==
    ASSUME ItemsInv, cert' = [cert EXCEPT !.st = "IN_PROGRESS"], UNCHANGED <<rows, said>>
    PROVE  CertShape' /\ Items!TotalsAreSums' /\ cert'.st = "IN_PROGRESS" /\ cert'.kind = cert.kind
  <1>1. cert' = [kind |-> cert.kind, st |-> "IN_PROGRESS", total |-> cert.total, net |-> cert.net, fine |-> cert.fine]
    BY DEF ItemsInv, CertShape
  <1>2. /\ CertShape' /\ cert'.st = "IN_PROGRESS" /\ cert'.kind = cert.kind
        /\ cert'.total = cert.total /\ cert'.net = cert.net /\ cert'.fine = cert.fine
    BY <1>1, CertIs DEF ItemsInv, CertShape, Items!Status
  <1>3. Items!TotalsAreSums'
    BY <1>2 DEF ItemsInv, Items!TotalsAreSums
  <1>4. QED  BY <1>2, <1>3

LEMMA SameWindow ==
    ASSUME ItemsInv, UNCHANGED <<rows, window>>, cert.st # "none", cert'.st # "none", cert'.kind = cert.kind
    PROVE  WindowShape' /\ WindowKnows'
  <1>1. WindowShape'  BY DEF ItemsInv, WindowShape
  <1>2. WindowKnows'  BY DEF ItemsInv, WindowKnows
  <1>3. QED  BY <1>1, <1>2

LEMMA MoveSavedKeeps ==
    ASSUME ItemsInv, Items!MoveSaved
    PROVE  ItemsInv'
  <1>1. /\ window.step = "moving" /\ cert.st = "TODO"
        /\ cert' = [cert EXCEPT !.st = "IN_PROGRESS"]
        /\ UNCHANGED <<rows, said, dragged>>
        /\ window' = Items!Closed \/ window' = Items!Stopped
    BY DEF Items!MoveSaved, Items!Then
  <1>2. CertShape' /\ Items!TotalsAreSums' /\ cert'.st = "IN_PROGRESS" /\ cert'.kind = cert.kind
    BY <1>1, MovedCert
  <1>3. WindowShape' /\ WindowKnows'
    <2>1. CASE window' = Items!Stopped
      <3>1. Fits(rows')  BY <1>1, SameFits
      <3>2. QED  BY <1>1, <1>2, <2>1, <3>1, StopsWell
    <2>2. CASE window' = Items!Closed
      <3>1. WindowShape'
        BY <1>1, <1>2, <2>2, ClosedTyped DEF WindowShape
      <3>2. WindowKnows'
        BY <1>1, <1>2, <2>2, ClosedTyped DEF ItemsInv, WindowKnows
      <3>3. QED  BY <3>1, <3>2
    <2>3. QED  BY <1>1, <2>1, <2>2
  <1>4. cert.kind = "photo" => Items!Pictured
    BY <1>1 DEF ItemsInv, WindowKnows, Items!Pictured, Items!Live, Items!LiveIn
  <1>5. QED  BY <1>1, <1>2, <1>3, <1>4, StatusChange

LEMMA MoveCardKeeps ==
    ASSUME ItemsInv, Items!MoveCard
    PROVE  ItemsInv'
  <1>1. /\ cert.st = "TODO" /\ cert' = [cert EXCEPT !.st = "IN_PROGRESS"] /\ dragged' = TRUE
        /\ UNCHANGED <<rows, said, window>>
    BY DEF Items!MoveCard
  <1>2. CertShape' /\ Items!TotalsAreSums' /\ cert'.st = "IN_PROGRESS" /\ cert'.kind = cert.kind
    BY <1>1, MovedCert
  <1>3. WindowShape' /\ WindowKnows'
    BY <1>1, <1>2, SameWindow
  <1>4. QED  BY <1>1, <1>2, <1>3, StatusChange

LEMMA FinalizeKeeps ==
    ASSUME ItemsInv, Items!Finalize
    PROVE  ItemsInv'
  <1> DEFINE c == IF cert.kind = "photo" THEN cert ELSE Items!Totalled(cert, rows)
             fee == Items!Fee(cert.kind) * Items!Cardinality(Items!Live)
             net == IF cert.kind = "photo" THEN cert.net ELSE Items!NetOf(rows)
             fine == IF cert.kind = "photo" THEN cert.fine
                     ELSE IF cert.kind = "gold" THEN Items!FineOf(rows) ELSE 0
  <1>1. /\ cert.st = "IN_PROGRESS" /\ (cert.kind = "photo" => Items!Pictured)
        /\ cert' = [c EXCEPT !.st = "DONE", !.total = fee]
        /\ said' = TRUE /\ UNCHANGED <<rows, dragged, window>>
    BY DEF Items!Finalize
  <1> HIDE DEF fee
  <1>2. \E total : c = [kind |-> cert.kind, st |-> cert.st, total |-> total, net |-> net, fine |-> fine]
    <2>1. CASE cert.kind = "photo"
      <3>1. c = [kind |-> cert.kind, st |-> cert.st, total |-> cert.total, net |-> net, fine |-> fine]
        BY <2>1 DEF ItemsInv, CertShape
      <3>2. QED  BY <3>1
    <2>2. CASE cert.kind # "photo"
      <3>1. c = Items!Totalled(cert, rows)  BY <2>2
      <3>2. c = [kind |-> cert.kind, st |-> cert.st, total |-> Items!WorthOf(rows), net |-> net, fine |-> fine]
        BY <2>2, <3>1, TotalledIs DEF ItemsInv
      <3>3. QED  BY <3>2
    <2>3. QED  BY <2>1, <2>2
  <1>3. PICK total : c = [kind |-> cert.kind, st |-> cert.st, total |-> total, net |-> net, fine |-> fine]
    BY <1>2
  <1> HIDE DEF c, net, fine
  <1>4. cert' = [kind |-> cert.kind, st |-> "DONE", total |-> fee, net |-> net, fine |-> fine]
    <2> DEFINE d == [kind |-> cert.kind, st |-> "DONE", total |-> total, net |-> net, fine |-> fine]
    <2>1. [c EXCEPT !.st = "DONE"] = d
      BY <1>3
    <2>2. [d EXCEPT !.total = fee] = [kind |-> cert.kind, st |-> "DONE", total |-> fee, net |-> net, fine |-> fine]
      OBVIOUS
    <2>3. cert' = [[c EXCEPT !.st = "DONE"] EXCEPT !.total = fee]
      BY <1>1, Zenon
    <2> HIDE DEF d
    <2>4. QED  BY <2>1, <2>2, <2>3
  <1>5. CertShape' /\ cert'.kind = cert.kind /\ cert'.st = "DONE" /\ cert'.net = net /\ cert'.fine = fine
    BY <1>4, CertIs DEF ItemsInv, CertShape, Items!Status
  <1>6. Items!TotalsAreSums'
    BY <1>1, <1>5 DEF Items!TotalsAreSums, Items!Metal, net, fine
  <1>7. WindowShape' /\ WindowKnows'
    BY <1>1, <1>5, SameWindow
  <1>8. QED  BY <1>1, <1>5, <1>6, <1>7, StatusChange

LEMMA ItemsNext ==
    ASSUME Items!CertItemsAssumption, ItemsInv, [Items!Next]_(Items!vars)
    PROVE  ItemsInv'
  <1>1. CASE UNCHANGED Items!vars
    <2>1. UNCHANGED <<cert, rows, said, dragged, window>>  BY <1>1 DEF Items!vars
    <2>2. WindowShape' /\ WindowKnows'
      BY <2>1 DEF ItemsInv, WindowShape, WindowKnows
    <2>3. QED  BY <2>1, <2>2, WindowChange
  <1>2. CASE \E ins \in Items!Lists : \/ \E picture \in BOOLEAN : Items!Register(ins, picture)
                                      \/ Items!IssueWithTest(ins)
    BY <1>2, RegisterKeeps, IssueKeeps
  <1>3. CASE \E x \in Items!Typed : Items!AddItem(x) \/ \E i \in Items!Live : Items!UpdateItem(i, x)
    BY <1>3, AddKeeps, UpdateKeeps
  <1>4. CASE \E i \in Items!Live : Items!RemoveItem(i) \/ Items!Upload(i)
    BY <1>4, RemoveKeeps, UploadKeeps
  <1>5. CASE \/ Items!OpenWindow \/ Items!CloseWindow \/ Items!RefusedRequest \/ Items!LostRequest
             \/ \E files \in SUBSET window.loaded : Items!Submit(files)
    BY <1>5, OpenKeeps, CloseKeeps, StopKeeps, SubmitKeeps
  <1>6. CASE \E readings \in Items!Readings, R \in SUBSET window.loaded :
               Items!SaveDraft(readings, R) \/ Items!Save(readings, R)
    BY <1>6, DraftKeeps, SaveKeeps
  <1>7. CASE Items!MoveSaved \/ Items!MoveCard \/ Items!Finalize
    BY <1>7, MoveSavedKeeps, MoveCardKeeps, FinalizeKeeps
  <1>8. QED  BY <1>1, <1>2, <1>3, <1>4, <1>5, <1>6, <1>7 DEF Items!Next

\* The rows are rows, the certificate is one, and the window knows its photos, in
\* every state the items can get into.
THEOREM ItemsInvariant == Items!Spec => []ItemsInv
  <1>1. Items!Init => ItemsInv  BY ItemsInit, ItemsAssumption
  <1>2. ItemsInv /\ [Items!Next]_(Items!vars) => ItemsInv'  BY ItemsNext, ItemsAssumption
  <1>3. QED  BY <1>1, <1>2, PTL DEF Items!Spec

\* The weights of a certificate are the sums over the items it has left, and so is
\* its total until it is paid (rollupTotals in every handler that changes items).
THEOREM TotalsAreSumsCorrect == Items!Spec => []TotalsAreSums
  <1>1. ItemsInv => TotalsAreSums  BY DEF ItemsInv, TotalsAreSums
  <1>2. QED  BY <1>1, ItemsInvariant, PTL

\* No number is given to two items, removed or left: addItems counts the items that
\* are left, and item_number is UNIQUE over all.
THEOREM NumberedOnceCorrect == Items!Spec => []NumberedOnce
  <1>1. ItemsInv => NumberedOnce
    BY DEF ItemsInv, Numbered, NumberedOnce, Items!NumberedOnce
  <1>2. QED  BY <1>1, ItemsInvariant, PTL

\* A photo certificate that the results window moved on has all its photos, for
\* any number of items, faults and desks.
THEOREM WindowNeverStrandsCorrect == Items!Spec => []WindowNeverStrands
  <1>1. ItemsInv => WindowNeverStrands  BY DEF ItemsInv, WindowNeverStrands
  <1>2. QED  BY <1>1, ItemsInvariant, PTL
================================================================================
