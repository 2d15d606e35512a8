---------------------------- MODULE Ledger_proofs ----------------------------
(***************************************************************************)
(* Theorems about the accounts and the forms, for every set of customers,  *)
(* telephone numbers, documents and forms and every bound.                 *)
(***************************************************************************)
EXTENDS Ledger, TLAPS

USE LedgerAssumption

------------------------------------------------------------------------------
\* What single operators do

\* Posting to an account keeps the tables well-typed, the balances rolled up and
\* everything but one balance as it was.
LEMMA PostFact ==
    ASSUME TypeOK, NEW c \in Customers, NEW d \in Nat, NEW k \in Nat, Post(c, d, k)
    PROVE  /\ customer' \in [Customers -> Customer]
           /\ debits'  \in [Customers -> Nat]
           /\ credits' \in [Customers -> Nat]
           /\ \A x \in Customers : /\ customer'[x].st = customer[x].st
                                   /\ customer'[x].phone = customer[x].phone
           /\ \A x \in Customers \ {c} : /\ customer'[x] = customer[x]
                                         /\ debits'[x] = debits[x]
                                         /\ credits'[x] = credits[x]
           /\ customer'[c].balance = debits'[c] - credits'[c]
  BY DEF TypeOK, Customer, Post

\* A charge is such a posting, and one row of the register at most.
LEMMA RevenueFact ==
    ASSUME TypeOK, NEW d \in Docs, NEW c \in Customers, NEW m \in Mode, NEW a \in Amounts,
           RecordRevenue(d, c, m, a)
    PROVE  /\ Post(c, a, Paid(m, a)) /\ Paid(m, a) \in Nat /\ a \in Nat
           /\ register' \in [Docs \cup Forms -> [in : Nat, out : Nat]]
  <1>1. /\ Post(c, a, Paid(m, a)) /\ Paid(m, a) \in Nat /\ a \in Nat
    BY DEF RecordRevenue, Paid
  <1>2. register' \in [Docs \cup Forms -> [in : Nat, out : Nat]]
    BY DEF RecordRevenue, CashType, TypeOK
  <1> QED BY <1>1, <1>2

\* A served request posts to the customer of the form, or to none.
LEMMA WriteFact ==
    ASSUME TypeOK, NEW f \in Forms, Accepts(f), Write(f),
           form[f].kind # "cash" => form[f].cust \in Customers
    PROVE  /\ \/ UNCHANGED accounts
              \/ /\ form[f].cust \in Customers /\ On(form[f].cust)
                 /\ \E d, k \in Nat : Post(form[f].cust, d, k)
           /\ register' \in [Docs \cup Forms -> [in : Nat, out : Nat]]
  <1>1. form[f].amount \in Nat /\ form[f].kind \in Kind
    BY DEF TypeOK, Form, Kind
  <1>2. CASE form[f].kind \in {"CREDIT", "DEBIT"}
    <2>1. CreditEntry(form[f].cust, form[f].kind, form[f].amount) BY <1>2 DEF Write
    <2> QED BY <1>1, <1>2, <2>1 DEF CreditEntry, Accepts, TypeOK
  <1>4. CASE form[f].kind \in {"loss", "lossPage"}
    <2>1. UNCHANGED <<accounts, register>> BY <1>4 DEF Write, LossEntry
    <2> QED BY <2>1 DEF TypeOK
  <1>5. CASE form[f].kind = "cash"
    <2>1. /\ UNCHANGED accounts
          /\ \E t \in {"in", "out"} : register' = [register EXCEPT ![f][t] = @ + 1]
      BY <1>5 DEF Write, CashEntry
    <2> QED BY <2>1 DEF TypeOK
  <1> QED BY <1>1, <1>2, <1>4, <1>5 DEF Kind

------------------------------------------------------------------------------
\* The inductive invariant

\* A form concerns a customer unless it is the cash page's.  A modal has one
\* request under way at most, none while its button can be pressed, never repeats
\* it by itself, and shows success once.  A page owes every row and every request
\* under way to a press or to a lost answer.
ModalInv(row) ==
    /\ row.first <= 1 /\ row.second = 0
    /\ row.st \in {"blank", "open"} => row.first = 0
    /\ row.told => row.st = "closed" /\ row.first = 0
    /\ row.rows <= row.lost + (IF row.told THEN 1 ELSE 0)

PageInv(row) == row.rows + row.first + row.second <= row.presses + row.lost

RowInv(row) ==
    /\ row.kind # "cash" => row.cust \in Customers
    /\ IF row.kind \in {"CREDIT", "DEBIT", "loss"} THEN ModalInv(row) ELSE PageInv(row)

FormInv == \A f \in Forms : RowInv(form[f])

\* Nothing is booked for a customer who is not there yet, or no more.
NoAccount ==
    \A c \in Customers : customer[c].st \in {"none", "gone"} => debits[c] = 0 /\ credits[c] = 0

\* A document that can still be closed belongs to a customer.
DocInv == \A d \in Docs : doc[d].st \in {"open", "issued"} => doc[d].cust \in Customers

LedgerInv == TypeOK /\ BalanceIsRows /\ NoAccount /\ PhonesUnique /\ DocInv /\ FormInv

LEMMA FormsKept ==
    ASSUME FormInv, UNCHANGED form
    PROVE  FormInv'
  BY DEF FormInv

\* An account step keeps the roll-ups and the telephone numbers.
LEMMA PostKeeps ==
    ASSUME TypeOK, BalanceIsRows, NoAccount, PhonesUnique,
           NEW c \in Customers, On(c), NEW d \in Nat, NEW k \in Nat, Post(c, d, k)
    PROVE  BalanceIsRows' /\ NoAccount' /\ PhonesUnique'
  <1>1. BalanceIsRows' BY PostFact DEF BalanceIsRows
  <1>2. NoAccount'     BY PostFact DEF NoAccount, On
  <1>3. PhonesUnique'  BY PostFact DEF PhonesUnique, On
  <1> QED BY <1>1, <1>2, <1>3

LEMMA AccountsKept ==
    ASSUME BalanceIsRows, NoAccount, PhonesUnique, UNCHANGED accounts
    PROVE  BalanceIsRows' /\ NoAccount' /\ PhonesUnique'
  BY DEF BalanceIsRows, NoAccount, PhonesUnique, On, accounts

LEMMA InitLedger == Init => LedgerInv
  <1> SUFFICES ASSUME Init PROVE LedgerInv OBVIOUS
  <1>1. TypeOK
    BY DEF Init, TypeOK, NoCust, Customer, NoDoc, Document, Doc, Mode, Blank, Form, NoRows, Kind
  <1>2. BalanceIsRows BY DEF Init, BalanceIsRows, NoCust
  <1>3. NoAccount /\ PhonesUnique BY DEF Init, NoAccount, PhonesUnique, On, NoCust
  <1>4. DocInv        BY DEF Init, DocInv, NoDoc, Document
  <1>5. FormInv       BY DEF Init, FormInv, RowInv, Blank, PageInv
  <1> QED BY <1>1, <1>2, <1>3, <1>4, <1>5 DEF LedgerInv

\* One lemma for each group of actions.
LEMMA CustomerStep ==
    ASSUME LedgerInv, NEW c \in Customers,
           ToggleStatus(c) \/ \E p \in Phones : CreateCustomer(c, p) \/ UpdateCustomer(c, p)
    PROVE  LedgerInv'
  <1> USE DEF LedgerInv
  <1>1. CASE ToggleStatus(c)
    <2>1. TypeOK'        BY <1>1 DEF ToggleStatus, TypeOK, Customer
    <2>2. BalanceIsRows' BY <1>1 DEF ToggleStatus, TypeOK, Customer, BalanceIsRows
    <2>3. NoAccount'     BY <1>1 DEF ToggleStatus, TypeOK, Customer, NoAccount, On
    <2>4. PhonesUnique'  BY <1>1 DEF ToggleStatus, TypeOK, Customer, PhonesUnique, On
    <2>5. DocInv' /\ FormInv' BY <1>1, FormsKept DEF ToggleStatus, DocInv
    <2> QED BY <2>1, <2>2, <2>3, <2>4, <2>5
  <1>2. ASSUME NEW p \in Phones, CreateCustomer(c, p) PROVE LedgerInv'
    <2>0. debits[c] = 0 /\ credits[c] = 0 BY <1>2 DEF CreateCustomer, NoAccount
    <2>1. TypeOK'        BY <1>2 DEF CreateCustomer, TypeOK, Customer
    <2>2. BalanceIsRows' BY <1>2, <2>0 DEF CreateCustomer, TypeOK, Customer, BalanceIsRows
    <2>3. NoAccount'     BY <1>2, <2>0 DEF CreateCustomer, TypeOK, Customer, NoAccount
    <2>4. PhonesUnique'
      BY <1>2 DEF CreateCustomer, TypeOK, Customer, PhonesUnique, PhoneTaken, On
    <2>5. DocInv' /\ FormInv' BY <1>2, FormsKept DEF CreateCustomer, DocInv
    <2> QED BY <2>1, <2>2, <2>3, <2>4, <2>5
  <1>3. ASSUME NEW p \in Phones, UpdateCustomer(c, p) PROVE LedgerInv'
    <2>1. TypeOK'        BY <1>3 DEF UpdateCustomer, TypeOK, Customer
    <2>2. BalanceIsRows' BY <1>3 DEF UpdateCustomer, TypeOK, Customer, BalanceIsRows
    <2>3. NoAccount'     BY <1>3 DEF UpdateCustomer, TypeOK, Customer, NoAccount
    <2>4. PhonesUnique'
      BY <1>3 DEF UpdateCustomer, TypeOK, Customer, PhonesUnique, PhoneTaken, On
    <2>5. DocInv' /\ FormInv' BY <1>3, FormsKept DEF UpdateCustomer, DocInv
    <2> QED BY <2>1, <2>2, <2>3, <2>4, <2>5
  <1> QED BY <1>1, <1>2, <1>3

LEMMA DocStep ==
    ASSUME LedgerInv, NEW d \in Docs, NEW m \in Mode,
           \/ \E c \in Customers : \/ Register(d, c, m)
                                   \/ \E a \in Amounts : IssueCharged(d, c, m, a)
           \/ \E a \in Amounts : Finalize(d, m, a)
    PROVE  LedgerInv'
  <1> USE DEF LedgerInv
  <1>1. ASSUME NEW c \in Customers, Register(d, c, m) PROVE LedgerInv'
    <2>1. TypeOK' BY <1>1 DEF Register, TypeOK, Doc, Document, accounts
    <2>2. DocInv' /\ FormInv' BY <1>1, FormsKept DEF Register, TypeOK, Doc, Document, DocInv
    <2> QED BY <1>1, <2>1, <2>2, AccountsKept DEF Register
  <1>2. ASSUME NEW c \in Customers, NEW a \in Amounts, IssueCharged(d, c, m, a) PROVE LedgerInv'
    <2>1. On(c) /\ RecordRevenue(d, c, m, a) BY <1>2 DEF IssueCharged
    <2>2. TypeOK'
      BY <1>2, <2>1, RevenueFact, PostFact DEF IssueCharged, TypeOK, Doc, Document
    <2>3. BalanceIsRows' /\ NoAccount' /\ PhonesUnique' BY <2>1, RevenueFact, PostKeeps
    <2>4. DocInv' /\ FormInv' BY <1>2, FormsKept DEF IssueCharged, TypeOK, Doc, Document, DocInv
    <2> QED BY <2>2, <2>3, <2>4
  <1>3. ASSUME NEW a \in Amounts, Finalize(d, m, a) PROVE LedgerInv'
    <2> DEFINE c == doc[d].cust
    <2>1. On(c) BY <1>3 DEF Finalize
    <2>2. CASE doc[d].debit > 0
      <3>1. TypeOK' BY <1>3, <2>2 DEF Finalize, TypeOK, Doc, Document, accounts
      <3>2. DocInv' /\ FormInv' BY <1>3, <2>2, FormsKept DEF Finalize, TypeOK, Doc, Document, DocInv
      <3> QED BY <1>3, <2>2, <3>1, <3>2, AccountsKept DEF Finalize
    <2>3. CASE ~(doc[d].debit > 0)
      <3>1. c \in Customers BY <1>3 DEF Finalize, DocInv
      <3>2. RecordRevenue(d, c, m, a) BY <1>3, <2>3 DEF Finalize
      <3>3. doc' \in [Docs -> Doc]
        <4>1. doc' = [doc EXCEPT ![d] = Document("done", c, m, a, Paid(m, a))]
          BY <1>3, <2>3 DEF Finalize
        <4>2. Document("done", c, m, a, Paid(m, a)) \in Doc
          BY <3>1, <3>2, RevenueFact DEF Document, Doc
        <4> QED BY <4>1, <4>2 DEF TypeOK
      <3>6. TypeOK'
        BY <1>3, <3>1, <3>2, <3>3, RevenueFact, PostFact DEF Finalize, TypeOK
      <3>4. BalanceIsRows' /\ NoAccount' /\ PhonesUnique'
        BY <2>1, <3>1, <3>2, RevenueFact, PostKeeps
      <3>5. DocInv' /\ FormInv' BY <1>3, <2>3, FormsKept DEF Finalize, TypeOK, Doc, Document, DocInv
      <3> QED BY <3>4, <3>5, <3>6
    <2> QED BY <2>2, <2>3
  <1> QED BY <1>1, <1>2, <1>3

\* Assigning to one field of a form.
LEMMA SetField ==
    ASSUME NEW r \in Form, NEW n \in Nat, NEW st \in {"blank", "open", "sent", "closed"}
    PROVE  /\ [r EXCEPT !.presses = n] \in Form /\ [r EXCEPT !.first = n] \in Form
           /\ [r EXCEPT !.second = n] \in Form  /\ [r EXCEPT !.rows = n] \in Form
           /\ [r EXCEPT !.lost = n] \in Form    /\ [r EXCEPT !.st = st] \in Form
           /\ [r EXCEPT !.told = TRUE] \in Form
  BY DEF Form

\* The rows the actions leave behind are forms.
LEMMA FormRows ==
    ASSUME NEW r \in Form, NEW p \in Nat, NEW q \in Nat, NEW u \in Nat,
           NEW st \in {"blank", "open", "sent", "closed"}
    PROVE  /\ [r EXCEPT !.presses = p, !.first = q, !.st = st] \in Form
           /\ [r EXCEPT !.first = q, !.st = st] \in Form
           /\ [r EXCEPT !.first = p, !.second = q] \in Form
           /\ [r EXCEPT !.first = p, !.rows = q, !.told = TRUE, !.st = st] \in Form
           /\ [r EXCEPT !.second = p, !.rows = q, !.told = TRUE, !.st = st] \in Form
           /\ [r EXCEPT !.rows = p, !.lost = q] \in Form
           /\ [r EXCEPT !.second = u, !.rows = p, !.lost = q] \in Form
  <1>1. [r EXCEPT !.presses = p, !.first = q, !.st = st] \in Form
    <2>1. [r EXCEPT !.presses = p] \in Form
      BY SetField
    <2>2. [r EXCEPT !.presses = p, !.first = q] \in Form
      BY <2>1, SetField
    <2> QED BY <2>2, SetField
  <1>2. [r EXCEPT !.first = q, !.st = st] \in Form
    <2>1. [r EXCEPT !.first = q] \in Form
      BY SetField
    <2> QED BY <2>1, SetField
  <1>3. [r EXCEPT !.first = p, !.second = q] \in Form
    <2>1. [r EXCEPT !.first = p] \in Form
      BY SetField
    <2> QED BY <2>1, SetField
  <1>4. [r EXCEPT !.first = p, !.rows = q, !.told = TRUE, !.st = st] \in Form
    <2>1. [r EXCEPT !.first = p] \in Form
      BY SetField
    <2>2. [r EXCEPT !.first = p, !.rows = q] \in Form
      BY <2>1, SetField
    <2>3. [r EXCEPT !.first = p, !.rows = q, !.told = TRUE] \in Form
      BY <2>2, SetField
    <2> QED BY <2>3, SetField
  <1>5. [r EXCEPT !.second = p, !.rows = q, !.told = TRUE, !.st = st] \in Form
    <2>1. [r EXCEPT !.second = p] \in Form
      BY SetField
    <2>2. [r EXCEPT !.second = p, !.rows = q] \in Form
      BY <2>1, SetField
    <2>3. [r EXCEPT !.second = p, !.rows = q, !.told = TRUE] \in Form
      BY <2>2, SetField
    <2> QED BY <2>3, SetField
  <1>6. [r EXCEPT !.rows = p, !.lost = q] \in Form
    <2>1. [r EXCEPT !.rows = p] \in Form
      BY SetField
    <2> QED BY <2>1, SetField
  <1>7. [r EXCEPT !.second = u, !.rows = p, !.lost = q] \in Form
    <2>1. [r EXCEPT !.second = u] \in Form
      BY SetField
    <2>2. [r EXCEPT !.second = u, !.rows = p] \in Form
      BY <2>1, SetField
    <2> QED BY <2>2, SetField
  <1> QED BY <1>1, <1>2, <1>3, <1>4, <1>5, <1>6, <1>7

\* A form whose request failed is one, too.
LEMMA FailedRow ==
    ASSUME NEW f \in Forms, form[f] \in Form, form[f].first > 0
    PROVE  Failed(f) \in Form
  <1>1. /\ form[f].first - 1 \in Nat /\ form[f].second + 1 \in Nat
        /\ form[f].st \in {"blank", "open", "sent", "closed"}
    BY DEF Form
  <1>2. CASE form[f].kind = "cash" BY <1>1, <1>2, FormRows DEF Failed
  <1>3. CASE form[f].kind # "cash" /\ form[f].st = "sent" BY <1>1, <1>3, FormRows DEF Failed
  <1>4. CASE form[f].kind # "cash" /\ form[f].st # "sent" BY <1>1, <1>4, FormRows DEF Failed
  <1> QED BY <1>2, <1>3, <1>4

LEMMA OneForm ==
    ASSUME FormInv, TypeOK, NEW f \in Forms, NEW row,
           form' = [form EXCEPT ![f] = row], row \in Form, RowInv(row)
    PROVE  FormInv' /\ form' \in [Forms -> Form]
  BY DEF FormInv, TypeOK

LEMMA FormStep ==
    ASSUME LedgerInv, NEW f \in Forms,
           \/ Press(f) \/ Cancel(f) \/ Served(f) \/ AnswerLost(f) \/ RequestLost(f)
           \/ \E k \in Kind, c \in Customers \cup {NoOne},
                 a \in Amounts : OpenForm(f, k, c, a)
    PROVE  FormInv' /\ form' \in [Forms -> Form]
  <1> USE DEF LedgerInv
  <1>0. form[f] \in Form /\ RowInv(form[f]) BY DEF TypeOK, FormInv
  <1>a. /\ form[f].presses + 1 \in Nat /\ form[f].first + 1 \in Nat
        /\ form[f].second + 1 \in Nat  /\ form[f].rows + 1 \in Nat
        /\ form[f].lost + 1 \in Nat
        /\ form[f].first > 0 => form[f].first - 1 \in Nat
        /\ form[f].second > 0 => form[f].second - 1 \in Nat
    BY <1>0 DEF Form
  <1>1. CASE Press(f)
    <2> DEFINE row == [form[f] EXCEPT !.presses = @ + 1, !.first = @ + 1,
                                      !.st = IF Modal(f) THEN "sent" ELSE "open"]
    <2>1. form' = [form EXCEPT ![f] = row] BY <1>1 DEF Press
    <2>2. row \in Form BY <1>0, <1>a, FormRows
    <2>3. RowInv(row)
        BY <1>0, <1>1 DEF Press, Form, RowInv, ModalInv, PageInv, Modal
    <2> HIDE DEF row
    <2> QED BY <2>1, <2>2, <2>3, OneForm
  <1>2. CASE Cancel(f)
    <2> DEFINE row == [form[f] EXCEPT !.st = "closed"]
    <2>1. form' = [form EXCEPT ![f] = row] BY <1>2 DEF Cancel
    <2>2. row \in Form BY <1>0, <1>a, FormRows, SetField
    <2>3. RowInv(row)
        BY <1>0, <1>2 DEF Cancel, Form, RowInv, ModalInv, PageInv, Modal
    <2> HIDE DEF row
    <2> QED BY <2>1, <2>2, <2>3, OneForm
  <1>3. CASE Served(f)
    <2>1. CASE form[f].first > 0 /\ form' = [form EXCEPT ![f] =
                [form[f] EXCEPT !.first = @ - 1, !.rows = @ + 1, !.told = TRUE, !.st = "closed"]]
      <3> DEFINE row == [form[f] EXCEPT !.first = @ - 1, !.rows = @ + 1,
                                        !.told = TRUE, !.st = "closed"]
      <3>1. row \in Form BY <1>0, <1>a, <2>1, FormRows
      <3>2. RowInv(row)
        BY <1>0, <2>1 DEF Form, RowInv, ModalInv, PageInv, Modal
      <3>3. form' = [form EXCEPT ![f] = row] BY <2>1
      <3> HIDE DEF row
      <3> QED BY <3>1, <3>2, <3>3, OneForm
    <2>2. CASE form[f].second > 0 /\ form' = [form EXCEPT ![f] =
                [form[f] EXCEPT !.second = @ - 1, !.rows = @ + 1, !.told = TRUE, !.st = "closed"]]
      <3> DEFINE row == [form[f] EXCEPT !.second = @ - 1, !.rows = @ + 1,
                                        !.told = TRUE, !.st = "closed"]
      <3>1. row \in Form BY <1>0, <1>a, <2>2, FormRows
      <3>2. RowInv(row)
        BY <1>0, <2>2 DEF Form, RowInv, ModalInv, PageInv, Modal
      <3>3. form' = [form EXCEPT ![f] = row] BY <2>2
      <3> HIDE DEF row
      <3> QED BY <3>1, <3>2, <3>3, OneForm
    <2> QED BY <1>3, <2>1, <2>2 DEF Served
  <1>4. CASE AnswerLost(f)
    <2>1. CASE form[f].first > 0 /\ form' = [form EXCEPT ![f] =
                                     [Failed(f) EXCEPT !.rows = @ + 1, !.lost = @ + 1]]
      <3> DEFINE row == [Failed(f) EXCEPT !.rows = @ + 1, !.lost = @ + 1]
      <3>a. Failed(f) \in Form BY <1>0, <2>1, FailedRow
      <3>b. Failed(f).rows = form[f].rows /\ Failed(f).lost = form[f].lost
        BY <1>0 DEF Failed, Form
      <3>0. Failed(f) \in Form /\ Failed(f).rows + 1 \in Nat /\ Failed(f).lost + 1 \in Nat
        BY <1>a, <3>a, <3>b
      <3>1. row \in Form BY <1>a, <3>0, FormRows
      <3>2. RowInv(row)
        <4>1. CASE form[f].kind # "cash"
          <5>1. Failed(f) = [form[f] EXCEPT !.first = @ - 1, !.st = IF @ = "sent" THEN "open" ELSE @]
            BY <4>1 DEF Failed
          <5> QED BY <1>0, <2>1, <4>1, <5>1 DEF Form, RowInv, ModalInv, PageInv
        <4>2. CASE form[f].kind = "cash"
          <5>1. Failed(f) = [form[f] EXCEPT !.first = @ - 1, !.second = @ + 1]
            BY <4>2 DEF Failed
          <5> QED BY <1>0, <2>1, <4>2, <5>1 DEF Form, RowInv, PageInv
        <4> QED BY <4>1, <4>2
      <3> HIDE DEF row
      <3> QED BY <2>1, <3>1, <3>2, OneForm DEF row
    <2>2. CASE form[f].second > 0 /\ form' = [form EXCEPT ![f] =
                               [form[f] EXCEPT !.second = @ - 1, !.rows = @ + 1, !.lost = @ + 1]]
      <3> DEFINE row == [form[f] EXCEPT !.second = @ - 1, !.rows = @ + 1, !.lost = @ + 1]
      <3>1. row \in Form BY <1>0, <1>a, <2>2, FormRows, SetField
      <3>2. RowInv(row)
        BY <1>0, <2>2 DEF Form, RowInv, ModalInv, PageInv, Modal
      <3>3. form' = [form EXCEPT ![f] = row] BY <2>2
      <3> HIDE DEF row
      <3> QED BY <3>1, <3>2, <3>3, OneForm
    <2> QED BY <1>4, <2>1, <2>2 DEF AnswerLost
  <1>5. CASE RequestLost(f)
    <2>1. CASE form[f].first > 0 /\ form' = [form EXCEPT ![f] = Failed(f)]
      <3>1. Failed(f) \in Form BY <1>0, <2>1, FailedRow
      <3>2. RowInv(Failed(f))
        BY <1>0, <2>1 DEF Failed, Form, RowInv, ModalInv, PageInv, Modal
      <3> QED BY <2>1, <3>1, <3>2, OneForm
    <2>2. CASE form[f].second > 0 /\ form' = [form EXCEPT ![f] = [form[f] EXCEPT !.second = @ - 1]]
      <3> DEFINE row == [form[f] EXCEPT !.second = @ - 1]
      <3>1. row \in Form BY <1>0, <1>a, <2>2, FormRows, SetField
      <3>2. RowInv(row)
        BY <1>0, <2>2 DEF Form, RowInv, ModalInv, PageInv, Modal
      <3>3. form' = [form EXCEPT ![f] = row] BY <2>2
      <3> HIDE DEF row
      <3> QED BY <3>1, <3>2, <3>3, OneForm
    <2> QED BY <1>5, <2>1, <2>2 DEF RequestLost
  <1>6. ASSUME NEW k \in Kind, NEW c \in Customers \cup {NoOne},
               NEW a \in Amounts, OpenForm(f, k, c, a)
        PROVE FormInv' /\ form' \in [Forms -> Form]
    <2> DEFINE row == [Blank EXCEPT !.st = "open", !.kind = k, !.cust = c, !.amount = a]
    <2>1. form' = [form EXCEPT ![f] = row] BY <1>6 DEF OpenForm
    <2>2. row \in Form BY DEF Blank, Form
    <2>4. k # "cash" => c \in Customers BY <1>6 DEF OpenForm
    <2>3. RowInv(row) BY <2>4 DEF Blank, RowInv, ModalInv, PageInv
    <2> HIDE DEF row
    <2> QED BY <2>1, <2>2, <2>3, OneForm
  <1> QED BY <1>1, <1>2, <1>3, <1>4, <1>5, <1>6

LEMMA FormActionStep ==
    ASSUME LedgerInv, NEW f \in Forms,
           \/ Press(f) \/ Cancel(f) \/ Served(f) \/ AnswerLost(f) \/ RequestLost(f)
           \/ \E k \in Kind, c \in Customers \cup {NoOne},
                 a \in Amounts : OpenForm(f, k, c, a)
    PROVE  LedgerInv'
  <1> USE DEF LedgerInv
  <1>1. FormInv' /\ form' \in [Forms -> Form] BY FormStep
  <1>2. DocInv' /\ doc' \in [Docs -> Doc]
    BY DEF Press, Cancel, Served, AnswerLost, RequestLost, OpenForm, DocInv, TypeOK
  <1>3. CASE UNCHANGED <<accounts, register>>
    <2>1. TypeOK' BY <1>1, <1>2, <1>3 DEF TypeOK, accounts
    <2> QED BY <1>1, <1>2, <1>3, <2>1, AccountsKept
  <1>4. CASE Accepts(f) /\ Write(f)
    <2>1. form[f].kind # "cash" => form[f].cust \in Customers BY DEF FormInv, RowInv
    <2>2. register' \in [Docs \cup Forms -> [in : Nat, out : Nat]] BY <1>4, <2>1, WriteFact
    <2>3. CASE UNCHANGED accounts
      <3>1. TypeOK' BY <1>1, <1>2, <2>2, <2>3 DEF TypeOK, accounts
      <3> QED BY <1>1, <1>2, <2>3, <3>1, AccountsKept
    <2>4. ASSUME form[f].cust \in Customers, On(form[f].cust),
                 NEW d \in Nat, NEW k \in Nat, Post(form[f].cust, d, k)
          PROVE LedgerInv'
      <3>1. TypeOK' BY <1>1, <1>2, <2>2, <2>4, PostFact DEF TypeOK
      <3> QED BY <1>1, <1>2, <2>4, <3>1, PostKeeps
    <2> QED BY <1>4, <2>1, <2>3, <2>4, WriteFact
  <1> QED
    BY <1>3, <1>4 DEF Press, Cancel, Served, AnswerLost, RequestLost, OpenForm, FormInv, TypeOK, Form

LEMMA CashStep ==
    ASSUME LedgerInv, NEW x \in Docs \cup Forms, NEW t \in {"in", "out"}, DeleteCash(x, t)
    PROVE  LedgerInv'
  <1> USE DEF LedgerInv
  <1>1. TypeOK'
    <2>1. register' \in [Docs \cup Forms -> [in : Nat, out : Nat]]
      BY DEF DeleteCash, TypeOK
    <2> QED BY <2>1 DEF DeleteCash, TypeOK, accounts
  <1>2. DocInv' /\ FormInv' BY FormsKept DEF DeleteCash, DocInv
  <1> QED BY <1>1, <1>2, AccountsKept DEF DeleteCash

LEMMA ClearStep ==
    ASSUME LedgerInv, NEW keepC \in BOOLEAN, NEW keepR \in BOOLEAN, Clear(keepC, keepR)
    PROVE  LedgerInv'
  <1> USE DEF LedgerInv
  <1>1. \A c \in Customers : debits'[c] = 0 /\ credits'[c] = 0 BY DEF Clear
  <1>2. \A c \in Customers : /\ customer'[c] \in Customer
                             /\ customer'[c].balance = 0
                             /\ On(c)' => On(c) /\ customer'[c].phone = customer[c].phone
    <2> TAKE c \in Customers
    <2>0. customer' = [x \in Customers |->
                         IF keepC THEN [customer[x] EXCEPT !.balance = 0]
                         ELSE Erased([NoCust EXCEPT !.st = customer[x].st])] BY DEF Clear
    <2>1. CASE keepC
      <3>1. customer'[c] = [customer[c] EXCEPT !.balance = 0] BY <2>0, <2>1, Zenon
      <3>2. customer[c] \in Customer BY DEF TypeOK
      <3> QED BY <3>1, <3>2 DEF Customer, On
    <2>2. CASE ~keepC
      <3>1. customer'[c] = Erased([NoCust EXCEPT !.st = customer[c].st]) BY <2>0, <2>2, Zenon
      <3>2. customer[c].st \in {"none", "on", "off", "gone"} BY DEF TypeOK, Customer
      <3>3. CASE customer[c].st = "none"
        <4>1. customer'[c] = [NoCust EXCEPT !.st = "none"] BY <3>1, <3>3 DEF Erased, NoCust
        <4> QED BY <4>1 DEF NoCust, Customer, On
      <3>4. CASE customer[c].st # "none"
        <4>1. customer'[c] = [NoCust EXCEPT !.st = "gone"] BY <3>1, <3>4 DEF Erased, NoCust
        <4> QED BY <4>1 DEF NoCust, Customer, On
      <3> QED BY <3>3, <3>4
    <2> QED BY <2>1, <2>2
  <1>3. \A d \in Docs : doc'[d] \in Doc /\ doc'[d].st \in {"none", "gone"}
    BY DEF Clear, Erased, NoDoc, Document, Doc, Mode
  <1>4. TypeOK'
    <2>1. customer' \in [Customers -> Customer] /\ doc' \in [Docs -> Doc]
      BY <1>2, <1>3 DEF Clear
    <2>2. debits' \in [Customers -> Nat] /\ credits' \in [Customers -> Nat] BY DEF Clear
    <2>3. register' \in [Docs \cup Forms -> [in : Nat, out : Nat]] BY DEF Clear, NoRows, TypeOK
    <2> QED BY <2>1, <2>2, <2>3 DEF Clear, TypeOK
  <1>5. BalanceIsRows' BY <1>1, <1>2 DEF BalanceIsRows
  <1>6. NoAccount' BY <1>1 DEF NoAccount
  <1>7. PhonesUnique' BY <1>2 DEF PhonesUnique
  <1>8. DocInv' BY <1>3 DEF DocInv
  <1>9. FormInv' BY FormsKept DEF Clear
  <1> QED BY <1>4, <1>5, <1>6, <1>7, <1>8, <1>9

LEMMA LedgerStep == LedgerInv /\ [Next]_vars => LedgerInv'
  <1> SUFFICES ASSUME LedgerInv, [Next]_vars PROVE LedgerInv' OBVIOUS
  <1>1. CASE Next
    BY <1>1, CustomerStep, DocStep, FormActionStep, CashStep, ClearStep
    DEF Next, ClearTransactions, FactoryReset, ClearData
  <1>2. CASE UNCHANGED vars
    <2>1. TypeOK' BY <1>2 DEF LedgerInv, TypeOK, vars, accounts
    <2>2. DocInv' /\ FormInv' BY <1>2, FormsKept DEF LedgerInv, DocInv, vars
    <2> QED BY <1>2, <2>1, <2>2, AccountsKept DEF LedgerInv, vars
  <1> QED BY <1>1, <1>2

THEOREM LedgerInvariant == Spec => []LedgerInv
  BY InitLedger, LedgerStep, PTL DEF Spec

------------------------------------------------------------------------------
\* What the runs check

\* The variables keep their types: no row of the register is deleted twice.
THEOREM LedgerTyped == Spec => []TypeOK
  BY LedgerInvariant, PTL DEF LedgerInv

\* Every balance is the sum of the rows of its account, whoever posts or clears.
THEOREM BalancesRolledUp == Spec => []BalanceIsRows
  BY LedgerInvariant, PTL DEF LedgerInv

\* No telephone number finds two customers in use.
THEOREM OneCustomerPerPhone == Spec => []PhonesUnique
  BY LedgerInvariant, PTL DEF LedgerInv

\* However often a clerk presses, an entry is written twice only after a lost answer.
THEOREM NoDoubleEntry == Spec => []TwiceOnlyIfLost
  <1>1. LedgerInv => TwiceOnlyIfLost
    BY DEF LedgerInv, TypeOK, Form, FormInv, RowInv, ModalInv, PageInv, TwiceOnlyIfLost, Modal
  <1> QED BY <1>1, LedgerInvariant, PTL

\* A posting leaves the accounts of customers who are off alone.
LEMMA PostFrozen ==
    ASSUME TypeOK, NEW c \in Customers, On(c), NEW d \in Nat, NEW k \in Nat, Post(c, d, k),
           NEW x \in Customers, customer[x].st = "off"
    PROVE  debits'[x] <= debits[x] /\ credits'[x] <= credits[x]
  BY PostFact DEF On, TypeOK

\* The account of a customer who is off never grows, on either side.
THEOREM AccountsFrozen == Spec => FrozenWhenOff
  <1>1. ASSUME LedgerInv, Next,
               NEW x \in Customers, customer[x].st = "off"
        PROVE  debits'[x] <= debits[x] /\ credits'[x] <= credits[x]
    <2> USE DEF LedgerInv
    <2>0. debits[x] \in Nat /\ credits[x] \in Nat BY <1>1 DEF TypeOK
    <2>1. CASE UNCHANGED <<debits, credits>> BY <2>0, <2>1
    <2>2. ASSUME NEW d \in Docs, NEW c \in Customers, NEW m \in Mode, NEW a \in Amounts,
                 On(c), RecordRevenue(d, c, m, a)
          PROVE  debits'[x] <= debits[x] /\ credits'[x] <= credits[x]
      BY <1>1, <2>2, RevenueFact, PostFrozen
    <2>3. ASSUME NEW f \in Forms, Accepts(f), Write(f)
          PROVE  debits'[x] <= debits[x] /\ credits'[x] <= credits[x]
      <3>1. form[f].kind # "cash" => form[f].cust \in Customers
        BY <1>1 DEF FormInv, RowInv
      <3> QED BY <1>1, <2>0, <2>3, <3>1, WriteFact, PostFrozen DEF accounts
    <2>4. ASSUME NEW keepC \in BOOLEAN, NEW keepR \in BOOLEAN, Clear(keepC, keepR)
          PROVE  debits'[x] <= debits[x] /\ credits'[x] <= credits[x]
      BY <2>0, <2>4 DEF Clear
    <2>5. ASSUME NEW d \in Docs, NEW m \in Mode, NEW a \in Amounts, Finalize(d, m, a)
          PROVE  debits'[x] <= debits[x] /\ credits'[x] <= credits[x]
      BY <1>1, <2>1, <2>2, <2>5 DEF Finalize, DocInv, accounts
    <2>6. ASSUME NEW f \in Forms, Served(f) \/ AnswerLost(f)
          PROVE  debits'[x] <= debits[x] /\ credits'[x] <= credits[x]
      BY <2>3, <2>6 DEF Served, AnswerLost
    <2> QED
      BY <1>1, <2>1, <2>2, <2>4, <2>5, <2>6
      DEF Next, ToggleStatus, CreateCustomer, UpdateCustomer, Register, IssueCharged,
          OpenForm, Press, Cancel, RequestLost, DeleteCash, accounts,
          ClearTransactions, FactoryReset, ClearData
  <1>2. LedgerInv /\ [Next]_vars =>
          [\A c \in Customers : customer[c].st = "off" /\ customer'[c].st = "off"
             => debits'[c] <= debits[c] /\ credits'[c] <= credits[c]]_vars
    BY <1>1
  <1> QED BY <1>2, LedgerInvariant, PTL DEF Spec, FrozenWhenOff
=============================================================================
