------------------------------- MODULE Ledger -------------------------------
(***************************************************************************)
(* The customers' accounts and the cash register: credit_history with the  *)
(* two roll-ups of customer.balance, weight_loss_history, cash_register,   *)
(* the customers themselves, the forms of the front end that write to them *)
(* and the three scripts that empty them.                                  *)
(*                                                                         *)
(* A form posts one request and shows what came back; an answer can be     *)
(* lost after the row was committed.  Each post bears a new X-Request-Id,  *)
(* so request_log recognises none of the repetitions.                      *)
(***************************************************************************)
EXTENDS Integers, FiniteSets

CONSTANTS
    Customers, Phones,  \* rows of customer; telephone numbers
    Docs,               \* tests and certificates, as far as they are charged
    Forms,              \* forms opened by a clerk, each filled in once
    Amounts,            \* what a document or a form is about
    NoOne,              \* no customer, no telephone
    MaxPresses          \* bound of the runs: how often Save is pressed on a form

ASSUME LedgerAssumption ==
    /\ NoOne \notin Customers \cup Phones
    /\ Amounts \subseteq Nat \ {0}
    /\ MaxPresses \in Nat

VARIABLES
    customer,   \* the customer table
    debits, credits,    \* sums of a customer's rows in credit_history
    doc,        \* documents, with the sums of the rows that refer to them
    register,   \* cash_register: the rows posted by each document and form
    form        \* forms on the screens

accounts == <<customer, debits, credits>>
vars     == <<accounts, doc, register, form>>

Mode == {"Cash", "UPI", "Balance"}

\* The three forms of a profile and the forms of two pages.
Kind == {"CREDIT", "DEBIT", "loss", "lossPage", "cash"}

Customer == [st : {"none", "on", "off", "gone"}, phone : Phones \cup {NoOne}, balance : Int]
Doc      == [st : {"none", "open", "issued", "done", "gone"}, cust : Customers \cup {NoOne},
             mode : Mode, debit : Nat, credit : Nat]
Form     == [st : {"blank", "open", "sent", "closed"}, kind : Kind,
             cust : Customers \cup {NoOne}, amount : Nat,
             presses : Nat, first : Nat, second : Nat,  \* Save pressed; requests under way
             rows : Nat, lost : Nat, told : BOOLEAN]    \* rows written, answers lost, success shown

Document(st, c, mode, d, k) == [st |-> st, cust |-> c, mode |-> mode, debit |-> d, credit |-> k]

NoDoc  == Document("none", NoOne, "Cash", 0, 0)
NoCust == [st |-> "none", phone |-> NoOne, balance |-> 0]
NoRows == [x \in Docs \cup Forms |-> [in |-> 0, out |-> 0]]
Blank  == [st |-> "blank", kind |-> "cash", cust |-> NoOne, amount |-> 0, presses |-> 0,
           first |-> 0, second |-> 0, rows |-> 0, lost |-> 0, told |-> FALSE]

TypeOK ==
    /\ customer \in [Customers -> Customer]
    /\ debits   \in [Customers -> Nat]
    /\ credits  \in [Customers -> Nat]
    /\ doc      \in [Docs -> Doc]
    /\ register \in [Docs \cup Forms -> [in : Nat, out : Nat]]
    /\ form     \in [Forms -> Form]

Init ==
    /\ customer = [c \in Customers |-> NoCust]
    /\ debits  = [c \in Customers |-> 0]
    /\ credits = [c \in Customers |-> 0]
    /\ doc = [d \in Docs |-> NoDoc]
    /\ register = NoRows
    /\ form = [f \in Forms |-> Blank]

On(c) == customer[c].st = "on"      \* findById: deletedon IS NULL

------------------------------------------------------------------------------
\* Customers

PhoneTaken(p, c) == \E x \in Customers \ {c} : On(x) /\ customer[x].phone = p

CreateCustomer(c, p) ==
    /\ customer[c].st = "none"
    /\ ~PhoneTaken(p, c)
    /\ customer' = [customer EXCEPT ![c] = [st |-> "on", phone |-> p, balance |-> 0]]
    /\ UNCHANGED <<debits, credits, doc, register, form>>

\* The UPDATE finds the row of a customer who is switched off as well.
UpdateCustomer(c, p) ==
    /\ customer[c].st \in {"on", "off"}
    /\ ~PhoneTaken(p, c)
    /\ customer' = [customer EXCEPT ![c].phone = p]
    /\ UNCHANGED <<debits, credits, doc, register, form>>

\* Mutant: the switch works both ways, as its comment has it.
ToggleBothWays(c) ==
    /\ customer[c].st \in {"on", "off"}
    /\ customer' = [customer EXCEPT ![c].st = IF @ = "on" THEN "off" ELSE "on"]
    /\ UNCHANGED <<debits, credits, doc, register, form>>

\* findById does not see a customer who is off: the switch works one way only.
ToggleStatus(c) ==
    /\ On(c)
    /\ customer' = [customer EXCEPT ![c].st = "off"]
    /\ UNCHANGED <<debits, credits, doc, register, form>>

------------------------------------------------------------------------------
\* credit_history

\* Mutant: the balance is rolled up before the rows are inserted.
PostLate(c, d, k) ==
    /\ debits'   = [debits  EXCEPT ![c] = @ + d]
    /\ credits'  = [credits EXCEPT ![c] = @ + k]
    /\ customer' = [customer EXCEPT ![c].balance = debits[c] - credits[c]]

\* Rows of d and k are inserted for customer c, then the balance is rolled up
\* from all the rows of the customer.
Post(c, d, k) ==
    /\ debits'   = [debits  EXCEPT ![c] = @ + d]
    /\ credits'  = [credits EXCEPT ![c] = @ + k]
    /\ customer' = [customer EXCEPT ![c].balance = debits'[c] - credits'[c]]

\* recordRevenue for document d: a DEBIT and, unless the document goes on the
\* balance, a CREDIT of the same amount; the CREDIT of a cash payment is posted
\* to the register, as a row whose type follows the side of the account.
Paid(mode, a)  == IF mode = "Balance" THEN 0 ELSE a
CashType(side) == IF side = "DEBIT" THEN "in" ELSE "out"

RecordRevenue(d, c, mode, a) ==
    /\ Post(c, a, Paid(mode, a))
    /\ register' = IF mode = "Cash" THEN [register EXCEPT ![d][CashType("CREDIT")] = @ + 1]
                                    ELSE register

\* Every path below seals a print snapshot in the same transaction, which fails
\* for a customer who is off.

Register(d, c, mode) ==
    /\ doc[d].st = "none" /\ On(c)
    /\ doc' = [doc EXCEPT ![d] = Document("open", c, mode, 0, 0)]
    /\ UNCHANGED <<accounts, register, form>>

\* A certificate issued by the completion of its test is charged there and stays open.
IssueCharged(d, c, mode, a) ==
    /\ doc[d].st = "none" /\ On(c)
    /\ RecordRevenue(d, c, mode, a)
    /\ doc' = [doc EXCEPT ![d] = Document("issued", c, mode, a, Paid(mode, a))]
    /\ UNCHANGED form

\* The finalization writes the mode of the closing form over the row's, and
\* charges in that mode unless a DEBIT row refers to the document already.
Finalize(d, mode, a) ==
    /\ doc[d].st \in {"open", "issued"} /\ On(doc[d].cust)
    /\ LET row == doc[d] IN
       IF row.debit > 0
       THEN /\ doc' = [doc EXCEPT ![d] = Document("done", row.cust, mode, row.debit, row.credit)]
            /\ UNCHANGED <<accounts, register>>
       ELSE /\ RecordRevenue(d, row.cust, mode, a)
            /\ doc' = [doc EXCEPT ![d] = Document("done", row.cust, mode, a, Paid(mode, a))]
    /\ UNCHANGED form

------------------------------------------------------------------------------
\* Forms: the two modals of a profile; the pages WeightLoss and CashInHand

Modal(f) == form[f].kind \in {"CREDIT", "DEBIT", "loss"}

\* A profile shows its buttons, and a page its list, as it was loaded.
OpenForm(f, kind, c, a) ==
    /\ form[f].st = "blank"
    /\ IF kind = "cash" THEN c = NoOne ELSE c \in Customers /\ customer[c].st \in {"on", "off"}
    /\ form' = [form EXCEPT ![f] =
                  [Blank EXCEPT !.st = "open", !.kind = kind, !.cust = c, !.amount = a]]
    /\ UNCHANGED <<accounts, doc, register>>

\* Mutant: the modal leaves its button enabled, too.
PressAgain(f) ==
    /\ form[f].st = "open" /\ form[f].presses < MaxPresses
    /\ form' = [form EXCEPT ![f] = [form[f] EXCEPT !.presses = @ + 1, !.first = @ + 1]]
    /\ UNCHANGED <<accounts, doc, register>>

\* A modal disables its button while it waits; the pages do not.
Press(f) ==
    /\ form[f].st = "open" /\ form[f].presses < MaxPresses
    /\ form' = [form EXCEPT ![f] =
                  [form[f] EXCEPT !.presses = @ + 1, !.first = @ + 1,
                                  !.st = IF Modal(f) THEN "sent" ELSE "open"]]
    /\ UNCHANGED <<accounts, doc, register>>

\* Closing the form does not stop a request that is under way.
Cancel(f) ==
    /\ form[f].st \in {"open", "sent"}
    /\ form' = [form EXCEPT ![f] = [form[f] EXCEPT !.st = "closed"]]
    /\ UNCHANGED <<accounts, doc, register>>

\* Mutant: the customer is looked up with those who are switched off.
AcceptsAnyCustomer(f) == form[f].kind # "cash" => customer[form[f].cust].st \in {"on", "off"}

\* The server takes a request of form f if it finds the customer.
Accepts(f) == form[f].kind # "cash" => On(form[f].cust)

\* The rows of the three services.
CreditEntry(c, type, a) ==
    /\ Post(c, IF type = "DEBIT" THEN a ELSE 0, IF type = "CREDIT" THEN a ELSE 0)
    /\ UNCHANGED register

\* A weight loss is noted and not charged.
LossEntry == UNCHANGED <<accounts, register>>

CashEntry(f) ==
    /\ \E t \in {"in", "out"} : register' = [register EXCEPT ![f][t] = @ + 1]
    /\ UNCHANGED accounts

Write(f) ==
    \/ form[f].kind \in {"CREDIT", "DEBIT"} /\ CreditEntry(form[f].cust, form[f].kind, form[f].amount)
    \/ form[f].kind \in {"loss", "lossPage"} /\ LossEntry
    \/ form[f].kind = "cash" /\ CashEntry(f)

\* The row is written and the answer arrives: the form closes.
Served(f) ==
    /\ Accepts(f)
    /\ Write(f)
    /\ \/ /\ form[f].first > 0
          /\ form' = [form EXCEPT ![f] =
                        [form[f] EXCEPT !.first = @ - 1, !.rows = @ + 1,
                                        !.told = TRUE, !.st = "closed"]]
       \/ /\ form[f].second > 0
          /\ form' = [form EXCEPT ![f] =
                        [form[f] EXCEPT !.second = @ - 1, !.rows = @ + 1,
                                        !.told = TRUE, !.st = "closed"]]
    /\ UNCHANGED doc

\* What a form does when its request failed: the cash page posts the same entry
\* to its other route, any other form waits for the next press.
Failed(f) ==
    IF form[f].kind = "cash"
    THEN [form[f] EXCEPT !.first = @ - 1, !.second = @ + 1]
    ELSE [form[f] EXCEPT !.first = @ - 1, !.st = IF @ = "sent" THEN "open" ELSE @]

\* The row is written and the answer is lost.
AnswerLost(f) ==
    /\ Accepts(f)
    /\ Write(f)
    /\ \/ /\ form[f].first > 0
          /\ form' = [form EXCEPT ![f] = [Failed(f) EXCEPT !.rows = @ + 1, !.lost = @ + 1]]
       \/ /\ form[f].second > 0
          /\ form' = [form EXCEPT ![f] =
                        [form[f] EXCEPT !.second = @ - 1, !.rows = @ + 1, !.lost = @ + 1]]
    /\ UNCHANGED doc

\* The request is lost on its way, or the server does not find the customer.
RequestLost(f) ==
    /\ \/ form[f].first > 0 /\ form' = [form EXCEPT ![f] = Failed(f)]
       \/ form[f].second > 0 /\ form' = [form EXCEPT ![f] = [form[f] EXCEPT !.second = @ - 1]]
    /\ UNCHANGED <<accounts, doc, register>>

\* Mutant: a row that is deleted already is taken off the sums once more.
DeleteCashAgain(x, t) ==
    /\ register[x].in + register[x].out > 0
    /\ register' = [register EXCEPT ![x][t] = @ - 1]
    /\ UNCHANGED <<accounts, doc, form>>

\* DELETE /cash-register/:id
DeleteCash(x, t) ==
    /\ register[x][t] > 0
    /\ register' = [register EXCEPT ![x][t] = @ - 1]
    /\ UNCHANGED <<accounts, doc, form>>

------------------------------------------------------------------------------
\* clear_transactions, factory_reset, clear_data_keep_users_customers: one
\* transaction each, which a DONE document aborts (trg_nodelete_*).

Erased(row) == IF row.st = "none" THEN row ELSE [row EXCEPT !.st = "gone"]

Clear(keepCustomers, keepCash) ==
    /\ \A d \in Docs : doc[d].st # "done"
    /\ doc' = [d \in Docs |-> Erased([NoDoc EXCEPT !.st = doc[d].st])]
    /\ debits'  = [c \in Customers |-> 0]
    /\ credits' = [c \in Customers |-> 0]
    /\ customer' = [c \in Customers |->
                      IF keepCustomers THEN [customer[c] EXCEPT !.balance = 0]
                      ELSE Erased([NoCust EXCEPT !.st = customer[c].st])]
    /\ register' = IF keepCash THEN register ELSE NoRows
    /\ UNCHANGED form

ClearTransactions == Clear(FALSE, TRUE)
FactoryReset      == Clear(FALSE, FALSE)
ClearData         == Clear(TRUE, FALSE)

Next ==
    \/ \E c \in Customers : \/ ToggleStatus(c)
                            \/ \E p \in Phones : CreateCustomer(c, p) \/ UpdateCustomer(c, p)
                            \/ \E d \in Docs, m \in Mode :
                                 \/ Register(d, c, m)
                                 \/ \E a \in Amounts : IssueCharged(d, c, m, a)
    \/ \E d \in Docs, m \in Mode, a \in Amounts : Finalize(d, m, a)
    \/ \E f \in Forms : \/ Press(f) \/ Cancel(f)
                        \/ Served(f) \/ AnswerLost(f) \/ RequestLost(f)
                        \/ \E k \in Kind,
                              c \in Customers \cup {NoOne}, a \in Amounts : OpenForm(f, k, c, a)
    \/ \E x \in Docs \cup Forms, t \in {"in", "out"} : DeleteCash(x, t)
    \/ ClearTransactions \/ FactoryReset \/ ClearData

Spec == Init /\ [][Next]_vars

------------------------------------------------------------------------------
\* Properties

\* The balance of a customer is what the rows of the account add up to: no path
\* that writes or clears rows forgets the roll-up (credit_history, the scripts).
BalanceIsRows ==
    \A c \in Customers : customer[c].balance = debits[c] - credits[c]

\* Two customers in use never share a telephone number, by which the counter
\* finds them; customers who are off keep theirs and could bring it back.
PhonesUnique ==
    \A c, x \in Customers :
        On(c) /\ On(x) /\ customer[c].phone = customer[x].phone => c = x

\* Nothing is charged to a customer who is off, by no document and no form, and
\* no payment is accepted either: the account is frozen, whatever it owes.
FrozenWhenOff ==
    [][\A c \in Customers :
         customer[c].st = "off" /\ customer'[c].st = "off"
            => debits'[c] <= debits[c] /\ credits'[c] <= credits[c]]_vars

\* An entry is written more often than the clerk meant only if an answer was
\* lost: a modal writes one row and one for each lost answer, a page one for each
\* time Save was pressed and one for each lost answer.
TwiceOnlyIfLost ==
    \A f \in Forms :
        form[f].rows <= form[f].lost + (IF Modal(f) THEN 1 ELSE form[f].presses)

\* Stated by recordRevenue ("immediately offsets it with a CREDIT if payment is
\* instantaneous"): a closed document that says it was paid owes nothing.
PaidIsSettled ==
    \A d \in Docs : doc[d].st = "done" /\ doc[d].mode # "Balance"
                        => doc[d].credit = doc[d].debit

\* Stated by the cash page ("Cash IN (Deposit/Sales)"): the receipt of a sale is
\* not a withdrawal.
ReceiptIsIn ==
    \A d \in Docs : register[d].out = 0
=============================================================================
