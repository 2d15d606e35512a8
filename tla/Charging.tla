------------------------------ MODULE Charging ------------------------------
(***************************************************************************)
(* What the laboratory promises its customers about money, without the     *)
(* workflow, the retries and the crashes behind it: a document is closed   *)
(* together with its only entry on the customer's account, or after it,    *)
(* and neither is ever taken back; only a certificate issued with its test *)
(* is charged before it is closed.  LabWorkflow implements this.           *)
(***************************************************************************)
EXTENDS Integers

CONSTANTS
    Docs,       \* tests and certificates
    Advance     \* the documents that may be charged before they are closed

VARIABLES
    closed,     \* the documents that are DONE
    account     \* per document: how many DEBIT entries, and their sum

Blank == [n |-> 0, sum |-> 0]

Init ==
    /\ closed = {}
    /\ account = [d \in Docs |-> Blank]

\* ledgerService.recordRevenue: the first and only entry, of a positive amount.
Entered(d) == account[d] = Blank /\ account'[d].n = 1 /\ account'[d].sum > 0

\* One transaction: the documents in E are entered, those in C closed.  What is
\* not charged in advance is charged only when it is closed.
Settle(C, E) ==
    /\ closed' = closed \cup C
    /\ account' \in [Docs -> [n : Nat, sum : Nat]]
    /\ \A d \in E : Entered(d) /\ d \in closed' \cup Advance
    /\ \A d \in Docs \ E : account'[d] = account[d]
    /\ \A d \in C : account'[d].n = 1

Next == \E C \in SUBSET (Docs \ closed), E \in SUBSET Docs : Settle(C, E)

Spec == Init /\ [][Next]_<<closed, account>>
=============================================================================
