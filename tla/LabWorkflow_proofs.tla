------------------------- MODULE LabWorkflow_proofs -------------------------
(* Theorems about LabWorkflow: its types, and the charging of documents.    *)
EXTENDS LabWorkflow, TLAPS, FiniteSetTheorems

USE LabAssumption

\* The book of DEBIT rows: how many per document, and their sum.
Book == [Docs -> [n : Nat, sum : Nat]]

------------------------------------------------------------------------------
\* Amounts

\* Sets of samples are finite, so the fees of the code are natural numbers, and
\* they are positive exactly when there is an item.
LEMMA CountType ==
    ASSUME NEW S \in SUBSET Samples
    PROVE  /\ Cardinality(S) \in Nat
           /\ S # {} => Cardinality(S) > 0
<1>1. IsFiniteSet(S)
  BY FS_Subset
<1>2. Cardinality(S) \in Nat
  BY <1>1, FS_CardinalityType
<1>3. S # {} => Cardinality(S) # 0
  BY <1>1, FS_EmptySet
<1> QED BY <1>2, <1>3

\* The fee of a test with items is a positive natural number.
LEMMA FeeType ==
    ASSUME TypeOK, NEW t \in Tests
    PROVE  /\ Fee(t) \in Nat
           /\ test[t].items # {} => Fee(t) > 0
<1>1. test[t].items \in SUBSET Samples
  BY DEF TypeOK, Book, TestRow
<1>2. /\ Cardinality(test[t].items) \in Nat
      /\ test[t].items # {} => Cardinality(test[t].items) > 0
  BY <1>1, CountType
<1> QED BY <1>2 DEF Fee, TestFee

\* The final fee of a certificate with items is a positive natural number.
LEMMA FinalFeeType ==
    ASSUME TypeOK, NEW c \in Certs
    PROVE  /\ FinalFee(c) \in Nat
           /\ cert[c].items # {} => FinalFee(c) > 0
<1>1. cert[c].items \in SUBSET Samples
  BY DEF TypeOK, Book, CertRow
<1>2. /\ Cardinality(cert[c].items) \in Nat
      /\ cert[c].items # {} => Cardinality(cert[c].items) > 0
  BY <1>1, CountType
<1>3. CertFee(cert[c].kind) \in {50, 100}
  BY DEF CertFee
<1> QED BY <1>2, <1>3 DEF FinalFee

\* Charging keeps the form of the book, leaves the other entries alone, and adds
\* one row of the amount to its own.
LEMMA ChargedType ==
    ASSUME NEW book \in Book, NEW d \in Docs, NEW a \in Nat
    PROVE  Charged(book, d, a) \in Book
BY DEF Charged, Book

LEMMA ChargedElsewhere ==
    ASSUME NEW book \in Book, NEW d \in Docs, NEW a \in Nat, NEW e \in Docs, e # d
    PROVE  Charged(book, d, a)[e] = book[e]
BY DEF Charged, Book

LEMMA ChargedHere ==
    ASSUME NEW book \in Book, NEW d \in Docs, NEW a \in Nat, a > 0
    PROVE  Charged(book, d, a)[d] = [n |-> book[d].n + 1, sum |-> book[d].sum + a]
BY DEF Charged, Book

------------------------------------------------------------------------------
\* Types

\* Every kept identifier stays bound to a command on documents.
LEMMA UsesType ==
    ASSUME TypeOK, NEW r \in Ids, NEW op, NEW on \in SUBSET Docs, Uses(r, op, on),
           op \in {"create", "draft", "finalize", "complete", "convert", "delete",
                   "createCert", "items", "patch", "move"}
    PROVE  cmd' \in [Requests -> Command \cup {NoCommand}]
BY DEF TypeOK, Book, Uses, Command

LEMMA LogsType ==
    ASSUME TypeOK, NEW r \in Ids, Logs(r)
    PROVE  logged' \in SUBSET Requests
BY DEF TypeOK, Book, Logs

LEMMA WritesType ==
    ASSUME TypeOK, NEW t \in Tests, NEW M, NEW R, NEW W, Writes(t, M, R, W)
    PROVE  /\ measured' \in SUBSET Samples
           /\ returned' \in SUBSET Samples
           /\ wanted' \in SUBSET Samples
<1>1. test[t].items \in SUBSET Samples
  BY DEF TypeOK, Book, TestRow
<1> QED BY <1>1 DEF TypeOK, Book, Writes

LEMMA StartedType ==
    ASSUME TypeOK, NEW D, Started(D)
    PROVE  /\ test' \in [Tests -> TestRow]
           /\ cert' \in [Certs -> CertRow]
<1>1. \A t \in Tests : [test[t] EXCEPT !.st = "IN_PROGRESS"] \in TestRow /\ test[t] \in TestRow
  BY DEF TypeOK, Book, TestRow
<1>2. \A c \in Certs : [cert[c] EXCEPT !.st = "IN_PROGRESS"] \in CertRow /\ cert[c] \in CertRow
  BY DEF TypeOK, Book, CertRow
<1> QED BY <1>1, <1>2 DEF Started

LEMMA IssuedForType ==
    ASSUME NEW t \in Tests, NEW S \in SUBSET Samples
    PROVE  IssuedFor(t, S) \in CertRow
BY DEF IssuedFor, CertRow, Kinds, Metal

\* Completing a test writes well-typed rows, whatever the client submitted.
LEMMA CompleteTestType ==
    ASSUME TypeOK, NEW t \in Tests, NEW M, NEW R, NEW W, NEW c, NEW claim \in Ids \cup {NoReq},
           CompleteTest(t, M, R, W, c, claim)
    PROVE  /\ test' \in [Tests -> TestRow]
           /\ cert' \in [Certs -> CertRow]
           /\ debit' \in Book
           /\ measured' \in SUBSET Samples
           /\ returned' \in SUBSET Samples
           /\ wanted' \in SUBSET Samples
<1>1. Writes(t, M, R, W)
  BY DEF CompleteTest
<1>2. Fee(t) \in Nat
  BY FeeType
<1>3. CertItems(t, R, W) \in SUBSET Samples
  BY DEF TypeOK, Book, TestRow, CertItems
<1>4. test' \in [Tests -> TestRow]
  <2>1. Completed(t, R, W, claim) \in TestRow
    <3>1. test[t] \in TestRow
      BY DEF TypeOK, Book
    <3>2. [test[t] EXCEPT !.st = "erased", !.items = {}] \in TestRow
      BY <3>1 DEF TestRow
    <3>3. [test[t] EXCEPT !.st = "DONE", !.total = Fee(t), !.claim = claim] \in TestRow
      BY <1>2, <3>1 DEF TestRow
    <3> QED BY <3>2, <3>3 DEF Completed
  <2> QED BY <2>1 DEF CompleteTest, TypeOK, Book
<1>5. cert' \in [Certs -> CertRow]
  <2>1. CASE CertItems(t, R, W) = {}
    BY <2>1 DEF CompleteTest, TypeOK, Book
  <2>2. CASE CertItems(t, R, W) # {}
    <3>1. IssuedFor(t, CertItems(t, R, W)) \in CertRow
      BY <1>3, IssuedForType
    <3>2. cert' = [cert EXCEPT ![c] = IssuedFor(t, CertItems(t, R, W))]
      BY <2>2 DEF CompleteTest
    <3> QED BY <3>1, <3>2 DEF TypeOK, Book
  <2> QED BY <2>1, <2>2
<1>6. TestBook(t, R, W) \in Book
  BY <1>2, ChargedType DEF TestBook, TypeOK, Book, Docs
<1>7. debit' \in Book
  <2>1. CASE CertItems(t, R, W) = {}
    BY <1>6, <2>1 DEF CompleteTest
  <2>2. CASE CertItems(t, R, W) # {}
    <3>1. CertFeeAtTest * Cardinality(CertItems(t, R, W)) \in Nat
      BY <1>3, CountType DEF CertFeeAtTest
    <3>2. c \in Docs
      BY <2>2 DEF CompleteTest, Docs
    <3>3. debit' = Charged(TestBook(t, R, W), c, CertFeeAtTest * Cardinality(CertItems(t, R, W)))
      BY <2>2 DEF CompleteTest
    <3> QED BY <1>6, <3>1, <3>2, <3>3, ChargedType
  <2> QED BY <2>1, <2>2
<1> QED BY <1>1, <1>4, <1>5, <1>7, WritesType

LEMMA InitType == Init => TypeOK
<1> SUFFICES ASSUME Init PROVE TypeOK
  OBVIOUS
<1>1. test \in [Tests -> TestRow]
  BY DEF Init, TestRow
<1>2. cert \in [Certs -> CertRow]
  BY DEF Init, CertRow, Kinds, Metal
<1> QED BY <1>1, <1>2 DEF Init, TypeOK, Book

\* The handlers that work on a test.
LEMMA TestNextType ==
    ASSUME TypeOK, NEW r \in Ids, NEW t \in Tests, TestNext(r, t)
    PROVE  TypeOK'
<1>0. /\ test[t] \in TestRow
      /\ {t} \in SUBSET Docs
      /\ {} \in SUBSET Docs
  BY DEF TypeOK, Book, Docs
<1>1. ASSUME NEW S \in SUBSET Samples, NEW ret \in SUBSET Samples, CreateTest(r, t, S, ret)
      PROVE  TypeOK'
  <2>1. [test[t] EXCEPT !.st = "TODO", !.items = S] \in TestRow
    BY <1>0 DEF TestRow
  <2>2. test' = [test EXCEPT ![t] = [test[t] EXCEPT !.st = "TODO", !.items = S]]
    BY <1>1 DEF CreateTest
  <2>3. test' \in [Tests -> TestRow]
    BY <2>1, <2>2 DEF TypeOK, Book
  <2>4. /\ cmd' \in [Requests -> Command \cup {NoCommand}]
        /\ logged' \in SUBSET Requests
    BY <1>0, <1>1, UsesType, LogsType DEF CreateTest
  <2> QED BY <1>1, <2>3, <2>4 DEF CreateTest, TypeOK, Book
<1>2. ASSUME NEW M, NEW R, NEW W, SaveDraft(r, t, M, R, W)
      PROVE  TypeOK'
  <2>1. [test[t] EXCEPT !.st = "IN_PROGRESS"] \in TestRow
    BY <1>0 DEF TestRow
  <2>2. test' \in [Tests -> TestRow]
    BY <1>2, <2>1 DEF SaveDraft, TypeOK, Book
  <2>3. /\ cmd' \in [Requests -> Command \cup {NoCommand}]
        /\ logged' \in SUBSET Requests
    BY <1>0, <1>2, UsesType, LogsType DEF SaveDraft
  <2>4. /\ measured' \in SUBSET Samples
        /\ returned' \in SUBSET Samples
        /\ wanted' \in SUBSET Samples
    BY <1>2, WritesType DEF SaveDraft
  <2> QED BY <1>2, <2>2, <2>3, <2>4 DEF SaveDraft, TypeOK, Book
<1>3. ASSUME DeleteTest(r, t)
      PROVE  TypeOK'
  <2>1. [test[t] EXCEPT !.bin = TRUE, !.items = {}] \in TestRow
    BY <1>0 DEF TestRow
  <2>2. test' = [test EXCEPT ![t] = [test[t] EXCEPT !.bin = TRUE, !.items = {}]]
    BY <1>3 DEF DeleteTest
  <2>3. test' \in [Tests -> TestRow]
    BY <2>1, <2>2 DEF TypeOK, Book
  <2>4. /\ cmd' \in [Requests -> Command \cup {NoCommand}]
        /\ logged' \in SUBSET Requests
    BY <1>0, <1>3, UsesType, LogsType DEF DeleteTest
  <2> QED BY <1>3, <2>3, <2>4 DEF DeleteTest, TypeOK, Book, samples
<1>4. ASSUME NEW M, NEW R, NEW W, NEW c, FinalizeDirect(r, t, M, R, W, c)
      PROVE  TypeOK'
  <2>1. test[t].claim \in Ids \cup {NoReq}
    BY <1>0 DEF TestRow
  <2>2. CompleteTest(t, M, R, W, c, test[t].claim)
    BY <1>4 DEF FinalizeDirect
  <2>3. /\ cmd' \in [Requests -> Command \cup {NoCommand}]
        /\ logged' \in SUBSET Requests
    BY <1>0, <1>4, UsesType, LogsType DEF FinalizeDirect
  <2>4. told' \in SUBSET (Docs \X {"IN_PROGRESS", "DONE"})
    BY <1>4 DEF FinalizeDirect, TypeOK, Book, Docs
  <2> QED BY <1>4, <2>1, <2>2, <2>3, <2>4, CompleteTestType DEF FinalizeDirect, TypeOK, Book
<1>5. ASSUME NEW c, FinalizeTest(r, t, c)
      PROVE  TypeOK'
  <2>1. PICK M, R, W : CompleteTest(t, M, R, W, c, r)
    BY <1>5 DEF FinalizeTest
  <2>2. /\ cmd' \in [Requests -> Command \cup {NoCommand}]
        /\ logged' \in SUBSET Requests
    BY <1>0, <1>5, UsesType, LogsType DEF FinalizeTest
  <2>3. pending' \in [op : {"move", "finalize"}, doc : Docs, id : Ids] \cup {Idle}
    BY <1>5 DEF FinalizeTest, Docs
  <2> QED BY <1>5, <2>1, <2>2, <2>3, CompleteTestType DEF FinalizeTest, TypeOK, Book
<1>6. ASSUME NEW S \in SUBSET Samples, NEW c \in Certs, ConvertToCertificate(r, t, S, c)
      PROVE  TypeOK'
  <2>1. [test[t] EXCEPT !.items = test[t].items \ S] \in TestRow
    BY <1>0 DEF TestRow
  <2>2. test' \in [Tests -> TestRow]
    BY <1>6, <2>1 DEF ConvertToCertificate, TypeOK, Book
  <2>3. cert' \in [Certs -> CertRow]
    BY <1>6, IssuedForType DEF ConvertToCertificate, TypeOK, Book
  <2>4. /\ cmd' \in [Requests -> Command \cup {NoCommand}]
        /\ logged' \in SUBSET Requests
    BY <1>0, <1>6, UsesType, LogsType DEF ConvertToCertificate
  <2> QED BY <1>6, <2>2, <2>3, <2>4 DEF ConvertToCertificate, TypeOK, Book, samples
<1> QED BY <1>1, <1>2, <1>3, <1>4, <1>5, <1>6 DEF TestNext

\* The handlers that work on a certificate.
LEMMA CertNextType ==
    ASSUME TypeOK, NEW r \in Ids, NEW c \in Certs, CertNext(r, c)
    PROVE  TypeOK'
<1>0. /\ cert[c] \in CertRow
      /\ {c} \in SUBSET Docs
      /\ {} \in SUBSET Docs
  BY DEF TypeOK, Book, Docs
<1>1. ASSUME NEW kind \in Kinds, NEW S \in SUBSET Samples, CreateCertificate(r, c, kind, S)
      PROVE  TypeOK'
  <2>1. [st |-> "TODO", kind |-> kind, items |-> S, claim |-> NoReq, total |-> 0] \in CertRow
    BY DEF CertRow
  <2>2. cert' \in [Certs -> CertRow]
    BY <1>1, <2>1 DEF CreateCertificate, TypeOK, Book
  <2>3. /\ cmd' \in [Requests -> Command \cup {NoCommand}]
        /\ logged' \in SUBSET Requests
    BY <1>0, <1>1, UsesType, LogsType DEF CreateCertificate
  <2> QED BY <1>1, <2>2, <2>3 DEF CreateCertificate, TypeOK, Book
<1>2. ASSUME NEW s \in Samples, AddItem(r, c, s)
      PROVE  TypeOK'
  <2>1. [cert[c] EXCEPT !.items = cert[c].items \cup {s}] \in CertRow
    BY <1>0 DEF CertRow
  <2>2. cert' \in [Certs -> CertRow]
    BY <1>2, <2>1 DEF AddItem, TypeOK, Book
  <2>3. /\ cmd' \in [Requests -> Command \cup {NoCommand}]
        /\ logged' \in SUBSET Requests
    BY <1>0, <1>2, UsesType, LogsType DEF AddItem
  <2> QED BY <1>2, <2>2, <2>3 DEF AddItem, TypeOK, Book
<1>3. ASSUME NEW s \in Samples, RemoveItem(r, c, s)
      PROVE  TypeOK'
  <2>1. [cert[c] EXCEPT !.items = cert[c].items \ {s}] \in CertRow
    BY <1>0 DEF CertRow
  <2>2. cert' \in [Certs -> CertRow]
    BY <1>3, <2>1 DEF RemoveItem, TypeOK, Book
  <2>3. /\ cmd' \in [Requests -> Command \cup {NoCommand}]
        /\ logged' \in SUBSET Requests
    BY <1>0, <1>3, UsesType, LogsType DEF RemoveItem
  <2> QED BY <1>3, <2>2, <2>3 DEF RemoveItem, TypeOK, Book, samples
<1>4. ASSUME FinalizeCert(r, c)
      PROVE  TypeOK'
  <2>1. FinalFee(c) \in Nat
    BY FinalFeeType
  <2>2. Closed(r, c) \in CertRow
    BY <1>0, <2>1 DEF Closed, CertRow
  <2>3. cert' \in [Certs -> CertRow]
    BY <1>4, <2>2 DEF FinalizeCert, TypeOK, Book
  <2>4. /\ cmd' \in [Requests -> Command \cup {NoCommand}]
        /\ logged' \in SUBSET Requests
    BY <1>0, <1>4, UsesType, LogsType DEF FinalizeCert
  <2>5. debit' \in Book
    BY <1>4, <2>1, ChargedType DEF FinalizeCert, TypeOK, Book, Docs
  <2>6. pending' \in [op : {"move", "finalize"}, doc : Docs, id : Ids] \cup {Idle}
    BY <1>4 DEF FinalizeCert, Docs
  <2> QED BY <1>4, <2>3, <2>4, <2>5, <2>6 DEF FinalizeCert, TypeOK, Book, samples
<1> QED BY <1>1, <1>2, <1>3, <1>4 DEF CertNext

\* Status changes short of DONE, repeated requests and the second commit.
LEMMA OtherNextType ==
    ASSUME TypeOK
    PROVE  /\ \A r \in Ids, d \in Docs : Move(r, d) => TypeOK'
           /\ \A r \in Ids, D \in SUBSET Docs, first \in Certs \cup {NoCert} :
                PatchStatus(r, D, first) => TypeOK'
           /\ \A r \in Requests, d \in Docs : ReplayNext(r, d) => TypeOK'
           /\ \A t \in Tests : RestoreTest(t) \/ FlushBin(t) => TypeOK'
           /\ Respond => TypeOK'
           /\ Crash => TypeOK'
           /\ \A k \in keys : ExpireKey(k) => TypeOK'
           /\ \A r \in Requests : PurgeLog(r) => TypeOK'
<1>1. ASSUME NEW r \in Ids, NEW d \in Docs, Move(r, d)
      PROVE  TypeOK'
  <2>1. /\ test' \in [Tests -> TestRow]
        /\ cert' \in [Certs -> CertRow]
    BY <1>1, StartedType DEF Move
  <2>2. cmd' \in [Requests -> Command \cup {NoCommand}]
    BY <1>1, UsesType DEF Move
  <2> QED BY <1>1, <2>1, <2>2 DEF Move, TypeOK, Book, samples
<1>2. ASSUME NEW r \in Ids, NEW D \in SUBSET Docs, NEW first, PatchStatus(r, D, first)
      PROVE  TypeOK'
  <2>1. /\ test' \in [Tests -> TestRow]
        /\ cert' \in [Certs -> CertRow]
    BY <1>2, StartedType DEF PatchStatus
  <2>2. cmd' \in [Requests -> Command \cup {NoCommand}]
    BY <1>2, UsesType DEF PatchStatus
  <2>3. logged' \in SUBSET Requests
    BY <1>2, LogsType DEF PatchStatus, TypeOK, Book
  <2>4. told' \in SUBSET (Docs \X {"IN_PROGRESS", "DONE"})
    BY <1>2 DEF PatchStatus, TypeOK, Book
  <2> QED BY <1>2, <2>1, <2>2, <2>3, <2>4 DEF PatchStatus, TypeOK, Book, samples
<1>3. ASSUME NEW r \in Requests, NEW d \in Docs, ReplayNext(r, d)
      PROVE  TypeOK'
  <2>1. PICK op \in {"complete", "move", "finalize"} : Uses(r, op, {d})
    BY <1>3 DEF ReplayNext, ReplayDirect, ReplayMove, ReplayFinalize
  <2>2. cmd' \in [Requests -> Command \cup {NoCommand}]
    BY <2>1, UsesType DEF Ids
  <2>3. /\ UNCHANGED <<test, cert, samples, debit, logged, keys, pending>>
        /\ told' \in SUBSET (Docs \X {"IN_PROGRESS", "DONE"})
    BY <1>3 DEF ReplayNext, ReplayDirect, ReplayMove, ReplayFinalize, TypeOK, Book
  <2> QED BY <2>2, <2>3 DEF TypeOK, Book, samples
<1>4. ASSUME NEW t \in Tests, RestoreTest(t) \/ FlushBin(t)
      PROVE  TypeOK'
  <2>0. test[t] \in TestRow
    BY DEF TypeOK, Book
  <2>1. /\ [test[t] EXCEPT !.bin = FALSE] \in TestRow
        /\ [test[t] EXCEPT !.st = "erased", !.bin = FALSE] \in TestRow
    BY <2>0 DEF TestRow
  <2>2. test' \in [Tests -> TestRow]
    BY <1>4, <2>1 DEF RestoreTest, FlushBin, TypeOK, Book
  <2> QED BY <1>4, <2>2 DEF RestoreTest, FlushBin, TypeOK, Book, samples
<1>5. ASSUME Respond
      PROVE  TypeOK'
  <2>1. pending \in [op : {"move", "finalize"}, doc : Docs, id : Ids]
    BY <1>5 DEF Respond, TypeOK, Book
  <2>2. keys' \in SUBSET Key
    BY <1>5, <2>1 DEF Respond, TypeOK, Book, Key
  <2>3. told' \in SUBSET (Docs \X {"IN_PROGRESS", "DONE"})
    BY <1>5, <2>1 DEF Respond, TypeOK, Book, ToldBy
  <2> QED BY <1>5, <2>2, <2>3 DEF Respond, TypeOK, Book, samples
<1>6. Crash => TypeOK'
  BY DEF Crash, TypeOK, Book, samples
<1>7. ASSUME NEW k \in keys, ExpireKey(k)
      PROVE  TypeOK'
  BY <1>7 DEF ExpireKey, TypeOK, Book, samples
<1>8. ASSUME NEW r \in Requests, PurgeLog(r)
      PROVE  TypeOK'
  BY <1>8 DEF PurgeLog, TypeOK, Book, samples
<1> QED BY <1>1, <1>2, <1>3, <1>4, <1>5, <1>6, <1>7, <1>8

LEMMA NextType == TypeOK /\ [Next]_vars => TypeOK'
<1>1. ASSUME TypeOK, UNCHANGED vars
      PROVE  TypeOK'
  BY <1>1 DEF vars, samples, TypeOK, Book
<1>2. ASSUME TypeOK, Next
      PROVE  TypeOK'
  BY <1>2, TestNextType, CertNextType, OtherNextType DEF Next
<1> QED BY <1>1, <1>2

\* Every reachable state is well typed: in particular every fee, total and debit
\* is a natural number, and every row lists known samples.
THEOREM TypeCorrect == Spec => []TypeOK
BY InitType, NextType, PTL DEF Spec

------------------------------------------------------------------------------
\* Certificates are never empty

LEMMA TestNextItems ==
    ASSUME TypeOK, CertHasItems, NEW r \in Ids, NEW t \in Tests, TestNext(r, t)
    PROVE  CertHasItems'
<1>0. cert \in [Certs -> CertRow]
  BY DEF TypeOK
<1>1. ASSUME NEW M, NEW R, NEW W, NEW c, NEW claim, CompleteTest(t, M, R, W, c, claim)
      PROVE  CertHasItems'
  <2>1. CASE CertItems(t, R, W) = {}
    BY <1>1, <2>1 DEF CompleteTest, CertHasItems
  <2>2. CASE CertItems(t, R, W) # {}
    BY <1>0, <1>1, <2>2 DEF CompleteTest, IssuedFor, CertHasItems
  <2> QED BY <2>1, <2>2
<1>2. ASSUME NEW S, NEW c \in Certs, ConvertToCertificate(r, t, S, c)
      PROVE  CertHasItems'
  BY <1>0, <1>2 DEF ConvertToCertificate, IssuedFor, CertHasItems
<1>3. ASSUME \/ \E S, ret \in SUBSET Samples : CreateTest(r, t, S, ret)
             \/ \E M, R, W \in SUBSET test[t].items : SaveDraft(r, t, M, R, W)
             \/ DeleteTest(r, t)
      PROVE  CertHasItems'
  BY <1>3 DEF CreateTest, SaveDraft, DeleteTest, CertHasItems
<1> QED BY <1>1, <1>2, <1>3 DEF TestNext, FinalizeDirect, FinalizeTest

LEMMA CertNextItems ==
    ASSUME TypeOK, CertHasItems, NEW r \in Ids, NEW c \in Certs, CertNext(r, c)
    PROVE  CertHasItems'
<1>0. cert \in [Certs -> CertRow] /\ cert[c] \in CertRow
  BY DEF TypeOK
<1>1. ASSUME NEW kind, NEW S, CreateCertificate(r, c, kind, S)
      PROVE  CertHasItems'
  BY <1>0, <1>1 DEF CreateCertificate, CertHasItems
<1>2. ASSUME NEW s, AddItem(r, c, s)
      PROVE  CertHasItems'
  BY <1>0, <1>2 DEF AddItem, CertHasItems, CertRow
<1>3. ASSUME NEW s, RemoveItem(r, c, s)
      PROVE  CertHasItems'
  BY <1>0, <1>3 DEF RemoveItem, CertHasItems, CertRow
<1>4. ASSUME FinalizeCert(r, c)
      PROVE  CertHasItems'
  BY <1>0, <1>4 DEF FinalizeCert, Closed, CertHasItems, CertRow
<1> QED BY <1>1, <1>2, <1>3, <1>4 DEF CertNext

LEMMA StartedItems ==
    ASSUME TypeOK, CertHasItems, NEW D,
           \A d \in D : d \in Docs => Status(d) = "TODO",
           Started(D)
    PROVE  CertHasItems'
<1>1. cert \in [Certs -> CertRow]
  BY DEF TypeOK
<1>2. ASSUME NEW c \in Certs
      PROVE  cert'[c].items = cert[c].items /\ (cert[c].st = "absent" => cert'[c].st = "absent")
  <2>1. CASE c \in D
    <3>1. c \notin Tests
      BY LabAssumption
    <3> QED BY <1>1, <2>1, <3>1 DEF Started, Status, CertRow, Docs
  <2>2. CASE c \notin D
    BY <1>1, <2>2 DEF Started
  <2> QED BY <2>1, <2>2
<1> QED BY <1>2 DEF CertHasItems

LEMMA NextItems == TypeOK /\ CertHasItems /\ [Next]_vars => CertHasItems'
<1> SUFFICES ASSUME TypeOK, CertHasItems, [Next]_vars
             PROVE  CertHasItems'
  OBVIOUS
<1>1. ASSUME NEW r \in Ids, NEW d \in Docs, Move(r, d)
      PROVE  CertHasItems'
  BY <1>1, StartedItems DEF Move, Startable
<1>2. ASSUME NEW r \in Ids, NEW D \in SUBSET Docs, NEW first \in Certs \cup {NoCert},
             PatchStatus(r, D, first)
      PROVE  CertHasItems'
  <2> DEFINE ready == {d \in D : Startable(d)}
             moved == (ready \cap Tests) \cup {first}
  <2>1. \A d \in moved : d \in Docs => Status(d) = "TODO"
    BY <1>2, LabAssumption DEF PatchStatus, Startable
  <2>2. Started(moved)
    BY <1>2 DEF PatchStatus
  <2> HIDE DEF moved
  <2> QED BY <2>1, <2>2, StartedItems
<1>3. ASSUME NEW r \in Requests, NEW d \in Docs, ReplayNext(r, d)
      PROVE  CertHasItems'
  BY <1>3 DEF ReplayNext, ReplayDirect, ReplayMove, ReplayFinalize, CertHasItems
<1>4. ASSUME \/ UNCHANGED vars
             \/ \E t \in Tests : RestoreTest(t) \/ FlushBin(t)
             \/ Respond
             \/ Crash
             \/ \E k \in keys : ExpireKey(k)
             \/ \E r \in Requests : PurgeLog(r)
      PROVE  CertHasItems'
  BY <1>4 DEF vars, RestoreTest, FlushBin, Respond, Crash, ExpireKey, PurgeLog, CertHasItems
<1> QED BY <1>1, <1>2, <1>3, <1>4, TestNextItems, CertNextItems DEF Next

\* No sequence of additions, removals and conversions leaves a certificate that
\* certifies nothing.
THEOREM CertHasItemsCorrect == Spec => []CertHasItems
<1>1. Init => CertHasItems
  BY DEF Init, CertHasItems
<1> QED BY <1>1, NextItems, TypeCorrect, PTL DEF Spec

------------------------------------------------------------------------------
\* Charging

\* A step that writes no DEBIT row keeps the charging rules if it closes no
\* document, reopens none, and changes no closed certificate.
LEMMA QuietStep ==
    ASSUME ChargeInv, TypeOK', debit' = debit,
           \A t \in Tests : /\ test[t].st = "DONE" <=> test'[t].st = "DONE"
                            /\ test[t].st = "DONE" => test'[t].total = test[t].total,
           \A c \in Certs : /\ cert'[c].st = "DONE" => cert'[c] = cert[c]
                            /\ cert'[c].st \in {"absent", "TODO"} =>
                                 cert[c].st \in {"absent", "TODO"}
    PROVE  ChargeInv'
<1>1. ChargedOnce' /\ (\A d \in Docs : debit[d].n = 0 => debit[d].sum = 0)'
  BY DEF ChargeInv, ChargedOnce
<1>2. DoneIsCharged'
  BY DEF ChargeInv, DoneIsCharged
<1>3. OpenIsFree'
  BY DEF ChargeInv, OpenIsFree
<1> QED BY <1>1, <1>2, <1>3 DEF ChargeInv

\* Charging a document that has no DEBIT row yet gives it one row of the amount.
LEMMA FirstCharge ==
    ASSUME NEW book \in Book, NEW d \in Docs, NEW a \in Nat,
           book[d].n = 0, book[d].sum = 0, a > 0
    PROVE  Charged(book, d, a)[d] = [n |-> 1, sum |-> a]
BY ChargedHere

\* Completing an open test charges the test its total unless it is erased, and
\* a new certificate once.
LEMMA CompleteTestCharges ==
    ASSUME ChargeInv, TypeOK', NEW t \in Tests, test[t].st # "DONE",
           NEW M, NEW R, NEW W, NEW c, NEW claim \in Ids \cup {NoReq},
           CompleteTest(t, M, R, W, c, claim)
    PROVE  ChargeInv'
<1> DEFINE book == TestBook(t, R, W)
           mine == CertItems(t, R, W)
           full == FullConvert(t, R, W)
<1>0. /\ TypeOK
      /\ t \in Docs
      /\ test[t] \in TestRow
      /\ debit \in Book
      /\ debit[t].n = 0 /\ debit[t].sum = 0
  BY DEF ChargeInv, TypeOK, Book, OpenIsFree, Docs
<1>1. Fee(t) \in Nat /\ Fee(t) > 0
  BY <1>0, FeeType DEF CompleteTest, Complete
<1>2. /\ book \in Book
      /\ \A d \in Docs : d # t => book[d] = debit[d]
      /\ book[t] = IF full THEN [n |-> 0, sum |-> 0] ELSE [n |-> 1, sum |-> Fee(t)]
  <2>1. CASE full
    <3>1. book = debit
      BY <2>1 DEF TestBook
    <3>2. debit[t] = [n |-> 0, sum |-> 0]
      BY <1>0 DEF Book
    <3> QED BY <1>0, <2>1, <3>1, <3>2
  <2>2. CASE ~full
    <3>1. book = Charged(debit, t, Fee(t))
      BY <2>2 DEF TestBook
    <3> HIDE DEF book, full
    <3>2. book \in Book
      BY <1>0, <1>1, <3>1, ChargedType
    <3>3. \A d \in Docs : d # t => book[d] = debit[d]
      BY <1>0, <1>1, <3>1, ChargedElsewhere
    <3>4. book[t] = [n |-> 1, sum |-> Fee(t)]
      BY <1>0, <1>1, <3>1, FirstCharge
    <3> QED BY <2>2, <3>2, <3>3, <3>4
  <2> QED BY <2>1, <2>2
<1>3. /\ test' = [test EXCEPT ![t] = Completed(t, R, W, claim)]
      /\ test'[t].st = IF full THEN "erased" ELSE "DONE"
      /\ ~full => test'[t].total = Fee(t)
      /\ \A u \in Tests \ {t} : test'[u] = test[u]
  <2>1. test' = [test EXCEPT ![t] = Completed(t, R, W, claim)]
    BY DEF CompleteTest
  <2>2. /\ Completed(t, R, W, claim).st = IF full THEN "erased" ELSE "DONE"
        /\ ~full => Completed(t, R, W, claim).total = Fee(t)
    BY <1>0 DEF Completed, TestRow
  <2> QED BY <1>0, <2>1, <2>2 DEF TypeOK
<1>4. \/ cert' = cert /\ debit' = book
      \/ /\ c \in Certs /\ cert[c].st = "absent"
         /\ cert'[c].st = "IN_PROGRESS" /\ \A e \in Certs \ {c} : cert'[e] = cert[e]
         /\ debit' \in Book
         /\ \A d \in Docs : d # c => debit'[d] = book[d]
         /\ debit'[c].n = 1
  <2>1. CASE mine = {}
    BY <2>1 DEF CompleteTest
  <2>2. CASE mine # {}
    <3>1. /\ c \in Certs /\ c \in Docs /\ c # t /\ cert[c].st = "absent"
          /\ cert' = [cert EXCEPT ![c] = IssuedFor(t, mine)]
          /\ debit' = Charged(book, c, CertFeeAtTest * Cardinality(mine))
      BY <2>2 DEF CompleteTest, Docs
    <3>2. mine \in SUBSET Samples
      BY <1>0 DEF TestRow, CertItems
    <3>3. /\ CertFeeAtTest * Cardinality(mine) \in Nat
          /\ CertFeeAtTest * Cardinality(mine) > 0
      BY <2>2, <3>2, CountType DEF CertFeeAtTest
    <3>4. book[c].n = 0 /\ book[c].sum = 0
      BY <1>2, <3>1 DEF ChargeInv, OpenIsFree
    <3>5. Charged(book, c, CertFeeAtTest * Cardinality(mine))[c]
            = [n |-> 1, sum |-> CertFeeAtTest * Cardinality(mine)]
      BY <1>2, <3>1, <3>3, <3>4, FirstCharge
    <3>6. /\ debit' \in Book
          /\ \A d \in Docs : d # c => debit'[d] = book[d]
      <4> DEFINE fee == CertFeeAtTest * Cardinality(mine)
      <4>1. fee \in Nat /\ debit' = Charged(book, c, fee)
        BY <3>1, <3>3
      <4>2. book \in Book /\ c \in Docs
        BY <1>2, <3>1
      <4> HIDE DEF book, fee
      <4>3. debit' \in Book
        BY <4>1, <4>2, ChargedType
      <4>4. \A d \in Docs : d # c => debit'[d] = book[d]
        BY <4>1, <4>2, ChargedElsewhere
      <4> QED BY <4>3, <4>4
    <3>7. /\ cert'[c].st = "IN_PROGRESS"
          /\ \A e \in Certs \ {c} : cert'[e] = cert[e]
      BY <1>0, <3>1 DEF TypeOK, IssuedFor
    <3> QED BY <3>1, <3>5, <3>6, <3>7
  <2> QED BY <2>1, <2>2
<1>5. \A d \in Docs : /\ debit'[d].n <= 1
                      /\ debit'[d].n = 0 => debit'[d].sum = 0
  BY <1>0, <1>2, <1>4 DEF ChargeInv, ChargedOnce
<1>6. \A u \in Tests : debit'[u] = book[u]
  BY <1>4 DEF Docs
<1>7. \A e \in Certs : \/ debit'[e] = debit[e] /\ cert'[e] = cert[e]
                       \/ debit'[e].n = 1 /\ cert'[e].st = "IN_PROGRESS"
  BY <1>2, <1>4 DEF Docs
<1>8. DoneIsCharged'
  <2> HIDE DEF book, full
  <2>1. \A u \in Tests : test'[u].st = "DONE" => debit'[u] = [n |-> 1, sum |-> test'[u].total]
    <3> SUFFICES ASSUME NEW u \in Tests, test'[u].st = "DONE"
                 PROVE  debit'[u] = [n |-> 1, sum |-> test'[u].total]
      OBVIOUS
    <3>1. debit'[u] = book[u]
      BY <1>6
    <3>2. CASE u = t
      BY <1>2, <1>3, <3>1, <3>2
    <3>3. CASE u # t
      <4>1. test'[u] = test[u] /\ book[u] = debit[u]
        BY <1>2, <1>3, <3>3 DEF Docs
      <4> QED BY <3>1, <4>1 DEF ChargeInv, DoneIsCharged
    <3> QED BY <3>2, <3>3
  <2>2. \A e \in Certs : cert'[e].st = "DONE" => debit'[e].n >= 1
    BY <1>7 DEF ChargeInv, DoneIsCharged
  <2> QED BY <2>1, <2>2 DEF DoneIsCharged
<1>9. OpenIsFree'
  <2> HIDE DEF book, full
  <2>1. \A u \in Tests : test'[u].st # "DONE" => debit'[u].n = 0
    <3> SUFFICES ASSUME NEW u \in Tests, test'[u].st # "DONE"
                 PROVE  debit'[u].n = 0
      OBVIOUS
    <3>1. debit'[u] = book[u]
      BY <1>6
    <3>2. CASE u = t
      BY <1>2, <1>3, <3>1, <3>2
    <3>3. CASE u # t
      <4>1. test'[u] = test[u] /\ book[u] = debit[u]
        BY <1>2, <1>3, <3>3 DEF Docs
      <4> QED BY <3>1, <4>1 DEF ChargeInv, OpenIsFree
    <3> QED BY <3>2, <3>3
  <2>2. \A e \in Certs : cert'[e].st \in {"absent", "TODO"} => debit'[e].n = 0
    BY <1>7 DEF ChargeInv, OpenIsFree
  <2> QED BY <2>1, <2>2 DEF OpenIsFree
<1> QED BY <1>5, <1>8, <1>9 DEF ChargeInv, ChargedOnce

LEMMA InitCharge == Init => ChargeInv
<1> SUFFICES ASSUME Init PROVE ChargeInv
  OBVIOUS
<1>1. TypeOK
  BY InitType
<1> QED BY <1>1 DEF Init, ChargeInv, ChargedOnce, DoneIsCharged, OpenIsFree, Docs

\* Move and bulk-status start documents that are TODO and change nothing else.
LEMMA StartedQuiet ==
    ASSUME ChargeInv, TypeOK', debit' = debit, NEW D,
           \A d \in D : d \in Docs => Status(d) = "TODO",
           Started(D)
    PROVE  ChargeInv'
<1>1. /\ test \in [Tests -> TestRow]
      /\ cert \in [Certs -> CertRow]
  BY DEF ChargeInv, TypeOK
<1>2. ASSUME NEW t \in Tests
      PROVE  /\ test[t].st = "DONE" <=> test'[t].st = "DONE"
             /\ test[t].st = "DONE" => test'[t].total = test[t].total
  <2>1. CASE t \in D
    BY <1>1, <2>1 DEF Status, Started, TestRow, Docs
  <2>2. CASE t \notin D
    BY <1>1, <2>2 DEF Started
  <2> QED BY <2>1, <2>2
<1>3. ASSUME NEW c \in Certs
      PROVE  /\ cert'[c].st = "DONE" => cert'[c] = cert[c]
             /\ cert'[c].st \in {"absent", "TODO"} => cert[c].st \in {"absent", "TODO"}
  <2>1. CASE c \in D
    BY <1>1, <2>1 DEF Status, Started, CertRow, Docs
  <2>2. CASE c \notin D
    BY <1>1, <2>2 DEF Started
  <2> QED BY <2>1, <2>2
<1> QED BY <1>2, <1>3, QuietStep

LEMMA TestNextCharge ==
    ASSUME ChargeInv, TypeOK', NEW r \in Ids, NEW t \in Tests, TestNext(r, t)
    PROVE  ChargeInv'
<1>0. /\ test \in [Tests -> TestRow]
      /\ test[t] \in TestRow
      /\ cert \in [Certs -> CertRow]
  BY DEF ChargeInv, TypeOK
<1>1. ASSUME NEW S, NEW ret, CreateTest(r, t, S, ret)
      PROVE  ChargeInv'
  <2>1. \A u \in Tests : /\ test[u].st = "DONE" <=> test'[u].st = "DONE"
                         /\ test[u].st = "DONE" => test'[u].total = test[u].total
    BY <1>0, <1>1 DEF CreateTest, TestRow
  <2> QED BY <1>1, <2>1, QuietStep DEF CreateTest
<1>2. ASSUME NEW M, NEW R, NEW W, SaveDraft(r, t, M, R, W)
      PROVE  ChargeInv'
  <2>1. \A u \in Tests : /\ test[u].st = "DONE" <=> test'[u].st = "DONE"
                         /\ test[u].st = "DONE" => test'[u].total = test[u].total
    BY <1>0, <1>2 DEF SaveDraft, TestRow
  <2> QED BY <1>2, <2>1, QuietStep DEF SaveDraft
<1>3. ASSUME DeleteTest(r, t)
      PROVE  ChargeInv'
  <2>1. \A u \in Tests : /\ test[u].st = "DONE" <=> test'[u].st = "DONE"
                         /\ test[u].st = "DONE" => test'[u].total = test[u].total
    BY <1>0, <1>3 DEF DeleteTest, TestRow
  <2> QED BY <1>3, <2>1, QuietStep DEF DeleteTest
<1>4. ASSUME NEW M, NEW R, NEW W, NEW c, FinalizeDirect(r, t, M, R, W, c)
      PROVE  ChargeInv'
  <2>1. test[t].claim \in Ids \cup {NoReq}
    BY <1>0 DEF TestRow
  <2> QED BY <1>4, <2>1, CompleteTestCharges DEF FinalizeDirect
<1>5. ASSUME NEW c, FinalizeTest(r, t, c)
      PROVE  ChargeInv'
  <2>1. PICK M, R, W : CompleteTest(t, M, R, W, c, r)
    BY <1>5 DEF FinalizeTest
  <2> QED BY <1>5, <2>1, CompleteTestCharges DEF FinalizeTest
<1>6. ASSUME NEW S, NEW c \in Certs, ConvertToCertificate(r, t, S, c)
      PROVE  ChargeInv'
  <2>1. \A u \in Tests : /\ test[u].st = "DONE" <=> test'[u].st = "DONE"
                         /\ test[u].st = "DONE" => test'[u].total = test[u].total
    BY <1>0, <1>6 DEF ConvertToCertificate, TestRow
  <2>2. \A e \in Certs : /\ cert'[e].st = "DONE" => cert'[e] = cert[e]
                         /\ cert'[e].st \in {"absent", "TODO"} =>
                              cert[e].st \in {"absent", "TODO"}
    BY <1>0, <1>6 DEF ConvertToCertificate, IssuedFor, CertRow
  <2> QED BY <1>6, <2>1, <2>2, QuietStep DEF ConvertToCertificate
<1> QED BY <1>1, <1>2, <1>3, <1>4, <1>5, <1>6 DEF TestNext

\* Finalizing charges a certificate that has no DEBIT row yet.
LEMMA FinalizeCertCharges ==
    ASSUME ChargeInv, CertHasItems, TypeOK', NEW r \in Ids, NEW c \in Certs,
           FinalizeCert(r, c)
    PROVE  ChargeInv'
<1>0. /\ TypeOK
      /\ cert \in [Certs -> CertRow]
      /\ c \in Docs
      /\ debit \in Book
      /\ test' = test
  BY DEF ChargeInv, TypeOK, Docs, FinalizeCert, Book
<1>1. /\ FinalFee(c) \in Nat
      /\ FinalFee(c) > 0
  BY <1>0, FinalFeeType DEF CertHasItems, FinalizeCert
<1>2. /\ cert[c].st = "IN_PROGRESS"
      /\ cert'[c].st = "DONE"
      /\ cert'[c].items = cert[c].items
      /\ \A e \in Certs : e # c => cert'[e] = cert[e]
  BY <1>0 DEF FinalizeCert, Closed, CertRow
<1>3. /\ \A d \in Docs : d # c => debit'[d] = debit[d]
      /\ \/ debit'[c].n = 1
         \/ debit'[c] = debit[c] /\ debit[c].n # 0
  <2>1. CASE NeedsCharge(c)
    <3>1. /\ debit' = Charged(debit, c, FinalFee(c))
          /\ FinalFee(c) > 0
          /\ debit[c].n = 0 /\ debit[c].sum = 0
      BY <1>0, <2>1 DEF FinalizeCert, NeedsCharge, ChargeInv
    <3>2. \A d \in Docs : d # c => debit'[d] = debit[d]
      BY <1>0, <1>1, <3>1, ChargedElsewhere
    <3>3. debit'[c] = [n |-> 1, sum |-> FinalFee(c)]
      BY <1>0, <1>1, <3>1, FirstCharge
    <3> QED BY <3>2, <3>3
  <2>2. CASE ~NeedsCharge(c)
    BY <1>1, <2>2 DEF FinalizeCert, NeedsCharge
  <2> QED BY <2>1, <2>2
<1>4. \A d \in Docs : /\ debit'[d].n <= 1
                      /\ debit'[d].n = 0 => debit'[d].sum = 0
  BY <1>3 DEF ChargeInv, ChargedOnce
<1>5. \A t \in Tests : debit'[t] = debit[t]
  BY <1>3 DEF Docs
<1>6. \A e \in Certs : e # c => debit'[e] = debit[e]
  BY <1>3 DEF Docs
<1>7. DoneIsCharged'
  <2>1. \A t \in Tests : test'[t].st = "DONE" => debit'[t] = [n |-> 1, sum |-> test'[t].total]
    BY <1>0, <1>5 DEF ChargeInv, DoneIsCharged
  <2>2. debit'[c].n >= 1
    <3>1. debit[c].n \in Nat
      BY <1>0 DEF Book
    <3> QED BY <1>1, <1>3, <3>1
  <2>3. \A e \in Certs : cert'[e].st = "DONE" => debit'[e].n >= 1
    BY <1>2, <1>6, <2>2 DEF ChargeInv, DoneIsCharged
  <2> QED BY <2>1, <2>3 DEF DoneIsCharged
<1>8. OpenIsFree'
  BY <1>0, <1>2, <1>5, <1>6 DEF ChargeInv, OpenIsFree
<1> QED BY <1>4, <1>7, <1>8 DEF ChargeInv, ChargedOnce

LEMMA CertNextCharge ==
    ASSUME ChargeInv, CertHasItems, TypeOK', NEW r \in Ids, NEW c \in Certs, CertNext(r, c)
    PROVE  ChargeInv'
<1>0. /\ cert \in [Certs -> CertRow]
      /\ cert[c] \in CertRow
  BY DEF ChargeInv, TypeOK
<1>1. ASSUME NEW kind, NEW S, CreateCertificate(r, c, kind, S)
      PROVE  ChargeInv'
  <2>1. \A e \in Certs : /\ cert'[e].st = "DONE" => cert'[e] = cert[e]
                         /\ cert'[e].st \in {"absent", "TODO"} =>
                              cert[e].st \in {"absent", "TODO"}
    BY <1>0, <1>1 DEF CreateCertificate, CertRow
  <2> QED BY <1>1, <2>1, QuietStep DEF CreateCertificate
<1>2. ASSUME NEW s, AddItem(r, c, s)
      PROVE  ChargeInv'
  <2>1. \A e \in Certs : /\ cert'[e].st = "DONE" => cert'[e] = cert[e]
                         /\ cert'[e].st \in {"absent", "TODO"} =>
                              cert[e].st \in {"absent", "TODO"}
    BY <1>0, <1>2 DEF AddItem, MutableCert, CertRow
  <2> QED BY <1>2, <2>1, QuietStep DEF AddItem
<1>3. ASSUME NEW s, RemoveItem(r, c, s)
      PROVE  ChargeInv'
  <2>1. \A e \in Certs : /\ cert'[e].st = "DONE" => cert'[e] = cert[e]
                         /\ cert'[e].st \in {"absent", "TODO"} =>
                              cert[e].st \in {"absent", "TODO"}
    BY <1>0, <1>3 DEF RemoveItem, MutableCert, CertRow
  <2> QED BY <1>3, <2>1, QuietStep DEF RemoveItem
<1>4. FinalizeCert(r, c) => ChargeInv'
  BY FinalizeCertCharges
<1> QED BY <1>1, <1>2, <1>3, <1>4 DEF CertNext

\* Steps that touch neither rows nor the book keep the charging rules.
LEMMA SameRowsCharge ==
    ASSUME ChargeInv, TypeOK', UNCHANGED <<test, cert, debit>>
    PROVE  ChargeInv'
BY QuietStep

LEMMA NextCharge == ChargeInv /\ CertHasItems /\ [Next]_vars => ChargeInv'
<1> SUFFICES ASSUME ChargeInv, CertHasItems, [Next]_vars
             PROVE  ChargeInv'
  OBVIOUS
<1>0. TypeOK /\ TypeOK'
  BY NextType DEF ChargeInv
<1>1. CASE UNCHANGED vars
  BY <1>0, <1>1, SameRowsCharge DEF vars
<1>2. ASSUME NEW r \in Ids, NEW t \in Tests, TestNext(r, t)
      PROVE  ChargeInv'
  BY <1>0, <1>2, TestNextCharge
<1>3. ASSUME NEW r \in Ids, NEW c \in Certs, CertNext(r, c)
      PROVE  ChargeInv'
  BY <1>0, <1>3, CertNextCharge
<1>4. ASSUME NEW r \in Ids, NEW d \in Docs, Move(r, d)
      PROVE  ChargeInv'
  BY <1>0, <1>4, StartedQuiet DEF Move, Startable
<1>5. ASSUME NEW r \in Ids, NEW D \in SUBSET Docs, NEW first \in Certs \cup {NoCert},
             PatchStatus(r, D, first)
      PROVE  ChargeInv'
  <2> DEFINE ready == {d \in D : Startable(d)}
             moved == (ready \cap Tests) \cup {first}
  <2>1. \A d \in moved : d \in Docs => Status(d) = "TODO"
    BY <1>5 DEF PatchStatus, Startable
  <2>2. Started(moved)
    BY <1>5 DEF PatchStatus
  <2>3. debit' = debit
    BY <1>5 DEF PatchStatus
  <2> HIDE DEF moved
  <2> QED BY <1>0, <2>1, <2>2, <2>3, StartedQuiet
<1>6. ASSUME NEW r \in Requests, NEW d \in Docs, ReplayNext(r, d)
      PROVE  ChargeInv'
  BY <1>0, <1>6, SameRowsCharge DEF ReplayNext, ReplayDirect, ReplayMove, ReplayFinalize
<1>7. ASSUME NEW t \in Tests, RestoreTest(t) \/ FlushBin(t)
      PROVE  ChargeInv'
  <2>1. \A u \in Tests : /\ test[u].st = "DONE" <=> test'[u].st = "DONE"
                         /\ test[u].st = "DONE" => test'[u].total = test[u].total
    BY <1>0, <1>7 DEF RestoreTest, FlushBin, TypeOK, TestRow
  <2> QED BY <1>0, <1>7, <2>1, QuietStep DEF RestoreTest, FlushBin
<1>8. ASSUME \/ Respond
             \/ Crash
             \/ \E k \in keys : ExpireKey(k)
             \/ \E r \in Requests : PurgeLog(r)
      PROVE  ChargeInv'
  BY <1>0, <1>8, SameRowsCharge DEF Respond, Crash, ExpireKey, PurgeLog
<1> QED BY <1>1, <1>2, <1>3, <1>4, <1>5, <1>6, <1>7, <1>8 DEF Next

\* The charging rules hold in every reachable state of every laboratory, in PARITY
\* and in STRICT mode, with or without the lastmodified triggers.
THEOREM ChargingCorrect == Spec => []ChargeInv
BY InitCharge, NextCharge, CertHasItemsCorrect, PTL DEF Spec

\* Retries, replays, crashes and both completion routes together never write a
\* second DEBIT row for a document.
THEOREM ChargedOnceCorrect == Spec => []ChargedOnce
<1>1. ChargeInv => ChargedOnce
  BY DEF ChargeInv
<1> QED BY <1>1, ChargingCorrect, PTL

\* A DONE test has been debited exactly its total, a DONE certificate has been
\* debited.
THEOREM DoneIsChargedCorrect == Spec => []DoneIsCharged
<1>1. ChargeInv => DoneIsCharged
  BY DEF ChargeInv
<1> QED BY <1>1, ChargingCorrect, PTL

\* Open tests, tests turned into certificates and certificates not started are free.
THEOREM OpenIsFreeCorrect == Spec => []OpenIsFree
<1>1. ChargeInv => OpenIsFree
  BY DEF ChargeInv
<1> QED BY <1>1, ChargingCorrect, PTL

------------------------------------------------------------------------------
\* Closed documents

\* What a step may do to closed documents.
Keeps ==
    /\ \A t \in Tests : test[t].st = "DONE" =>
         /\ \E S \in SUBSET test[t].items : test'[t] = [test[t] EXCEPT !.items = S]
         /\ debit'[t] = debit[t]
    /\ \A t \in Tests : test[t].st = "erased" => test'[t].st = "erased"
    /\ \A c \in Certs : cert[c].st = "DONE" => cert'[c] = cert[c] /\ debit'[c] = debit[c]

\* A row that does not change is kept: a test may give away nothing.
LEMMA SameTest ==
    ASSUME TypeOK, NEW t \in Tests, test'[t] = test[t]
    PROVE  \E S \in SUBSET test[t].items : test'[t] = [test[t] EXCEPT !.items = S]
<1>1. test[t] = [test[t] EXCEPT !.items = test[t].items]
  BY DEF TypeOK, TestRow
<1>2. test[t].items \in SUBSET test[t].items
  OBVIOUS
<1> QED BY <1>1, <1>2

\* A step that changes one test, not closed, and no certificate.
LEMMA KeepsOpenTest ==
    ASSUME TypeOK, NEW t \in Tests, test[t].st \notin {"DONE", "erased"},
           \A u \in Tests : u # t => test'[u] = test[u] /\ debit'[u] = debit[u],
           \A c \in Certs : cert[c].st = "DONE" => cert'[c] = cert[c] /\ debit'[c] = debit[c]
    PROVE  Keeps
BY SameTest DEF Keeps

\* A step that changes no test and no closed certificate.
LEMMA KeepsTests ==
    ASSUME TypeOK, UNCHANGED test, \A t \in Tests : debit'[t] = debit[t],
           \A c \in Certs : cert[c].st = "DONE" => cert'[c] = cert[c] /\ debit'[c] = debit[c]
    PROVE  Keeps
BY SameTest DEF Keeps

LEMMA KeepsCompleteTest ==
    ASSUME TypeOK, NEW t \in Tests, test[t].st \notin {"DONE", "erased"},
           NEW M, NEW R, NEW W, NEW c, NEW claim, CompleteTest(t, M, R, W, c, claim)
    PROVE  Keeps
<1>0. /\ test \in [Tests -> TestRow]
      /\ cert \in [Certs -> CertRow]
      /\ debit \in Book
      /\ t \in Docs
      /\ Fee(t) \in Nat
  BY FeeType DEF TypeOK, Book, Docs
<1>1. \A u \in Tests : u # t => test'[u] = test[u]
  BY <1>0 DEF CompleteTest
<1>2. /\ TestBook(t, R, W) \in Book
      /\ \A d \in Docs : d # t => TestBook(t, R, W)[d] = debit[d]
  <2>1. CASE FullConvert(t, R, W)
    BY <1>0, <2>1 DEF TestBook
  <2>2. CASE ~FullConvert(t, R, W)
    <3>1. TestBook(t, R, W) = Charged(debit, t, Fee(t))
      BY <2>2 DEF TestBook
    <3>2. TestBook(t, R, W) \in Book
      BY <1>0, <3>1, ChargedType
    <3>3. \A d \in Docs : d # t => TestBook(t, R, W)[d] = debit[d]
      BY <1>0, <3>1, ChargedElsewhere
    <3> QED BY <3>2, <3>3
  <2> QED BY <2>1, <2>2
<1>3. CASE CertItems(t, R, W) = {}
  <2>1. cert' = cert /\ debit' = TestBook(t, R, W)
    BY <1>3 DEF CompleteTest
  <2> QED BY <1>1, <1>2, <2>1, KeepsOpenTest DEF Docs
<1>4. CASE CertItems(t, R, W) # {}
  <2> DEFINE fee == CertFeeAtTest * Cardinality(CertItems(t, R, W))
  <2>1. /\ c \in Certs /\ c \in Docs /\ cert[c].st = "absent"
        /\ cert' = [cert EXCEPT ![c] = IssuedFor(t, CertItems(t, R, W))]
        /\ debit' = Charged(TestBook(t, R, W), c, fee)
    BY <1>4 DEF CompleteTest, Docs
  <2>2. fee \in Nat
    <3>1. CertItems(t, R, W) \in SUBSET Samples
      BY <1>0 DEF TestRow, CertItems
    <3> QED BY <3>1, CountType DEF CertFeeAtTest
  <2> HIDE DEF fee
  <2>3. \A d \in Docs : d # c => debit'[d] = TestBook(t, R, W)[d]
    BY <1>2, <2>1, <2>2, ChargedElsewhere
  <2>4. \A u \in Tests : u # t => debit'[u] = debit[u]
    BY <1>2, <2>1, <2>3 DEF Docs
  <2>5. \A e \in Certs : cert[e].st = "DONE" => cert'[e] = cert[e] /\ debit'[e] = debit[e]
    BY <1>0, <1>2, <2>1, <2>3 DEF Docs
  <2> QED BY <1>1, <2>4, <2>5, KeepsOpenTest
<1> QED BY <1>3, <1>4

LEMMA KeepsTestNext ==
    ASSUME TypeOK, NEW r \in Ids, NEW t \in Tests, TestNext(r, t)
    PROVE  Keeps
<1>0. test \in [Tests -> TestRow] /\ cert \in [Certs -> CertRow] /\ test[t] \in TestRow
  BY DEF TypeOK
<1>1. ASSUME NEW S, NEW ret, CreateTest(r, t, S, ret)
      PROVE  Keeps
  BY <1>0, <1>1, KeepsOpenTest DEF CreateTest
<1>2. ASSUME NEW M, NEW R, NEW W, SaveDraft(r, t, M, R, W)
      PROVE  Keeps
  BY <1>0, <1>2, KeepsOpenTest DEF SaveDraft, Live, Status
<1>3. ASSUME DeleteTest(r, t)
      PROVE  Keeps
  BY <1>0, <1>3, KeepsOpenTest DEF DeleteTest
<1>4. ASSUME NEW M, NEW R, NEW W, NEW c, FinalizeDirect(r, t, M, R, W, c)
      PROVE  Keeps
  BY <1>4, KeepsCompleteTest DEF FinalizeDirect, Live, Status
<1>5. ASSUME NEW c, FinalizeTest(r, t, c)
      PROVE  Keeps
  BY <1>5, KeepsCompleteTest DEF FinalizeTest
<1>6. ASSUME NEW S, NEW c \in Certs, ConvertToCertificate(r, t, S, c)
      PROVE  Keeps
  <2>1. /\ test'[t] = [test[t] EXCEPT !.items = test[t].items \ S]
        /\ \A u \in Tests : u # t => test'[u] = test[u]
        /\ test[t].st = "DONE"
        /\ debit' = debit
    BY <1>0, <1>6 DEF ConvertToCertificate
  <2>2. test[t].items \ S \in SUBSET test[t].items
    OBVIOUS
  <2>3. \A e \in Certs : cert[e].st = "DONE" => cert'[e] = cert[e]
    BY <1>0, <1>6 DEF ConvertToCertificate
  <2> QED BY <2>1, <2>2, <2>3, SameTest DEF Keeps
<1> QED BY <1>1, <1>2, <1>3, <1>4, <1>5, <1>6 DEF TestNext

LEMMA KeepsCertNext ==
    ASSUME TypeOK, NEW r \in Ids, NEW c \in Certs, CertNext(r, c)
    PROVE  Keeps
<1>0. cert \in [Certs -> CertRow] /\ debit \in Book /\ c \in Docs
  BY DEF TypeOK, Book, Docs
<1>1. ASSUME NEW kind, NEW S, CreateCertificate(r, c, kind, S)
      PROVE  Keeps
  BY <1>0, <1>1, KeepsTests DEF CreateCertificate
<1>2. ASSUME NEW s, AddItem(r, c, s)
      PROVE  Keeps
  BY <1>0, <1>2, KeepsTests DEF AddItem, MutableCert
<1>3. ASSUME NEW s, RemoveItem(r, c, s)
      PROVE  Keeps
  BY <1>0, <1>3, KeepsTests DEF RemoveItem, MutableCert
<1>4. ASSUME FinalizeCert(r, c)
      PROVE  Keeps
  <2>1. FinalFee(c) \in Nat
    BY FinalFeeType
  <2>2. \A d \in Docs : d # c => debit'[d] = debit[d]
    <3>1. CASE NeedsCharge(c)
      <4>1. debit' = Charged(debit, c, FinalFee(c))
        BY <1>4, <3>1 DEF FinalizeCert
      <4> QED BY <1>0, <2>1, <4>1, ChargedElsewhere
    <3>2. CASE ~NeedsCharge(c)
      BY <1>4, <3>2 DEF FinalizeCert
    <3> QED BY <3>1, <3>2
  <2>3. \A t \in Tests : debit'[t] = debit[t]
    BY <2>2 DEF Docs
  <2>4. \A e \in Certs : cert[e].st = "DONE" => cert'[e] = cert[e] /\ debit'[e] = debit[e]
    BY <1>0, <1>4, <2>2 DEF FinalizeCert, Docs
  <2>5. UNCHANGED test
    BY <1>4 DEF FinalizeCert
  <2> QED BY <2>3, <2>4, <2>5, KeepsTests
<1> QED BY <1>1, <1>2, <1>3, <1>4 DEF CertNext

LEMMA KeepsStarted ==
    ASSUME TypeOK, debit' = debit, NEW D,
           \A d \in D : d \in Docs => Status(d) = "TODO",
           Started(D)
    PROVE  Keeps
<1>0. test \in [Tests -> TestRow] /\ cert \in [Certs -> CertRow]
  BY DEF TypeOK
<1>1. ASSUME NEW t \in Tests, test[t].st \in {"DONE", "erased"}
      PROVE  test'[t] = test[t]
  BY <1>0, <1>1 DEF Started, Status, Docs
<1>2. ASSUME NEW c \in Certs, cert[c].st = "DONE"
      PROVE  cert'[c] = cert[c]
  BY <1>0, <1>2 DEF Started, Status, Docs
<1> QED BY <1>1, <1>2, SameTest DEF Keeps

LEMMA InitBin == Init => BinInv
BY InitType DEF Init, BinInv

\* The bin holds tests that are TODO only: a started test cannot be deleted, and a
\* deleted one cannot be started.
LEMMA NextBin == BinInv /\ [Next]_vars => BinInv'
<1> SUFFICES ASSUME BinInv, [Next]_vars
             PROVE  \A t \in Tests : test'[t].bin => test'[t].st = "TODO"
  BY NextType DEF BinInv
<1>0. TypeOK /\ test \in [Tests -> TestRow]
  BY DEF BinInv, TypeOK
<1>1. ASSUME UNCHANGED test
      PROVE  \A t \in Tests : test'[t].bin => test'[t].st = "TODO"
  BY <1>1 DEF BinInv
<1>2. ASSUME NEW r \in Ids, NEW t \in Tests, TestNext(r, t)
      PROVE  \A u \in Tests : test'[u].bin => test'[u].st = "TODO"
  <2>1. /\ \A u \in Tests : u # t => test'[u] = test[u]
        /\ test'[t].bin => test'[t].st = "TODO"
    <3>1. ASSUME NEW S, NEW ret, CreateTest(r, t, S, ret) PROVE <2>1!:
      BY <1>0, <3>1 DEF CreateTest, TestRow
    <3>2. ASSUME NEW M, NEW R, NEW W, SaveDraft(r, t, M, R, W) PROVE <2>1!:
      BY <1>0, <3>2 DEF SaveDraft, Live, TestRow
    <3>3. ASSUME DeleteTest(r, t) PROVE <2>1!:
      BY <1>0, <3>3 DEF DeleteTest, TestRow
    <3>4. ASSUME NEW M, NEW R, NEW W, NEW c, NEW claim, Live(t),
                 CompleteTest(t, M, R, W, c, claim)
          PROVE  <2>1!:
      BY <1>0, <3>4 DEF CompleteTest, Completed, Live, TestRow
    <3>5. ASSUME NEW M, NEW R, NEW W, NEW c, FinalizeDirect(r, t, M, R, W, c) PROVE <2>1!:
      BY <3>4, <3>5 DEF FinalizeDirect
    <3>6. ASSUME NEW c, FinalizeTest(r, t, c) PROVE <2>1!:
      BY <3>4, <3>6 DEF FinalizeTest
    <3>7. ASSUME NEW S, NEW c, ConvertToCertificate(r, t, S, c) PROVE <2>1!:
      BY <1>0, <3>7 DEF ConvertToCertificate, Live, TestRow
    <3> QED BY <1>2, <3>1, <3>2, <3>3, <3>5, <3>6, <3>7 DEF TestNext
  <2> QED BY <2>1 DEF BinInv
<1>3. ASSUME NEW D, \A d \in D : d \in Docs => Live(d), Started(D)
      PROVE  \A t \in Tests : test'[t].bin => test'[t].st = "TODO"
  BY <1>0, <1>3 DEF Started, Live, BinInv, TestRow, Docs
<1>4. ASSUME NEW r \in Ids, NEW d \in Docs, Move(r, d)
      PROVE  \A t \in Tests : test'[t].bin => test'[t].st = "TODO"
  BY <1>3, <1>4 DEF Move, Startable
<1>5. ASSUME NEW r \in Ids, NEW D \in SUBSET Docs, NEW first \in Certs \cup {NoCert},
             PatchStatus(r, D, first)
      PROVE  \A t \in Tests : test'[t].bin => test'[t].st = "TODO"
  <2> DEFINE moved == ({d \in D : Startable(d)} \cap Tests) \cup {first}
  <2>1. \A d \in moved : d \in Docs => Live(d)
    BY <1>5 DEF PatchStatus, Startable
  <2>2. Started(moved)
    BY <1>5 DEF PatchStatus
  <2> HIDE DEF moved
  <2> QED BY <1>3, <2>1, <2>2
<1>6. ASSUME NEW t \in Tests, RestoreTest(t) \/ FlushBin(t)
      PROVE  \A u \in Tests : test'[u].bin => test'[u].st = "TODO"
  BY <1>0, <1>6 DEF RestoreTest, FlushBin, BinInv, TestRow
<1>7. ASSUME NEW r \in Ids, NEW c \in Certs, CertNext(r, c)
      PROVE  UNCHANGED test
  BY <1>7 DEF CertNext, CreateCertificate, AddItem, RemoveItem, FinalizeCert
<1>8. ASSUME NEW r \in Requests, NEW d \in Docs, ReplayNext(r, d)
      PROVE  UNCHANGED test
  BY <1>8 DEF ReplayNext, ReplayDirect, ReplayMove, ReplayFinalize
<1>9. ASSUME \/ UNCHANGED vars
             \/ Respond
             \/ Crash
             \/ \E k \in keys : ExpireKey(k)
             \/ \E r \in Requests : PurgeLog(r)
      PROVE  UNCHANGED test
  BY <1>9 DEF vars, Respond, Crash, ExpireKey, PurgeLog
<1> QED BY <1>1, <1>2, <1>4, <1>5, <1>6, <1>7, <1>8, <1>9 DEF Next

LEMMA KeepsNext == BinInv /\ [Next]_vars => Keeps
<1> SUFFICES ASSUME BinInv, [Next]_vars
             PROVE  Keeps
  OBVIOUS
<1>0. TypeOK
  BY DEF BinInv
<1>1. ASSUME UNCHANGED <<test, cert, debit>>
      PROVE  Keeps
  BY <1>0, <1>1, KeepsTests
<1>2. ASSUME NEW r \in Ids, NEW t \in Tests, TestNext(r, t)
      PROVE  Keeps
  BY <1>0, <1>2, KeepsTestNext
<1>3. ASSUME NEW r \in Ids, NEW c \in Certs, CertNext(r, c)
      PROVE  Keeps
  BY <1>0, <1>3, KeepsCertNext
<1>4. ASSUME NEW r \in Ids, NEW d \in Docs, Move(r, d)
      PROVE  Keeps
  BY <1>0, <1>4, KeepsStarted DEF Move, Startable
<1>5. ASSUME NEW r \in Ids, NEW D \in SUBSET Docs, NEW first \in Certs \cup {NoCert},
             PatchStatus(r, D, first)
      PROVE  Keeps
  <2> DEFINE moved == ({d \in D : Startable(d)} \cap Tests) \cup {first}
  <2>1. \A d \in moved : d \in Docs => Status(d) = "TODO"
    BY <1>5 DEF PatchStatus, Startable
  <2>2. Started(moved) /\ debit' = debit
    BY <1>5 DEF PatchStatus
  <2> HIDE DEF moved
  <2> QED BY <1>0, <2>1, <2>2, KeepsStarted
<1>6. ASSUME NEW t \in Tests, RestoreTest(t) \/ FlushBin(t)
      PROVE  Keeps
  <2>1. test[t].st = "TODO"
    BY <1>6 DEF RestoreTest, FlushBin, BinInv
  <2>2. \A u \in Tests : u # t => test'[u] = test[u]
    BY <1>0, <1>6 DEF RestoreTest, FlushBin, TypeOK
  <2> QED BY <1>0, <1>6, <2>1, <2>2, KeepsOpenTest DEF RestoreTest, FlushBin
<1>7. ASSUME NEW r \in Requests, NEW d \in Docs, ReplayNext(r, d)
      PROVE  UNCHANGED <<test, cert, debit>>
  BY <1>7 DEF ReplayNext, ReplayDirect, ReplayMove, ReplayFinalize
<1>8. ASSUME \/ UNCHANGED vars
             \/ Respond
             \/ Crash
             \/ \E k \in keys : ExpireKey(k)
             \/ \E r \in Requests : PurgeLog(r)
      PROVE  UNCHANGED <<test, cert, debit>>
  BY <1>8 DEF vars, Respond, Crash, ExpireKey, PurgeLog
<1> QED BY <1>1, <1>2, <1>3, <1>4, <1>5, <1>6, <1>7, <1>8 DEF Next

\* What the recycle bin holds, and what the maintenance timer therefore erases, is
\* only ever a test nobody started.
THEOREM BinCorrect == Spec => []BinInv
BY InitBin, NextBin, PTL DEF Spec

\* No request, replay or restore changes a DONE record, except that a test may give
\* items away, and nothing is charged to it any more.
THEOREM DoneFrozenCorrect == Spec => DoneFrozen
<1>1. BinInv /\ [Next]_vars =>
        [/\ \A t \in Tests : test[t].st = "DONE" =>
              /\ \E S \in SUBSET test[t].items : test'[t] = [test[t] EXCEPT !.items = S]
              /\ debit'[t] = debit[t]
         /\ \A c \in Certs : cert[c].st = "DONE" =>
              cert'[c] = cert[c] /\ debit'[c] = debit[c]]_vars
  BY KeepsNext DEF Keeps
<1> QED BY <1>1, InitBin, NextBin, PTL DEF Spec, DoneFrozen

------------------------------------------------------------------------------
\* Acknowledgements

\* A closed document stays closed, and a finalized certificate keeps its stamp.
LEMMA ClosedForever ==
    ASSUME TypeOK, Keeps
    PROVE  /\ \A d \in Docs : Status(d) \in {"DONE", "erased"} => Status(d)' \in {"DONE", "erased"}
           /\ \A c \in Certs : \A r : Stamped(c, r) => Stamped(c, r)'
<1>1. ASSUME NEW t \in Tests, test[t].st \in {"DONE", "erased"}
      PROVE  test'[t].st \in {"DONE", "erased"}
  BY <1>1 DEF Keeps, TypeOK, TestRow
<1>2. ASSUME NEW c \in Certs, cert[c].st = "DONE"
      PROVE  cert'[c] = cert[c]
  BY <1>2 DEF Keeps
<1>3. \A d \in Docs : Status(d) \in {"DONE", "erased"} => Status(d)' \in {"DONE", "erased"}
  BY <1>1, <1>2 DEF Status, Docs, TypeOK, CertRow
<1>4. \A c \in Certs : \A r : Stamped(c, r) => Stamped(c, r)'
  BY <1>2 DEF Stamped, Live, Status, Claim
<1> QED BY <1>3, <1>4

\* What request_log may say of an identifier: it is bound to a command, and if that
\* is a finalize, the document is closed, a certificate under this identifier.
Settled(q) ==
    /\ cmd[q] # NoCommand
    /\ cmd[q].op \in {"finalize", "complete"} =>
         \A d \in cmd[q].on : Status(d) \in {"DONE", "erased"}
    /\ \A c \in Certs : cmd[q] = [op |-> "finalize", on |-> {c}] => Stamped(c, q)

LEMMA SettledKept ==
    ASSUME TypeOK, Keeps, NEW q \in Requests, Settled(q), cmd'[q] = cmd[q]
    PROVE  Settled(q)'
<1>1. cmd[q].on \in SUBSET Docs
  BY DEF TypeOK, Command, NoCommand
<1>2. \A d \in cmd[q].on : Status(d) \in {"DONE", "erased"} => Status(d)' \in {"DONE", "erased"}
  BY <1>1, ClosedForever
<1>3. \A c \in Certs : Stamped(c, q) => Stamped(c, q)'
  BY ClosedForever
<1> QED BY <1>2, <1>3 DEF Settled

LEMMA LogSettled ==
    ASSUME AckInv
    PROVE  \A q \in logged : Settled(q)
BY DEF AckInv, LoggedFinalize, RetryRecognised, Settled

\* After a step under an identifier, request_log is right if it is right about it.
LEMMA UsesSettles ==
    ASSUME AckInv, Keeps, NEW r \in Ids, NEW op, NEW on, Uses(r, op, on),
           logged' = logged \/ logged' = logged \cup ({r} \cap Requests),
           r \in Requests => Settled(r)' \/ logged' = logged
    PROVE  \A q \in logged' : Settled(q)'
<1>0. TypeOK /\ logged \in SUBSET Requests
  BY DEF AckInv, TypeOK
<1>1. ASSUME NEW q \in logged
      PROVE  Settled(q)'
  <2>1. q \in Requests /\ cmd[q] # NoCommand /\ Settled(q)
    BY <1>0, LogSettled DEF AckInv
  <2>2. cmd'[q] = cmd[q]
    BY <2>1 DEF Uses
  <2> QED BY <1>0, <2>1, <2>2, SettledKept
<1> QED BY <1>1

\* The other promises: nothing new is told, announced or stored as finalized that is
\* not closed.
LEMMA PromisesKept ==
    ASSUME AckInv, TypeOK', Keeps,
           \A q \in logged' : Settled(q)',
           \A d \in Docs : <<d, "DONE">> \in told' =>
              <<d, "DONE">> \in told \/ Status(d)' \in {"DONE", "erased"},
           \/ pending' = pending
           \/ pending'.op = "finalize" => Status(pending.doc)' \in {"DONE", "erased"},
           \A d \in Docs, q \in Requests : <<"finalize", d, q>> \in keys' =>
              <<"finalize", d, q>> \in keys \/ Status(d)' \in {"DONE", "erased"}
    PROVE  AckInv'
<1>0. TypeOK
  BY DEF AckInv
<1>1. \A d \in Docs : Status(d) \in {"DONE", "erased"} => Status(d)' \in {"DONE", "erased"}
  BY <1>0, ClosedForever
<1>2. FinalizeTold'
  BY <1>1 DEF AckInv, FinalizeTold
<1>3. LoggedFinalize' /\ RetryRecognised' /\ (\A r \in logged : cmd[r] # NoCommand)'
  BY DEF Settled, LoggedFinalize, RetryRecognised
<1>4. (pending.op = "finalize" => Status(pending.doc) \in {"DONE", "erased"})'
  <2>1. CASE pending' = pending
    <3>1. pending.op = "finalize" => pending.doc \in Docs
      BY <1>0 DEF TypeOK, Idle
    <3>2. ASSUME pending.op = "finalize"
          PROVE  Status(pending.doc)' \in {"DONE", "erased"}
      <4>1. \A d \in Docs : d = pending.doc => Status(d)' \in {"DONE", "erased"}
        BY <1>1, <3>2 DEF AckInv
      <4>2. pending.doc \in Docs
        BY <3>1, <3>2
      <4> QED BY <2>1, <4>1, <4>2 DEF Status
    <3> QED BY <2>1, <3>2
  <2> QED BY <2>1
<1>5. (\A d \in Docs, r \in Requests :
         <<"finalize", d, r>> \in keys => Status(d) \in {"DONE", "erased"})'
  BY <1>1 DEF AckInv
<1> QED BY <1>2, <1>3, <1>4, <1>5 DEF AckInv

LEMMA UsesBinds ==
    ASSUME NEW r \in Requests, NEW op, NEW on, Uses(r, op, on)
    PROVE  cmd'[r] = [op |-> op, on |-> on]
BY DEF Uses

\* A command that is no finalize and tells nobody that a document is DONE.
LEMMA AckPlain ==
    ASSUME AckInv, TypeOK', Keeps, NEW r \in Ids, NEW op, NEW on, Uses(r, op, on),
           op \notin {"none", "finalize", "complete"},
           logged' = logged \/ logged' = logged \cup ({r} \cap Requests),
           \A d \in Docs : <<d, "DONE">> \in told' => <<d, "DONE">> \in told,
           pending' = pending \/ pending'.op = "move",
           keys' = keys
    PROVE  AckInv'
<1>1. ASSUME r \in Requests
      PROVE  Settled(r)'
  <2>1. cmd'[r] = [op |-> op, on |-> on]
    BY <1>1, UsesBinds
  <2>2. cmd'[r].op = op
    BY <2>1
  <2>3. /\ cmd'[r] # NoCommand
        /\ cmd'[r].op \notin {"finalize", "complete"}
        /\ \A c \in Certs : cmd'[r] # [op |-> "finalize", on |-> {c}]
    BY <2>2 DEF NoCommand
  <2> QED BY <2>3 DEF Settled
<1>2. \A q \in logged' : Settled(q)'
  BY <1>1, UsesSettles
<1> QED BY <1>2, PromisesKept

\* Completing closes the test.
LEMMA CompleteTestCloses ==
    ASSUME TypeOK, NEW t \in Tests, NEW M, NEW R, NEW W, NEW c, NEW claim,
           CompleteTest(t, M, R, W, c, claim)
    PROVE  Status(t)' \in {"DONE", "erased"}
<1>1. test'[t] = Completed(t, R, W, claim)
  BY DEF CompleteTest, TypeOK
<1> QED BY <1>1 DEF Completed, Status, TypeOK, TestRow

\* A request that closes test t under identifier r settles r.
LEMMA TestSettles ==
    ASSUME NEW r \in Requests, NEW t \in Tests, NEW op, Uses(r, op, {t}),
           op \in {"finalize", "complete"}, Status(t)' \in {"DONE", "erased"}
    PROVE  Settled(r)'
<1>1. cmd'[r] = [op |-> op, on |-> {t}]
  BY UsesBinds
<1>2. \A c \in Certs : cmd'[r] # [op |-> "finalize", on |-> {c}]
  BY <1>1 DEF LabAssumption
<1> QED BY <1>1, <1>2 DEF Settled, NoCommand

LEMMA TestNextAck ==
    ASSUME AckInv, TypeOK', Keeps, NEW r \in Ids, NEW t \in Tests, TestNext(r, t)
    PROVE  AckInv'
<1>0. TypeOK /\ t \in Docs
  BY DEF AckInv, Docs
<1>1. ASSUME NEW S, NEW ret, CreateTest(r, t, S, ret)
      PROVE  AckInv'
  BY <1>1, AckPlain DEF CreateTest, Logs
<1>2. ASSUME NEW M, NEW R, NEW W, SaveDraft(r, t, M, R, W)
      PROVE  AckInv'
  BY <1>2, AckPlain DEF SaveDraft, Logs
<1>3. ASSUME DeleteTest(r, t)
      PROVE  AckInv'
  BY <1>3, AckPlain DEF DeleteTest, Logs
<1>4. ASSUME NEW M, NEW R, NEW W, NEW c, FinalizeDirect(r, t, M, R, W, c)
      PROVE  AckInv'
  <2>1. Status(t)' \in {"DONE", "erased"}
    BY <1>0, <1>4, CompleteTestCloses DEF FinalizeDirect
  <2>2. /\ Uses(r, "complete", {t})
        /\ logged' = logged \cup ({r} \cap Requests)
        /\ told' = told \cup {<<t, "DONE">>}
        /\ UNCHANGED <<keys, pending>>
    BY <1>4 DEF FinalizeDirect, Logs
  <2>3. r \in Requests => Settled(r)'
    BY <2>1, <2>2, TestSettles
  <2>4. \A q \in logged' : Settled(q)'
    BY <2>2, <2>3, UsesSettles
  <2>5. \A d \in Docs : <<d, "DONE">> \in told' =>
          <<d, "DONE">> \in told \/ Status(d)' \in {"DONE", "erased"}
    BY <2>1, <2>2
  <2> QED BY <2>2, <2>4, <2>5, PromisesKept
<1>5. ASSUME NEW c, FinalizeTest(r, t, c)
      PROVE  AckInv'
  <2>1. PICK M, R, W : CompleteTest(t, M, R, W, c, r)
    BY <1>5 DEF FinalizeTest
  <2>2. Status(t)' \in {"DONE", "erased"}
    BY <1>0, <2>1, CompleteTestCloses
  <2>3. /\ Uses(r, "finalize", {t})
        /\ logged' = logged \cup ({r} \cap Requests)
        /\ pending' = [op |-> "finalize", doc |-> t, id |-> r]
        /\ UNCHANGED <<keys, told>>
    BY <1>5 DEF FinalizeTest, Logs
  <2>4. r \in Requests => Settled(r)'
    BY <2>2, <2>3, TestSettles
  <2>5. \A q \in logged' : Settled(q)'
    BY <2>3, <2>4, UsesSettles
  <2>6. Status(pending.doc)' \in {"DONE", "erased"}
    BY <2>2, <2>3 DEF Status
  <2> QED BY <2>3, <2>5, <2>6, PromisesKept
<1>6. ASSUME NEW S, NEW c \in Certs, ConvertToCertificate(r, t, S, c)
      PROVE  AckInv'
  BY <1>6, AckPlain DEF ConvertToCertificate, Logs
<1> QED BY <1>1, <1>2, <1>3, <1>4, <1>5, <1>6 DEF TestNext

LEMMA CertNextAck ==
    ASSUME AckInv, TypeOK', Keeps, NEW r \in Ids, NEW c \in Certs, CertNext(r, c)
    PROVE  AckInv'
<1>0. TypeOK /\ c \in Docs /\ c \notin Tests
  BY DEF AckInv, Docs
<1>1. ASSUME NEW kind, NEW S, CreateCertificate(r, c, kind, S)
      PROVE  AckInv'
  BY <1>1, AckPlain DEF CreateCertificate, Logs
<1>2. ASSUME NEW s, AddItem(r, c, s)
      PROVE  AckInv'
  BY <1>2, AckPlain DEF AddItem, Logs
<1>3. ASSUME NEW s, RemoveItem(r, c, s)
      PROVE  AckInv'
  BY <1>3, AckPlain DEF RemoveItem, Logs
<1>4. ASSUME FinalizeCert(r, c)
      PROVE  AckInv'
  <2>1. /\ cert'[c].st = "DONE"
        /\ cert'[c].claim = r
    BY <1>0, <1>4 DEF FinalizeCert, Closed, TypeOK, CertRow
  <2>2. Stamped(c, r)' /\ Status(c)' = "DONE"
    BY <1>0, <2>1 DEF Stamped, Live, Status, Claim
  <2>3. /\ Uses(r, "finalize", {c})
        /\ logged' = logged \cup ({r} \cap Requests)
        /\ pending' = [op |-> "finalize", doc |-> c, id |-> r]
        /\ UNCHANGED <<keys, told>>
    BY <1>4 DEF FinalizeCert, Logs
  <2>4. r \in Requests => Settled(r)'
    <3>1. ASSUME r \in Requests PROVE cmd'[r] = [op |-> "finalize", on |-> {c}]
      BY <2>3, <3>1, UsesBinds
    <3>2. \A e : {e} = {c} => e = c
      OBVIOUS
    <3> QED BY <2>2, <3>1, <3>2 DEF Settled, NoCommand
  <2>5. \A q \in logged' : Settled(q)'
    BY <2>3, <2>4, UsesSettles
  <2>6. Status(pending.doc)' \in {"DONE", "erased"}
    BY <2>2, <2>3 DEF Status
  <2> QED BY <2>3, <2>5, <2>6, PromisesKept
<1> QED BY <1>1, <1>2, <1>3, <1>4 DEF CertNext

\* Answers given from request_log, from a stored key or from the stamp on the row.
LEMMA ReplayNextAck ==
    ASSUME AckInv, TypeOK', Keeps, NEW r \in Requests, NEW d \in Docs, ReplayNext(r, d)
    PROVE  AckInv'
<1>0. TypeOK /\ r \in Ids
  BY DEF AckInv, Ids
<1>1. ASSUME ReplayMove(r, d)
      PROVE  AckInv'
  <2>1. \A e \in Docs : <<e, "DONE">> \in told' => <<e, "DONE">> \in told
    BY <1>1 DEF ReplayMove
  <2> QED BY <1>0, <1>1, <2>1, AckPlain DEF ReplayMove
<1>2. ASSUME NEW op \in {"complete", "finalize"}, Uses(r, op, {d}),
             told' = told \cup {<<d, "DONE">>},
             Status(d) \in {"DONE", "erased"},
             UNCHANGED <<test, cert, samples, debit, logged, keys, pending>>
      PROVE  AckInv'
  <2>1. Status(d)' \in {"DONE", "erased"}
    BY <1>0, <1>2, ClosedForever
  <2>2. \A q \in logged' : Settled(q)'
    BY <1>0, <1>2, UsesSettles
  <2>3. \A e \in Docs : <<e, "DONE">> \in told' =>
          <<e, "DONE">> \in told \/ Status(e)' \in {"DONE", "erased"}
    BY <1>2, <2>1
  <2> QED BY <1>2, <2>2, <2>3, PromisesKept
<1>3. ASSUME d \in Tests, ReplayDirect(r, d)
      PROVE  AckInv'
  <2>1. r \in logged /\ Uses(r, "complete", {d})
    BY <1>3 DEF ReplayDirect
  <2>2. cmd[r] = [op |-> "complete", on |-> {d}]
    BY <2>1 DEF Uses, AckInv
  <2>3. Status(d) \in {"DONE", "erased"}
    BY <2>1, <2>2 DEF AckInv, LoggedFinalize
  <2> QED BY <1>2, <1>3, <2>1, <2>3 DEF ReplayDirect
<1>4. ASSUME ReplayFinalize(r, d)
      PROVE  AckInv'
  <2>1. Status(d) \in {"DONE", "erased"}
    BY <1>4 DEF ReplayFinalize, KeyHit, Stamped, AckInv
  <2> QED BY <1>2, <1>4, <2>1 DEF ReplayFinalize
<1> QED BY <1>1, <1>3, <1>4 DEF ReplayNext

\* Timers, crashes and the second commit run under no identifier.
LEMMA NoRequestSettles ==
    ASSUME AckInv, Keeps, cmd' = cmd, logged' \in SUBSET logged
    PROVE  \A q \in logged' : Settled(q)'
BY SettledKept, LogSettled DEF AckInv, TypeOK

LEMMA RespondAck ==
    ASSUME AckInv, TypeOK', Keeps, Respond
    PROVE  AckInv'
<1>0. /\ TypeOK
      /\ pending \in [op : {"move", "finalize"}, doc : Docs, id : Ids]
  BY DEF AckInv, TypeOK, Respond
<1>1. \A q \in logged' : Settled(q)'
  BY NoRequestSettles DEF Respond
<1>2. pending.op = "finalize" => Status(pending.doc) \in {"DONE", "erased"}
  BY DEF AckInv
<1>3. UNCHANGED <<test, cert>>
  BY DEF Respond
<1>4. \A d \in Docs : Status(d)' = Status(d)
  BY <1>3 DEF Status
<1>5. \A d \in Docs : <<d, "DONE">> \in told' =>
        <<d, "DONE">> \in told \/ Status(d)' \in {"DONE", "erased"}
  BY <1>0, <1>2, <1>4 DEF Respond, ToldBy
<1>6. \A d \in Docs, q \in Requests : <<"finalize", d, q>> \in keys' =>
        <<"finalize", d, q>> \in keys \/ Status(d)' \in {"DONE", "erased"}
  BY <1>0, <1>2, <1>4 DEF Respond
<1>7. pending'.op # "finalize"
  BY DEF Respond, Idle
<1> QED BY <1>1, <1>5, <1>6, <1>7, PromisesKept

LEMMA NextAck == BinInv /\ AckInv /\ [Next]_vars => AckInv'
<1> SUFFICES ASSUME BinInv, AckInv, [Next]_vars
             PROVE  AckInv'
  OBVIOUS
<1>0. TypeOK' /\ Keeps
  BY NextType, KeepsNext DEF AckInv
<1>1. ASSUME NEW r \in Ids, NEW t \in Tests, TestNext(r, t)
      PROVE  AckInv'
  BY <1>0, <1>1, TestNextAck
<1>2. ASSUME NEW r \in Ids, NEW c \in Certs, CertNext(r, c)
      PROVE  AckInv'
  BY <1>0, <1>2, CertNextAck
<1>3. ASSUME NEW r \in Ids, NEW d \in Docs, Move(r, d)
      PROVE  AckInv'
  BY <1>0, <1>3, AckPlain DEF Move
<1>4. ASSUME NEW r \in Ids, NEW D \in SUBSET Docs, NEW first, PatchStatus(r, D, first)
      PROVE  AckInv'
  <2>1. \A d \in Docs : <<d, "DONE">> \in told' => <<d, "DONE">> \in told
    BY <1>4 DEF PatchStatus
  <2>2. logged' = logged \/ logged' = logged \cup ({r} \cap Requests)
    BY <1>4 DEF PatchStatus, Logs
  <2> QED BY <1>0, <1>4, <2>1, <2>2, AckPlain DEF PatchStatus
<1>5. ASSUME NEW r \in Requests, NEW d \in Docs, ReplayNext(r, d)
      PROVE  AckInv'
  BY <1>0, <1>5, ReplayNextAck
<1>6. CASE Respond
  BY <1>0, <1>6, RespondAck
<1>7. ASSUME cmd' = cmd, logged' \in SUBSET logged, told' = told, keys' \in SUBSET keys,
             pending' \in {pending, Idle}
      PROVE  AckInv'
  <2>1. \A q \in logged' : Settled(q)'
    BY <1>0, <1>7, NoRequestSettles
  <2>2. pending' = pending \/ pending'.op # "finalize"
    BY <1>7 DEF Idle
  <2> QED BY <1>0, <1>7, <2>1, <2>2, PromisesKept
<1>8. ASSUME \/ UNCHANGED vars
             \/ \E t \in Tests : RestoreTest(t) \/ FlushBin(t)
             \/ Crash
             \/ \E k \in keys : ExpireKey(k)
             \/ \E r \in Requests : PurgeLog(r)
      PROVE  AckInv'
  BY <1>7, <1>8 DEF vars, RestoreTest, FlushBin, Crash, ExpireKey, PurgeLog
<1> QED BY <1>1, <1>2, <1>3, <1>4, <1>5, <1>6, <1>8 DEF Next

LEMMA InitAck == Init => AckInv
BY InitType DEF Init, AckInv, FinalizeTold, LoggedFinalize, RetryRecognised, Idle

\* The promises about acknowledgements hold in every reachable state, with any number
\* of clients, retries, crashes and expiries.
THEOREM AckCorrect == Spec => []AckInv
BY InitBin, NextBin, InitAck, NextAck, PTL DEF Spec

\* What a client was told is DONE is DONE, or was turned into a certificate.
THEOREM FinalizeToldCorrect == Spec => []FinalizeTold
<1>1. AckInv => FinalizeTold
  BY DEF AckInv
<1> QED BY <1>1, AckCorrect, PTL

\* An identifier in request_log never hides a finalize that did not happen.
THEOREM LoggedFinalizeCorrect == Spec => []LoggedFinalize
<1>1. AckInv => LoggedFinalize
  BY DEF AckInv
<1> QED BY <1>1, AckCorrect, PTL

\* The retry of a certificate's finalize is recognised after a crash.
THEOREM RetryRecognisedCorrect == Spec => []RetryRecognised
<1>1. AckInv => RetryRecognised
  BY DEF AckInv
<1> QED BY <1>1, AckCorrect, PTL

------------------------------------------------------------------------------
\* Closed tests are measured

\* An item row belongs to one test at most, so that what is written for a test in
\* progress leaves the readings of the closed ones alone.
OwnItems ==
    /\ \A t \in Tests : test[t].items \subseteq registered
    /\ \A t, u \in Tests : t # u => test[t].items \cap test[u].items = {}

MeasuredInv == TypeOK /\ OwnItems /\ DoneIsMeasured

\* A step that writes no reading, registers no item twice and closes no test.
LEMMA CalmMeasured ==
    ASSUME MeasuredInv, TypeOK', measured' = measured,
           registered \subseteq registered', returned \subseteq returned',
           \A t \in Tests : /\ test'[t].items \subseteq test[t].items
                            /\ test'[t].st = "DONE" => test[t].st = "DONE"
    PROVE  MeasuredInv'
<1>1. OwnItems'
  BY DEF MeasuredInv, OwnItems
<1>2. DoneIsMeasured'
  BY DEF MeasuredInv, DoneIsMeasured
<1> QED BY <1>1, <1>2 DEF MeasuredInv

\* A step that writes the readings of one test, measured or open afterwards.
LEMMA WritesMeasured ==
    ASSUME MeasuredInv, TypeOK', NEW t \in Tests, NEW M, NEW R, NEW W,
           Writes(t, M, R, W), UNCHANGED registered,
           \A u \in Tests : u # t => test'[u] = test[u],
           test'[t].items \subseteq test[t].items,
           test'[t].st = "DONE" => test'[t].items \subseteq M \cup R
    PROVE  MeasuredInv'
<1>1. OwnItems'
  BY DEF MeasuredInv, OwnItems
<1>2. ASSUME NEW u \in Tests, test'[u].st = "DONE"
      PROVE  test'[u].items \subseteq measured' \cup returned'
  <2>1. CASE u = t
    BY <1>2, <2>1 DEF Writes
  <2>2. CASE u # t
    <3>1. /\ test'[u] = test[u]
          /\ test[u].items \subseteq measured \cup returned
          /\ test[u].items \cap test[t].items = {}
      BY <1>2, <2>2 DEF MeasuredInv, OwnItems, DoneIsMeasured
    <3> QED BY <3>1 DEF Writes
  <2> QED BY <2>1, <2>2
<1> QED BY <1>1, <1>2 DEF MeasuredInv, DoneIsMeasured

LEMMA CompleteTestMeasured ==
    ASSUME MeasuredInv, TypeOK', NEW t \in Tests, NEW M, NEW R, NEW W, NEW c, NEW claim,
           CompleteTest(t, M, R, W, c, claim), UNCHANGED registered
    PROVE  MeasuredInv'
<1>0. test \in [Tests -> TestRow] /\ test[t] \in TestRow
  BY DEF MeasuredInv, TypeOK
<1>1. /\ \A u \in Tests : u # t => test'[u] = test[u]
      /\ test'[t] = Completed(t, R, W, claim)
  BY <1>0 DEF CompleteTest
<1>2. /\ test'[t].items \subseteq test[t].items
  BY <1>0, <1>1 DEF Completed, TestRow
<1>3. test[t].items \subseteq M \cup R
  BY DEF CompleteTest, Complete
<1>4. Writes(t, M, R, W)
  BY DEF CompleteTest
<1> QED BY <1>1, <1>2, <1>3, <1>4, WritesMeasured

LEMMA TestNextMeasured ==
    ASSUME MeasuredInv, TypeOK', NEW r \in Ids, NEW t \in Tests, TestNext(r, t)
    PROVE  MeasuredInv'
<1>0. test \in [Tests -> TestRow] /\ test[t] \in TestRow
  BY DEF MeasuredInv, TypeOK
<1>1. ASSUME NEW S \in SUBSET Samples, NEW ret \in SUBSET Samples, CreateTest(r, t, S, ret)
      PROVE  MeasuredInv'
  <2>1. /\ \A u \in Tests : u # t => test'[u] = test[u]
        /\ test'[t].items = S /\ test'[t].st = "TODO"
    BY <1>0, <1>1 DEF CreateTest, TestRow
  <2>2. OwnItems'
    BY <1>1, <2>1 DEF MeasuredInv, OwnItems, CreateTest
  <2>3. DoneIsMeasured'
    BY <1>1, <2>1 DEF MeasuredInv, DoneIsMeasured, CreateTest
  <2> QED BY <2>2, <2>3 DEF MeasuredInv
<1>2. ASSUME NEW M, NEW R, NEW W, SaveDraft(r, t, M, R, W)
      PROVE  MeasuredInv'
  <2>1. /\ \A u \in Tests : u # t => test'[u] = test[u]
        /\ test'[t].items = test[t].items /\ test'[t].st = "IN_PROGRESS"
    BY <1>0, <1>2 DEF SaveDraft, TestRow
  <2> QED BY <1>2, <2>1, WritesMeasured DEF SaveDraft
<1>3. ASSUME DeleteTest(r, t)
      PROVE  MeasuredInv'
  <2>1. \A u \in Tests : /\ test'[u].items \subseteq test[u].items
                         /\ test'[u].st = "DONE" => test[u].st = "DONE"
    BY <1>0, <1>3 DEF DeleteTest, TestRow
  <2> QED BY <1>3, <2>1, CalmMeasured DEF DeleteTest, samples
<1>4. ASSUME NEW M, NEW R, NEW W, NEW c, FinalizeDirect(r, t, M, R, W, c)
      PROVE  MeasuredInv'
  BY <1>4, CompleteTestMeasured DEF FinalizeDirect
<1>5. ASSUME NEW c, FinalizeTest(r, t, c)
      PROVE  MeasuredInv'
  BY <1>5, CompleteTestMeasured DEF FinalizeTest
<1>6. ASSUME NEW S, NEW c \in Certs, ConvertToCertificate(r, t, S, c)
      PROVE  MeasuredInv'
  <2>1. \A u \in Tests : /\ test'[u].items \subseteq test[u].items
                         /\ test'[u].st = "DONE" => test[u].st = "DONE"
    BY <1>0, <1>6 DEF ConvertToCertificate, TestRow
  <2> QED BY <1>6, <2>1, CalmMeasured DEF ConvertToCertificate, samples
<1> QED BY <1>1, <1>2, <1>3, <1>4, <1>5, <1>6 DEF TestNext

LEMMA StartedMeasured ==
    ASSUME MeasuredInv, TypeOK', UNCHANGED samples, NEW D, Started(D)
    PROVE  MeasuredInv'
<1>1. \A t \in Tests : /\ test'[t].items \subseteq test[t].items
                       /\ test'[t].st = "DONE" => test[t].st = "DONE"
  <2>1. test \in [Tests -> TestRow]
    BY DEF MeasuredInv, TypeOK
  <2> QED BY <2>1 DEF Started, TestRow
<1> QED BY <1>1, CalmMeasured DEF samples

LEMMA NextMeasured == MeasuredInv /\ [Next]_vars => MeasuredInv'
<1> SUFFICES ASSUME MeasuredInv, [Next]_vars
             PROVE  MeasuredInv'
  OBVIOUS
<1>0. TypeOK /\ TypeOK'
  BY NextType DEF MeasuredInv
<1>1. ASSUME UNCHANGED test, UNCHANGED measured, UNCHANGED returned,
             registered \subseteq registered'
      PROVE  MeasuredInv'
  BY <1>0, <1>1, CalmMeasured
<1>2. ASSUME NEW r \in Ids, NEW t \in Tests, TestNext(r, t)
      PROVE  MeasuredInv'
  BY <1>0, <1>2, TestNextMeasured
<1>3. ASSUME NEW r \in Ids, NEW c \in Certs, CertNext(r, c)
      PROVE  MeasuredInv'
  <2>1. /\ UNCHANGED test /\ UNCHANGED measured /\ UNCHANGED returned
        /\ registered \subseteq registered'
    BY <1>3 DEF CertNext, CreateCertificate, AddItem, RemoveItem, FinalizeCert, samples
  <2> QED BY <1>1, <2>1
<1>4. ASSUME NEW r \in Ids, NEW d \in Docs, Move(r, d)
      PROVE  MeasuredInv'
  BY <1>0, <1>4, StartedMeasured DEF Move
<1>5. ASSUME NEW r \in Ids, NEW D \in SUBSET Docs, NEW first \in Certs \cup {NoCert},
             PatchStatus(r, D, first)
      PROVE  MeasuredInv'
  BY <1>0, <1>5, StartedMeasured DEF PatchStatus
<1>6. ASSUME NEW t \in Tests, RestoreTest(t) \/ FlushBin(t)
      PROVE  MeasuredInv'
  <2>1. \A u \in Tests : /\ test'[u].items \subseteq test[u].items
                         /\ test'[u].st = "DONE" => test[u].st = "DONE"
    <3>1. test \in [Tests -> TestRow] /\ test[t] \in TestRow
      BY <1>0 DEF TypeOK
    <3>2. CASE RestoreTest(t)
      BY <3>1, <3>2 DEF RestoreTest, TestRow
    <3>3. CASE FlushBin(t)
      BY <3>1, <3>3 DEF FlushBin, TestRow
    <3> QED BY <1>6, <3>2, <3>3
  <2> QED BY <1>0, <1>6, <2>1, CalmMeasured DEF RestoreTest, FlushBin, samples
<1>7. ASSUME \/ \E r \in Requests, d \in Docs : ReplayNext(r, d)
             \/ Respond
             \/ Crash
             \/ \E k \in keys : ExpireKey(k)
             \/ \E r \in Requests : PurgeLog(r)
             \/ UNCHANGED vars
      PROVE  MeasuredInv'
  BY <1>1, <1>7 DEF ReplayNext, ReplayDirect, ReplayMove, ReplayFinalize, Respond, Crash,
                    ExpireKey, PurgeLog, vars, samples
<1> QED BY <1>2, <1>3, <1>4, <1>5, <1>6, <1>7 DEF Next

\* A closed test is a measured test, in every laboratory: no later draft, completion
\* or conversion of any other document takes a reading away from it.
THEOREM DoneIsMeasuredCorrect == Spec => []DoneIsMeasured
<1>1. Init => MeasuredInv
  BY InitType DEF Init, MeasuredInv, OwnItems, DoneIsMeasured
<1>2. MeasuredInv => DoneIsMeasured
  BY DEF MeasuredInv
<1> QED BY <1>1, <1>2, NextMeasured, PTL DEF Spec

------------------------------------------------------------------------------
\* The workflow implements the account

\* What transactions do to the book: an entry is as it was, or has a row more and
\* a larger sum.
Grows(a, b) ==
    \A d \in Docs : \/ b[d] = a[d]
                    \/ b[d].n > a[d].n /\ b[d].sum > a[d].sum

LEMMA ChargedGrows ==
    ASSUME NEW book \in Book, NEW d \in Docs, NEW a \in Nat
    PROVE  Grows(book, Charged(book, d, a))
<1>1. CASE a = 0
  BY <1>1 DEF Charged, Grows
<1>2. CASE a > 0
  <2>1. \A e \in Docs : e # d => Charged(book, d, a)[e] = book[e]
    BY ChargedElsewhere
  <2>2. Charged(book, d, a)[d] = [n |-> book[d].n + 1, sum |-> book[d].sum + a]
    BY <1>2, ChargedHere
  <2>3. book[d].n \in Nat /\ book[d].sum \in Nat
    BY DEF Book
  <2> QED BY <1>2, <2>1, <2>2, <2>3 DEF Grows
<1> QED BY <1>1, <1>2

LEMMA GrowsTransitive ==
    ASSUME NEW a \in Book, NEW b \in Book, NEW c \in Book, Grows(a, b), Grows(b, c)
    PROVE  Grows(a, c)
<1>1. \A d \in Docs : /\ a[d].n \in Nat /\ a[d].sum \in Nat
                      /\ b[d].n \in Nat /\ b[d].sum \in Nat
                      /\ c[d].n \in Nat /\ c[d].sum \in Nat
  BY DEF Book
<1> QED BY <1>1 DEF Grows

LEMMA CompleteTestGrows ==
    ASSUME TypeOK, NEW t \in Tests, NEW M, NEW R, NEW W, NEW c, NEW claim,
           CompleteTest(t, M, R, W, c, claim)
    PROVE  Grows(debit, debit')
<1> DEFINE book == TestBook(t, R, W)
           mine == CertItems(t, R, W)
           fee  == CertFeeAtTest * Cardinality(mine)
<1>0. debit \in Book /\ t \in Docs /\ Fee(t) \in Nat
  BY FeeType DEF TypeOK, Book, Docs
<1>1. book \in Book /\ Grows(debit, book)
  BY <1>0, ChargedType, ChargedGrows DEF TestBook, Grows
<1>2. CASE mine = {}
  BY <1>1, <1>2 DEF CompleteTest
<1>3. CASE mine # {}
  <2>1. c \in Docs /\ debit' = Charged(book, c, fee)
    BY <1>3 DEF CompleteTest, Docs
  <2>2. fee \in Nat
    <3>1. mine \in SUBSET Samples
      BY DEF TypeOK, TestRow, CertItems
    <3> QED BY <3>1, CountType DEF CertFeeAtTest
  <2> HIDE DEF book, fee
  <2>3. debit' \in Book /\ Grows(book, debit')
    BY <1>1, <2>1, <2>2, ChargedType, ChargedGrows
  <2> QED BY <1>0, <1>1, <2>3, GrowsTransitive
<1> QED BY <1>2, <1>3

\* Every transaction of the workflow leaves the book alone or adds rows to it.
LEMMA NextGrows == TypeOK /\ [Next]_vars => Grows(debit, debit')
<1> SUFFICES ASSUME TypeOK, [Next]_vars
             PROVE  Grows(debit, debit')
  OBVIOUS
<1>0. debit \in Book
  BY DEF TypeOK, Book
<1>1. ASSUME debit' = debit
      PROVE  Grows(debit, debit')
  BY <1>1 DEF Grows
<1>2. ASSUME NEW r \in Ids, NEW t \in Tests, TestNext(r, t)
      PROVE  Grows(debit, debit')
  <2>1. ASSUME NEW M, NEW R, NEW W, NEW c, FinalizeDirect(r, t, M, R, W, c)
        PROVE  Grows(debit, debit')
    BY <2>1, CompleteTestGrows DEF FinalizeDirect
  <2>2. ASSUME NEW c, FinalizeTest(r, t, c)
        PROVE  Grows(debit, debit')
    BY <2>2, CompleteTestGrows DEF FinalizeTest
  <2>3. CASE \/ \E S, ret \in SUBSET Samples : CreateTest(r, t, S, ret)
             \/ \E M, R, W \in SUBSET test[t].items : SaveDraft(r, t, M, R, W)
             \/ DeleteTest(r, t)
             \/ \E S \in SUBSET Samples, c \in Certs : ConvertToCertificate(r, t, S, c)
    BY <1>1, <2>3 DEF CreateTest, SaveDraft, DeleteTest, ConvertToCertificate
  <2> QED BY <1>2, <2>1, <2>2, <2>3 DEF TestNext
<1>3. ASSUME NEW r \in Ids, NEW c \in Certs, CertNext(r, c)
      PROVE  Grows(debit, debit')
  <2>1. CASE FinalizeCert(r, c)
    <3>1. FinalFee(c) \in Nat /\ c \in Docs
      BY FinalFeeType DEF Docs
    <3> QED BY <1>0, <1>1, <2>1, <3>1, ChargedGrows DEF FinalizeCert
  <2>2. CASE \/ \E kind \in Kinds, S \in SUBSET Samples : CreateCertificate(r, c, kind, S)
             \/ \E s \in Samples : AddItem(r, c, s) \/ RemoveItem(r, c, s)
    BY <1>1, <2>2 DEF CreateCertificate, AddItem, RemoveItem
  <2> QED BY <1>3, <2>1, <2>2 DEF CertNext
<1>4. CASE \/ \E r \in Ids, d \in Docs : Move(r, d)
           \/ \E r \in Ids, D \in SUBSET Docs, first \in Certs \cup {NoCert} :
                PatchStatus(r, D, first)
           \/ \E r \in Requests, d \in Docs : ReplayNext(r, d)
           \/ \E t \in Tests : RestoreTest(t) \/ FlushBin(t)
  BY <1>1, <1>4 DEF Move, PatchStatus, ReplayNext, ReplayDirect, ReplayMove,
                    ReplayFinalize, RestoreTest, FlushBin
<1>5. CASE \/ Respond
           \/ Crash
           \/ \E k \in keys : ExpireKey(k)
           \/ \E r \in Requests : PurgeLog(r)
           \/ UNCHANGED vars
  BY <1>1, <1>5 DEF Respond, Crash, ExpireKey, PurgeLog, vars
<1> QED BY <1>2, <1>3, <1>4, <1>5 DEF Next

LEMMA InitSettles == Init => Account!Init
<1> SUFFICES ASSUME Init PROVE Account!Init
  OBVIOUS
<1>1. \A d \in Docs : Status(d) = "absent"
  BY DEF Init, Status, Docs
<1> QED BY <1>1 DEF Init, Account!Init, Account!Blank

\* Every step settles the documents it closes, and nothing else.
LEMMA NextSettles ==
    ASSUME BinInv, ChargeInv, ChargeInv', [Next]_vars
    PROVE  Account!Next
<1> DEFINE done == {d \in Docs : Status(d) = "DONE"}
           C == done' \ done
           E == {d \in Docs : debit'[d] # debit[d]}
<1>0. TypeOK /\ Keeps /\ Grows(debit, debit')
  BY KeepsNext, NextGrows DEF ChargeInv
<1>1. debit \in Book /\ debit' \in Book
  BY DEF ChargeInv, TypeOK, Book
<1>2. done \subseteq done'
  <2>1. ASSUME NEW t \in Tests, test[t].st = "DONE"
        PROVE  test'[t].st = "DONE"
    <3>1. PICK S \in SUBSET test[t].items : test'[t] = [test[t] EXCEPT !.items = S]
      BY <1>0, <2>1 DEF Keeps
    <3> QED BY <1>0, <2>1, <3>1 DEF TypeOK, TestRow
  <2>2. ASSUME NEW c \in Certs, cert[c].st = "DONE"
        PROVE  cert'[c].st = "DONE"
    BY <1>0, <2>2 DEF Keeps
  <2> QED BY <2>1, <2>2 DEF Status, Docs
<1>3. ASSUME NEW d \in Docs, d \in E
      PROVE  /\ Account!Entered(d)
             /\ d \in done' \cup Certs
  <2>1. debit'[d].n > debit[d].n /\ debit'[d].sum > debit[d].sum
    BY <1>0, <1>3 DEF Grows
  <2>2. /\ debit[d].n \in Nat /\ debit[d].sum \in Nat
        /\ debit'[d].n \in Nat /\ debit'[d].sum \in Nat
        /\ debit[d] = [n |-> debit[d].n, sum |-> debit[d].sum]
    BY <1>1 DEF Book
  <2>3. debit'[d].n <= 1
    BY DEF ChargeInv, ChargedOnce
  <2>4. debit'[d].n = 1 /\ debit[d].n = 0 /\ debit[d].sum = 0 /\ debit'[d].sum > 0
    BY <2>1, <2>2, <2>3 DEF ChargeInv
  <2>5. Account!Entered(d)
    BY <2>2, <2>4 DEF Account!Entered, Account!Blank
  <2>6. d \in Tests => test'[d].st = "DONE"
    BY <2>4 DEF ChargeInv, OpenIsFree
  <2> QED BY <2>5, <2>6 DEF Status, Docs
<1>4. ASSUME NEW d \in Docs, d \in done'
      PROVE  debit'[d].n = 1
  <2>1. debit'[d].n <= 1 /\ debit'[d].n \in Nat
    BY <1>1 DEF ChargeInv, ChargedOnce, Book
  <2>2. DoneIsCharged'
    BY DEF ChargeInv
  <2>3. CASE d \in Tests
    <3>1. test'[d].st = "DONE"
      BY <1>4, <2>3 DEF Status
    <3>2. debit'[d] = [n |-> 1, sum |-> test'[d].total]
      BY <2>2, <2>3, <3>1 DEF DoneIsCharged
    <3> QED BY <3>2
  <2>4. CASE d \notin Tests
    <3>1. d \in Certs /\ cert'[d].st = "DONE"
      BY <1>4, <2>4 DEF Status, Docs
    <3> QED BY <2>1, <2>2, <3>1 DEF DoneIsCharged
  <2> QED BY <2>3, <2>4
<1>5. done' = done \cup C
  BY <1>2
<1>6. debit' \in [Docs -> [n : Nat, sum : Nat]]
  BY <1>1 DEF Book
<1>7. \A d \in E : Account!Entered(d) /\ d \in done' \cup Certs
  BY <1>3
<1>8. \A d \in Docs \ E : debit'[d] = debit[d]
  OBVIOUS
<1>9. \A d \in C : debit'[d].n = 1
  BY <1>4
<1>10. Account!Settle(C, E)
  BY <1>5, <1>6, <1>7, <1>8, <1>9 DEF Account!Settle
<1>11. C \in SUBSET (Docs \ done) /\ E \in SUBSET Docs
  OBVIOUS
<1> HIDE DEF C, E
<1> QED BY <1>10, <1>11 DEF Account!Next

\* For any laboratory, in PARITY and in STRICT mode: the workflow, with its
\* retries, its two completion routes, its certificates charged in advance and its
\* crashes between the commits, implements the account of Charging.
THEOREM ImplementsChargingCorrect == Spec => ImplementsCharging
<1>1. BinInv /\ ChargeInv /\ ChargeInv' /\ [Next]_vars =>
        [Account!Next]_<<{d \in Docs : Status(d) = "DONE"}, debit>>
  BY NextSettles
<1> QED BY <1>1, InitSettles, BinCorrect, ChargingCorrect, PTL
        DEF Spec, ImplementsCharging, Account!Spec

------------------------------------------------------------------------------
\* Samples leave a live test only into a certificate

\* A row identifier not used yet has no items.
FreshEmpty == \A t \in Tests : test[t].st = "absent" => test[t].items = {}

\* What a step does to a test: what leaves its items is in a certificate, or the test
\* is in the bin; and the identifier of a row is never unused again.
HandsOver(t) ==
    /\ \A s \in test[t].items \ test'[t].items :
         test'[t].bin \/ \E c \in Certs : s \in cert'[c].items
    /\ test'[t].st = "absent" => test'[t] = test[t]

\* A step that leaves the items of a used row alone hands nothing over.
LEMMA NothingLeaves ==
    ASSUME NEW t \in Tests,
           \/ test'[t] = test[t]
           \/ test'[t].items = test[t].items /\ test'[t].st # "absent"
    PROVE  HandsOver(t)
BY DEF HandsOver

\* Completing a test takes nothing out of it, unless all of it is certified: then the
\* certificate has everything the test had.
LEMMA CompleteTestHands ==
    ASSUME TypeOK, NEW t \in Tests, NEW M, NEW R, NEW W, NEW c, NEW claim,
           Live(t), CompleteTest(t, M, R, W, c, claim)
    PROVE  \A u \in Tests : HandsOver(u)
<1>0. test \in [Tests -> TestRow] /\ test[t] \in TestRow /\ cert \in [Certs -> CertRow]
  BY DEF TypeOK
<1>1. test' = [test EXCEPT ![t] = Completed(t, R, W, claim)]
  BY DEF CompleteTest
<1>2. ASSUME NEW u \in Tests, u # t
      PROVE  HandsOver(u)
  BY <1>0, <1>1, <1>2, NothingLeaves
<1>3. CASE ~FullConvert(t, R, W)
  <2>1. test'[t].items = test[t].items /\ test'[t].st # "absent"
    BY <1>0, <1>1, <1>3 DEF Completed, TestRow
  <2> QED BY <1>2, <2>1, NothingLeaves
<1>4. CASE FullConvert(t, R, W)
  <2>1. test'[t].st # "absent"
    BY <1>0, <1>1, <1>4 DEF Completed, TestRow
  <2>2. CertItems(t, R, W) = test[t].items /\ CertItems(t, R, W) # {}
    BY <1>4 DEF FullConvert
  <2>3. c \in Certs /\ cert' = [cert EXCEPT ![c] = IssuedFor(t, test[t].items)]
    BY <2>2 DEF CompleteTest
  <2>4. cert'[c].items = test[t].items
    BY <1>0, <2>3 DEF IssuedFor
  <2>5. HandsOver(t)
    BY <2>1, <2>3, <2>4 DEF HandsOver
  <2> QED BY <1>2, <2>5
<1> QED BY <1>3, <1>4

\* The requests about one test: staff who convert items of a DONE test move them into
\* the new certificate, and deleting puts the emptied test in the bin.
LEMMA TestNextHands ==
    ASSUME TypeOK, FreshEmpty, NEW r \in Ids, NEW t \in Tests, TestNext(r, t)
    PROVE  \A u \in Tests : HandsOver(u)
<1>0. test \in [Tests -> TestRow] /\ test[t] \in TestRow /\ cert \in [Certs -> CertRow]
  BY DEF TypeOK
<1>1. ASSUME NEW S, NEW ret, CreateTest(r, t, S, ret)
      PROVE  \A u \in Tests : HandsOver(u)
  <2>1. \A u \in Tests : u # t => test'[u] = test[u]
    BY <1>0, <1>1 DEF CreateTest
  <2>2. test[t].items = {} /\ test'[t].st = "TODO"
    BY <1>0, <1>1 DEF CreateTest, FreshEmpty, TestRow
  <2>3. HandsOver(t)
    BY <2>2 DEF HandsOver
  <2> QED BY <2>1, <2>3, NothingLeaves
<1>2. ASSUME NEW M, NEW R, NEW W, SaveDraft(r, t, M, R, W)
      PROVE  \A u \in Tests : HandsOver(u)
  <2>1. \A u \in Tests : u # t => test'[u] = test[u]
    BY <1>0, <1>2 DEF SaveDraft
  <2>2. test'[t].items = test[t].items /\ test'[t].st # "absent"
    BY <1>0, <1>2 DEF SaveDraft, TestRow
  <2> QED BY <2>1, <2>2, NothingLeaves
<1>3. ASSUME DeleteTest(r, t)
      PROVE  \A u \in Tests : HandsOver(u)
  <2>1. \A u \in Tests : u # t => test'[u] = test[u]
    BY <1>0, <1>3 DEF DeleteTest
  <2>2. test'[t].bin /\ test'[t].st # "absent"
    BY <1>0, <1>3 DEF DeleteTest, TestRow
  <2>3. HandsOver(t)
    BY <2>2 DEF HandsOver
  <2> QED BY <2>1, <2>3, NothingLeaves
<1>4. ASSUME NEW M, NEW R, NEW W, NEW c, FinalizeDirect(r, t, M, R, W, c)
      PROVE  \A u \in Tests : HandsOver(u)
  BY <1>4, CompleteTestHands DEF FinalizeDirect
<1>5. ASSUME NEW c, FinalizeTest(r, t, c)
      PROVE  \A u \in Tests : HandsOver(u)
  BY <1>5, CompleteTestHands DEF FinalizeTest
<1>6. ASSUME NEW S, NEW c \in Certs, ConvertToCertificate(r, t, S, c)
      PROVE  \A u \in Tests : HandsOver(u)
  <2>1. \A u \in Tests : u # t => test'[u] = test[u]
    BY <1>0, <1>6 DEF ConvertToCertificate
  <2>2. test'[t].items = test[t].items \ S /\ test'[t].st # "absent"
    BY <1>0, <1>6 DEF ConvertToCertificate, TestRow
  <2>3. cert'[c].items = S
    BY <1>0, <1>6 DEF ConvertToCertificate, IssuedFor
  <2>4. HandsOver(t)
    BY <2>2, <2>3 DEF HandsOver
  <2> QED BY <2>1, <2>4, NothingLeaves
<1> QED BY <1>1, <1>2, <1>3, <1>4, <1>5, <1>6 DEF TestNext

LEMMA StartedHands ==
    ASSUME TypeOK, NEW D, Started(D)
    PROVE  \A u \in Tests : HandsOver(u)
<1>0. test \in [Tests -> TestRow]
  BY DEF TypeOK
<1>1. ASSUME NEW u \in Tests
      PROVE  HandsOver(u)
  <2>1. CASE u \in D
    <3>1. test'[u].items = test[u].items /\ test'[u].st = "IN_PROGRESS"
      BY <1>0, <2>1 DEF Started, TestRow
    <3> QED BY <3>1, NothingLeaves
  <2>2. CASE u \notin D
    BY <2>2, NothingLeaves DEF Started
  <2> QED BY <2>1, <2>2
<1> QED BY <1>1

LEMMA NextHands ==
    BinInv /\ FreshEmpty /\ [Next]_vars => \A u \in Tests : HandsOver(u)
<1> SUFFICES ASSUME BinInv, FreshEmpty, [Next]_vars
             PROVE  \A u \in Tests : HandsOver(u)
  OBVIOUS
<1>0. TypeOK
  BY DEF BinInv
<1>1. ASSUME UNCHANGED test
      PROVE  \A u \in Tests : HandsOver(u)
  BY <1>1, NothingLeaves
<1>2. ASSUME NEW r \in Ids, NEW c \in Certs, CertNext(r, c)
      PROVE  UNCHANGED test
  BY <1>2 DEF CertNext, CreateCertificate, AddItem, RemoveItem, FinalizeCert
<1>3. ASSUME NEW r \in Ids, NEW d \in Docs, Move(r, d)
      PROVE  \A u \in Tests : HandsOver(u)
  BY <1>0, <1>3, StartedHands DEF Move
<1>4. ASSUME NEW r \in Ids, NEW D \in SUBSET Docs, NEW first \in Certs \cup {NoCert},
             PatchStatus(r, D, first)
      PROVE  \A u \in Tests : HandsOver(u)
  BY <1>0, <1>4, StartedHands DEF PatchStatus
<1>5. ASSUME NEW r \in Requests, NEW d \in Docs, ReplayNext(r, d)
      PROVE  UNCHANGED test
  BY <1>5 DEF ReplayNext, ReplayDirect, ReplayMove, ReplayFinalize
<1>6. ASSUME NEW t \in Tests, RestoreTest(t)
      PROVE  \A u \in Tests : HandsOver(u)
  <2>1. \A u \in Tests : u # t => test'[u] = test[u]
    BY <1>0, <1>6 DEF RestoreTest, TypeOK
  <2>2. test'[t].items = test[t].items /\ test'[t].st # "absent"
    BY <1>6 DEF RestoreTest, BinInv, TypeOK, TestRow
  <2> QED BY <2>1, <2>2, NothingLeaves
<1>7. ASSUME NEW t \in Tests, FlushBin(t)
      PROVE  \A u \in Tests : HandsOver(u)
  <2>1. \A u \in Tests : u # t => test'[u] = test[u]
    BY <1>0, <1>7 DEF FlushBin, TypeOK
  <2>2. test'[t].items = test[t].items /\ test'[t].st # "absent"
    BY <1>0, <1>7 DEF FlushBin, TypeOK, TestRow
  <2> QED BY <2>1, <2>2, NothingLeaves
<1>8. ASSUME \/ UNCHANGED vars
             \/ Respond
             \/ Crash
             \/ \E k \in keys : ExpireKey(k)
             \/ \E r \in Requests : PurgeLog(r)
      PROVE  UNCHANGED test
  BY <1>8 DEF vars, Respond, Crash, ExpireKey, PurgeLog
<1> QED BY <1>0, <1>1, <1>2, <1>3, <1>4, <1>5, <1>6, <1>7, <1>8, TestNextHands DEF Next

\* Whatever is completed, converted, deleted, restored or flushed, a sample leaves a
\* live test only into a certificate; the recycle bin is the one other way out.
THEOREM SampleHandoverCorrect == Spec => SampleHandover
<1> DEFINE Rows == BinInv /\ FreshEmpty
<1>1. Init => Rows
  BY InitBin DEF Init, FreshEmpty
<1>2. Rows /\ [Next]_vars => Rows'
  <2>1. FreshEmpty /\ (\A u \in Tests : HandsOver(u)) => FreshEmpty'
    BY DEF FreshEmpty, HandsOver
  <2> QED BY <2>1, NextBin, NextHands
<1>3. Rows /\ [Next]_vars =>
        [\A t \in Tests : \A s \in test[t].items \ test'[t].items :
           test'[t].bin \/ \E c \in Certs : s \in cert'[c].items]_vars
  BY NextHands DEF HandsOver
<1> QED BY <1>1, <1>2, <1>3, PTL DEF Spec, SampleHandover
=============================================================================
