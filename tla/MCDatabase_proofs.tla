--------------------------- MODULE MCDatabase_proofs ---------------------------
(***************************************************************************)
(* Proofs about lab.db as MCDatabase sees it: for databases that lack any  *)
(* columns, the schema a server that is up has under it (Schema); for any  *)
(* records of the program used before, what comes over (Import).           *)
(***************************************************************************)
EXTENDS MCDatabase, SequenceTheorems, TLAPS

------------------------------------------------------------------------------
\* The schema.

\* What the statements of a sequence make.
Makes(plan) == {plan[i].makes : i \in DOMAIN plan}

\* A start has made everything up to the statement it has come to; after one that
\* succeeded, and in a backup made then, everything is there.
SchemaInv ==
    /\ server \in {"down", "starting", "up", "refused"} /\ pc \in Nat \ {0}
    /\ server # "starting" => pc = 1
    /\ server = "starting" => \A i \in DOMAIN Plan : i < pc => Plan[i].makes \in schema
    /\ server = "up" /\ whole => Makes(Plan) \subseteq schema
    /\ healed => Makes(Plan) \subseteq schema
    /\ saved.healed => Makes(Plan) \subseteq saved.schema
    /\ healed => server # "refused"

------------------------------------------------------------------------------
\* The import.

\* A document of the old program; a row that was made from one.
OldRow == [owner : People, data : Legacy!Data, bill : Bills \cup {NoBill}]
NewRow == [doc : Legacy!Docs, run : Nat, owner : People \X Nat, from : OldRow]

Tables == [customers : SUBSET (People \X Nat), docs : SUBSET NewRow,
           items : SUBSET [doc : Legacy!Docs, n : Nat, run : Nat],
           entries : SUBSET (People \X Nat)]

\* Some documents, each with its row.
Found == UNION {[S -> OldRow] : S \in SUBSET Legacy!Docs}

Old == [people : SUBSET People, docs : Found, paid : SUBSET People]
Run == [at : {"off", "customers", "tests", "certs", "ledger"}, ids : SUBSET People, left : Found,
        doing : [doc : Legacy!Docs \cup {"none"}, data : Legacy!Data]]

LegacyTyped ==
    old \in Old /\ lab \in Tables /\ work \in Tables /\ run \in Run /\ runs \in Nat

Fit(data) == {n \in DOMAIN data : data[n]}

ItemsOf(db, d) == {<<i.n, i.run>> : i \in {j \in db.items : j.doc = d}}

\* What holds of a row, except that its items may not be there yet.
Rooted(db) ==
    /\ \A r, s \in db.docs : r.doc = s.doc => r = s
    /\ \A r \in db.docs : r.owner[1] = r.from.owner /\ r.owner \in db.customers /\ r.run <= runs
    /\ \A i \in db.items : \E r \in db.docs : r.doc = i.doc

\* The row whose items come next.
InHand(r) == run.doing # Legacy!NoDoc /\ r.doc = run.doing.doc /\ r.run = runs

LegacyInv ==
    /\ LegacyTyped /\ Rooted(lab) /\ Rooted(work)
    /\ \A r \in lab.docs : ItemsOf(lab, r.doc) = Fit(r.from.data) \X {r.run}
    /\ \A r \in work.docs :
         IF InHand(r) THEN r.from.data = run.doing.data /\ ItemsOf(work, r.doc) = {}
                      ELSE ItemsOf(work, r.doc) = Fit(r.from.data) \X {r.run}
    /\ run.at = "off" => work = lab /\ run = Legacy!Off
    \* The run at work: its rows are of documents it has gone through.
    /\ run.at # "off" => \A r \in lab.docs : r.run < runs
    /\ run.at \in {"off", "customers"} => DOMAIN run.left = {} /\ run.doing = Legacy!NoDoc
    /\ run.at = "customers" => work = lab
    /\ run.at \in {"tests", "certs"} =>
         /\ run.ids \X {runs} \subseteq work.customers
         /\ DOMAIN run.left \subseteq (IF run.at = "tests" THEN OldTests ELSE OldCerts)
         /\ \A r \in work.docs : r.run = runs =>
              /\ r.doc \notin DOMAIN run.left
              /\ run.at = "tests" => r.doc \in OldTests
    /\ run.at = "ledger" => DOMAIN run.left = {} /\ run.doing = Legacy!NoDoc

------------------------------------------------------------------------------
\* The import: initial states and steps.

LEMMA FoundIs ==
    /\ << >> \in Found /\ DOMAIN << >> = {}
    /\ \A f \in Found : /\ DOMAIN f \subseteq Legacy!Docs /\ f = [d \in DOMAIN f |-> f[d]]
                        /\ \A d \in DOMAIN f : f[d] \in OldRow
    /\ \A S \in SUBSET Legacy!Docs : \A f \in [S -> OldRow] : f \in Found
  <1>1. << >> \in [{} -> OldRow]
    OBVIOUS
  <1>2. \A S \in SUBSET Legacy!Docs : \A f \in [S -> OldRow] : f \in Found
    BY DEF Found
  <1>3. QED  BY <1>1, <1>2 DEF Found

LEMMA NothingYet ==
    /\ Legacy!Empty \in Tables /\ Legacy!Off \in Run
    /\ DOMAIN Legacy!Off.left = {} /\ Legacy!Off.doing = Legacy!NoDoc /\ Legacy!Off.at = "off"
    /\ Legacy!NoDoc \in [doc : Legacy!Docs \cup {"none"}, data : Legacy!Data]
  BY FoundIs DEF Legacy!Empty, Tables, Legacy!Off, Run, Legacy!NoDoc, Legacy!Doc, Legacy!Data

LEMMA LegacyInit == Legacy!Init => LegacyInv
  <1> SUFFICES ASSUME Legacy!Init PROVE LegacyInv  OBVIOUS
  <1> USE DEF Legacy!Init
  <1>1. LegacyTyped
    BY NothingYet, FoundIs DEF LegacyTyped, Old
  <1>2. Rooted(lab) /\ Rooted(work)
    BY DEF Rooted, Legacy!Empty
  <1>3. QED  BY <1>1, <1>2, NothingYet DEF LegacyInv, Legacy!Empty

\* The old program changes nothing of the import.
LEMMA OldKeeps ==
    ASSUME LegacyInv, NEW new \in Old, Legacy!Edited(new)
    PROVE  LegacyInv'
  <1> USE DEF Legacy!Edited
  <1>1. LegacyTyped'
    BY DEF LegacyInv, LegacyTyped
  <1>2. Rooted(lab)' /\ Rooted(work)'
    BY DEF LegacyInv, Rooted
  <1>3. QED  BY <1>1, <1>2 DEF LegacyInv, InHand, ItemsOf

LEMMA OldSteps ==
    ASSUME LegacyInv,
           \/ \E p \in People : Legacy!OldPerson(p) \/ Legacy!OldEntry(p)
           \/ \E d \in Legacy!Docs, data \in Legacy!Data :
                 \/ \E p \in People, b \in Bills \cup {NoBill} : Legacy!OldDoc(d, p, data, b)
                 \/ Legacy!OldItems(d, data)
    PROVE  LegacyInv'
  <1>a. /\ old \in Old /\ old.docs \in Found /\ DOMAIN old.docs \subseteq Legacy!Docs
        /\ \A d \in DOMAIN old.docs : old.docs[d] \in OldRow
    BY FoundIs DEF LegacyInv, LegacyTyped, Old
  <1>1. ASSUME NEW p \in People, Legacy!OldPerson(p) \/ Legacy!OldEntry(p)
        PROVE  LegacyInv'
    <2>1. [old EXCEPT !.people = @ \cup {p}] \in Old /\ [old EXCEPT !.paid = @ \cup {p}] \in Old
      BY <1>a DEF Old
    <2>2. QED  BY <1>1, <2>1, OldKeeps DEF Legacy!OldPerson, Legacy!OldEntry
  <1>2. ASSUME NEW d \in Legacy!Docs, NEW data \in Legacy!Data, NEW p \in People,
               NEW b \in Bills \cup {NoBill}, Legacy!OldDoc(d, p, data, b)
        PROVE  LegacyInv'
    <2> DEFINE docs == [x \in DOMAIN old.docs \cup {d} |->
                  IF x = d THEN [owner |-> p, data |-> data, bill |-> b] ELSE old.docs[x]]
    <2>1. docs \in [DOMAIN old.docs \cup {d} -> OldRow]
      BY <1>a DEF OldRow
    <2>2. docs \in Found
      BY <1>a, <2>1, FoundIs
    <2>3. [old EXCEPT !.docs = docs] \in Old
      BY <1>a, <2>2 DEF Old
    <2>4. QED  BY <1>2, <2>3, OldKeeps DEF Legacy!OldDoc
  <1>3. ASSUME NEW d \in Legacy!Docs, NEW data \in Legacy!Data, Legacy!OldItems(d, data)
        PROVE  LegacyInv'
    <2> DEFINE docs == [old.docs EXCEPT ![d].data = data]
    <2>0. d \in DOMAIN old.docs
      BY <1>3 DEF Legacy!OldItems
    <2>1. docs \in [DOMAIN old.docs -> OldRow]
      BY <1>a, <2>0 DEF OldRow
    <2>2. docs \in Found
      BY <1>a, <2>1, FoundIs
    <2>3. [old EXCEPT !.docs = docs] \in Old /\ [old EXCEPT !.docs[d].data = data] = [old EXCEPT !.docs = docs]
      BY <1>a, <2>2 DEF Old
    <2>4. QED  BY <1>3, <2>3, OldKeeps DEF Legacy!OldItems
  <1>4. QED  BY <1>1, <1>2, <1>3

\* A run ends: what it leaves must be whole.
LEMMA EndsKeeps ==
    ASSUME LegacyInv, NEW db \in Tables, Rooted(db),
           \A r \in db.docs : ItemsOf(db, r.doc) = Fit(r.from.data) \X {r.run},
           Legacy!Ends(db)
    PROVE  LegacyInv'
  <1>a. lab' = db /\ work' = db /\ run' = Legacy!Off /\ UNCHANGED <<old, runs, edits>>
    BY DEF Legacy!Ends
  <1>1. LegacyTyped'
    BY <1>a, NothingYet DEF LegacyInv, LegacyTyped
  <1>2. Rooted(lab)' /\ Rooted(work)'
    BY <1>a DEF Rooted
  <1>3. \A r \in db.docs : ~InHand(r)'
    BY <1>a, NothingYet DEF InHand
  <1>4. \A r \in db.docs : ItemsOf(lab, r.doc)' = Fit(r.from.data) \X {r.run}
                           /\ ItemsOf(work, r.doc)' = Fit(r.from.data) \X {r.run}
    BY <1>a DEF ItemsOf
  <1>5. QED  BY <1>a, <1>1, <1>2, <1>3, <1>4, NothingYet DEF LegacyInv

LEMMA EndSteps ==
    ASSUME LegacyInv, Legacy!CutOff \/ Legacy!Clear \/ Legacy!Entries
    PROVE  LegacyInv'
  <1>a. lab \in Tables /\ work \in Tables /\ Rooted(lab) /\ Rooted(work)
        /\ run \in Run /\ runs \in Nat /\ old \in Old
        /\ \A r \in lab.docs : ItemsOf(lab, r.doc) = Fit(r.from.data) \X {r.run}
    BY DEF LegacyInv, LegacyTyped
  <1>1. CASE Legacy!CutOff
    BY <1>a, <1>1, EndsKeeps DEF Legacy!CutOff, Legacy!Kept
  <1>2. CASE Legacy!Clear
    <2> DEFINE db == [Legacy!Empty EXCEPT !.customers = lab.customers]
    <2>1. db \in Tables /\ db.docs = {} /\ db.items = {}
      BY <1>a, NothingYet DEF Tables, Legacy!Empty
    <2>2. Legacy!Ends(db)
      BY <1>2 DEF Legacy!Clear
    <2> HIDE DEF db
    <2>3. Rooted(db)
      BY <2>1 DEF Rooted
    <2>4. QED  BY <2>1, <2>2, <2>3, EndsKeeps
  <1>3. CASE Legacy!Entries
    <2> DEFINE db == [work EXCEPT !.entries = @ \cup ((run.ids \cap old.paid) \X {runs})]
    <2>1. db \in Tables /\ db.docs = work.docs /\ db.items = work.items /\ db.customers = work.customers
      BY <1>a DEF Tables, Run, Old
    <2>2. Legacy!Ends(db) /\ run.at = "ledger"
      BY <1>3 DEF Legacy!Entries
    <2> HIDE DEF db
    <2>3. Rooted(db)
      BY <1>a, <2>1 DEF Rooted
    <2>4. \A r \in work.docs : ~InHand(r)
      BY <2>2 DEF LegacyInv, InHand
    <2>5. \A r \in db.docs : ItemsOf(db, r.doc) = Fit(r.from.data) \X {r.run}
      BY <2>1, <2>4 DEF LegacyInv, ItemsOf
    <2>6. QED  BY <2>1, <2>2, <2>3, <2>5, EndsKeeps
  <1>4. QED  BY <1>1, <1>2, <1>3

\* A run begins, reads a section, or has put in the customers.
LEMMA BeginKeeps ==
    ASSUME LegacyInv, Legacy!Begin
    PROVE  LegacyInv'
  <1>a. /\ run.at = "off" /\ run' = [Legacy!Off EXCEPT !.at = "customers"]
        /\ work' = lab /\ work = lab /\ runs' = runs + 1 /\ UNCHANGED <<old, lab>>
    BY DEF Legacy!Begin, LegacyInv
  <1>b. runs \in Nat /\ lab \in Tables /\ old \in Old
    BY DEF LegacyInv, LegacyTyped
  <1>c. run' \in Run /\ run'.at = "customers" /\ DOMAIN run'.left = {} /\ run'.doing = Legacy!NoDoc
    BY <1>a, FoundIs, NothingYet DEF Legacy!Off, Run
  <1>d. \A r \in lab.docs : r.run <= runs /\ r.run \in Nat
    BY <1>b DEF LegacyInv, Rooted, Tables, NewRow
  <1>1. LegacyTyped'
    BY <1>a, <1>b, <1>c DEF LegacyTyped
  <1>2. Rooted(lab)' /\ Rooted(work)'
    BY <1>a, <1>b, <1>d DEF LegacyInv, Rooted
  <1>3. \A r \in lab.docs : r.run < runs'
    BY <1>a, <1>b, <1>d
  <1>4. QED
    BY <1>a, <1>c, <1>1, <1>2, <1>3 DEF LegacyInv, InHand, ItemsOf

\* What the script has in hand changes, the rows and items do not.
LEMMA HandKeeps ==
    ASSUME LegacyInv, run.at \in {"customers", "tests", "certs"}, run.doing = Legacy!NoDoc,
           NEW customers \in SUBSET (People \X Nat), work.customers \subseteq customers,
           work' = [work EXCEPT !.customers = customers],
           run' \in Run, run'.doing = Legacy!NoDoc,
           UNCHANGED <<old, lab, runs>>,
           run'.at \in {"tests", "certs", "ledger"},
           run'.at \in {"tests", "certs"} =>
             /\ run'.ids \X {runs} \subseteq customers
             /\ DOMAIN run'.left \subseteq (IF run'.at = "tests" THEN OldTests ELSE OldCerts)
             /\ \A r \in work.docs : r.run = runs =>
                  /\ r.doc \notin DOMAIN run'.left
                  /\ run'.at = "tests" => r.doc \in OldTests,
           run'.at = "ledger" => DOMAIN run'.left = {}
    PROVE  LegacyInv'
  <1>a. /\ work' \in Tables /\ work'.docs = work.docs /\ work'.items = work.items
        /\ work'.customers = customers
    BY DEF LegacyInv, LegacyTyped, Tables
  <1>1. LegacyTyped'
    BY <1>a DEF LegacyInv, LegacyTyped
  <1>2. Rooted(lab)' /\ Rooted(work)'
    BY <1>a DEF LegacyInv, Rooted
  <1>3. \A r \in work.docs : ~InHand(r) /\ ~InHand(r)'
    BY DEF InHand
  <1>4. \A r \in work'.docs : ItemsOf(work', r.doc) = Fit(r.from.data) \X {r.run}
    BY <1>a, <1>3 DEF LegacyInv, ItemsOf
  <1>5. QED  BY <1>a, <1>1, <1>2, <1>3, <1>4 DEF LegacyInv, ItemsOf

LEMMA ReadIs ==
    ASSUME old \in Old, NEW kind \in SUBSET Legacy!Docs
    PROVE  Legacy!Read(kind) \in Found /\ DOMAIN Legacy!Read(kind) \subseteq kind
  <1>1. /\ DOMAIN old.docs \subseteq Legacy!Docs
        /\ \A d \in DOMAIN old.docs : old.docs[d] \in OldRow
    BY FoundIs DEF Old
  <1>2. Legacy!Read(kind) \in [DOMAIN old.docs \cap kind -> OldRow]
    BY <1>1 DEF Legacy!Read
  <1>3. QED  BY <1>1, <1>2, FoundIs

LEMMA SectionsKeep ==
    ASSUME LegacyInv,
           \/ Legacy!Customers
           \/ Legacy!Section("tests", "certs", Legacy!Read(OldCerts))
           \/ Legacy!Section("certs", "ledger", << >>)
    PROVE  LegacyInv'
  <1>a. /\ run \in Run /\ runs \in Nat /\ old \in Old /\ work \in Tables
        /\ OldTests \subseteq Legacy!Docs /\ OldCerts \subseteq Legacy!Docs
    BY DEF LegacyInv, LegacyTyped, Legacy!Docs
  <1>1. CASE Legacy!Customers
    <2> DEFINE customers == work.customers \cup (old.people \X {runs})
    <2>1. customers \in SUBSET (People \X Nat) /\ work' = [work EXCEPT !.customers = customers]
          /\ UNCHANGED <<old, lab, runs>> /\ run.at = "customers" /\ run.doing = Legacy!NoDoc
      BY <1>a, <1>1 DEF Legacy!Customers, Tables, Old, LegacyInv
    <2>2. /\ run' \in Run /\ run'.at = "tests" /\ run'.ids = old.people /\ run'.doing = Legacy!NoDoc
          /\ DOMAIN run'.left \subseteq OldTests
      BY <1>a, <1>1, <2>1, ReadIs DEF Legacy!Customers, Run, Old
    <2>3. \A r \in work.docs : r.run # runs
      BY <1>a, <2>1 DEF LegacyInv, Tables, NewRow
    <2>4. work.customers \subseteq customers /\ run'.ids \X {runs} \subseteq customers
      BY <2>2
    <2> HIDE DEF customers
    <2>5. QED  BY <2>1, <2>2, <2>3, <2>4, HandKeeps
  <1>2. CASE Legacy!Section("tests", "certs", Legacy!Read(OldCerts))
    <2>1. /\ run.at = "tests" /\ run.doing = Legacy!NoDoc /\ UNCHANGED <<old, lab, work, runs>>
          /\ run' = [run EXCEPT !.at = "certs", !.left = Legacy!Read(OldCerts)]
      BY <1>2 DEF Legacy!Section
    <2>2. /\ run' \in Run /\ run'.at = "certs" /\ run'.ids = run.ids /\ run'.doing = Legacy!NoDoc
          /\ DOMAIN run'.left \subseteq OldCerts
      BY <1>a, <2>1, ReadIs DEF Run
    <2>3. \A r \in work.docs : r.run = runs => r.doc \notin DOMAIN run'.left
      BY <2>1, <2>2, LegacyAssumption DEF LegacyInv
    <2>4. work' = [work EXCEPT !.customers = work.customers] /\ work.customers \in SUBSET (People \X Nat)
      BY <1>a, <2>1 DEF Tables
    <2>5. run'.ids \X {runs} \subseteq work.customers
      BY <2>1, <2>2 DEF LegacyInv
    <2>6. QED  BY <2>1, <2>2, <2>3, <2>4, <2>5, HandKeeps
  <1>3. CASE Legacy!Section("certs", "ledger", << >>)
    <2>1. /\ run.at = "certs" /\ run.doing = Legacy!NoDoc /\ UNCHANGED <<old, lab, work, runs>>
          /\ run' = [run EXCEPT !.at = "ledger", !.left = << >>]
      BY <1>3 DEF Legacy!Section
    <2>2. /\ run' \in Run /\ run'.at = "ledger" /\ run'.doing = Legacy!NoDoc
          /\ DOMAIN run'.left = {}
      BY <1>a, <2>1, FoundIs DEF Run
    <2>3. work' = [work EXCEPT !.customers = work.customers] /\ work.customers \in SUBSET (People \X Nat)
      BY <1>a, <2>1 DEF Tables
    <2>4. QED  BY <2>1, <2>2, <2>3, HandKeeps
  <1>4. QED  BY <1>1, <1>2, <1>3

\* A document is read: its row goes in, or it is passed over.
LEMMA ParentKeeps ==
    ASSUME LegacyInv, NEW d \in Legacy!Docs, Legacy!Parent(d)
    PROVE  LegacyInv'
  <1> DEFINE known == run.left[d].owner \in run.ids
             left == [x \in DOMAIN run.left \ {d} |-> run.left[x]]
             doing == IF known THEN Legacy!Doc(d, run.left[d].data) ELSE Legacy!NoDoc
             adds == known /\ Legacy!Fresh(d)
             row == Legacy!Row(d)
  <1>a. /\ run \in Run /\ runs \in Nat /\ old \in Old /\ work \in Tables /\ lab \in Tables
        /\ run.doing = Legacy!NoDoc /\ d \in DOMAIN run.left
        /\ run.left[d] \in OldRow /\ DOMAIN run.left \subseteq Legacy!Docs
        /\ \A x \in DOMAIN run.left : run.left[x] \in OldRow
    BY FoundIs DEF LegacyInv, LegacyTyped, Legacy!Parent, Run
  <1>b. /\ run' = [run EXCEPT !.left = left, !.doing = doing]
        /\ work' = IF adds THEN [work EXCEPT !.docs = @ \cup {row}] ELSE work
        /\ UNCHANGED <<old, lab, runs>>
    BY DEF Legacy!Parent
  <1>c. run.at \in {"tests", "certs"}
    BY <1>a DEF LegacyInv, Run
  <1>d. left \in Found /\ DOMAIN left = DOMAIN run.left \ {d}
    <2>1. left \in [DOMAIN run.left \ {d} -> OldRow]
      BY <1>a
    <2>2. QED  BY <1>a, <2>1, FoundIs
  <1>e. /\ doing \in [doc : Legacy!Docs \cup {"none"}, data : Legacy!Data]
        /\ known => doing # Legacy!NoDoc /\ doing.doc = d /\ doing.data = run.left[d].data
    <2>1. d # "none"
      BY LegacyAssumption DEF Legacy!Docs
    <2>2. Legacy!Doc(d, run.left[d].data) \in [doc : Legacy!Docs \cup {"none"}, data : Legacy!Data]
          /\ Legacy!Doc(d, run.left[d].data).doc = d
          /\ Legacy!Doc(d, run.left[d].data).data = run.left[d].data
          /\ Legacy!NoDoc.doc = "none"
      BY <1>a DEF Legacy!Doc, Legacy!NoDoc, OldRow
    <2>3. QED  BY <2>1, <2>2, NothingYet
  <1>f. row \in [doc : {d}, run : {runs}, owner : {<<run.left[d].owner, runs>>}, from : {run.left[d]}]
    BY DEF Legacy!Row
  <1>g. adds => /\ row \in NewRow /\ row.doc = d /\ row.run = runs /\ row.from = run.left[d]
                /\ row.owner[1] = row.from.owner /\ row.owner \in work.customers
    <2>1. known => <<run.left[d].owner, runs>> \in work.customers
      BY <1>c DEF LegacyInv
    <2>2. row.doc = d /\ row.run = runs /\ row.from = run.left[d]
          /\ row.owner = <<run.left[d].owner, runs>>
      BY <1>f
    <2>3. known => row \in NewRow
      BY <1>a, <1>f DEF NewRow, OldRow
    <2>4. QED  BY <2>1, <2>2, <2>3
  <1>h. adds => \A r \in work.docs : r.doc # d
    BY DEF Legacy!Fresh
  <1>i. \A r \in work.docs : r.run = runs => r.doc # d
    BY <1>a, <1>c DEF LegacyInv
  <1> HIDE DEF left, doing, adds, row, known
  <1>j. /\ run' \in Run /\ run'.at = run.at /\ run'.ids = run.ids /\ run'.left = left
        /\ run'.doing = doing
    BY <1>a, <1>b, <1>d, <1>e DEF Run
  <1>k. /\ work' \in Tables /\ work'.customers = work.customers /\ work'.items = work.items
        /\ work'.docs = IF adds THEN work.docs \cup {row} ELSE work.docs
    BY <1>a, <1>b, <1>g DEF Tables
  <1>1. LegacyTyped'
    BY <1>a, <1>b, <1>j, <1>k DEF LegacyTyped
  <1>2. Rooted(lab)' /\ Rooted(work)'
    <2>1. Rooted(work')
      BY <1>a, <1>g, <1>h, <1>k DEF LegacyInv, Rooted
    <2>2. QED  BY <1>b, <2>1 DEF LegacyInv, Rooted
  <1>3. ASSUME NEW r \in work'.docs
        PROVE  IF InHand(r)' THEN r.from.data = doing.data /\ ItemsOf(work', r.doc) = {}
                             ELSE ItemsOf(work', r.doc) = Fit(r.from.data) \X {r.run}
    <2>1. CASE r \in work.docs
      <3>1. ~InHand(r) /\ ~InHand(r)'
        BY <1>a, <1>b, <1>e, <1>i, <1>j, <2>1 DEF InHand, doing
      <3>2. QED  BY <1>k, <2>1, <3>1 DEF LegacyInv, ItemsOf
    <2>2. CASE r = row /\ adds
      <3>1. InHand(r)' /\ r.from.data = doing.data
        BY <1>b, <1>e, <1>g, <1>j, <2>2 DEF InHand, adds
      <3>2. ItemsOf(work', d) = {}
        BY <1>h, <1>k, <2>2 DEF ItemsOf, LegacyInv, Rooted
      <3>3. QED  BY <1>g, <2>2, <3>1, <3>2
    <2>3. QED  BY <1>k, <2>1, <2>2
  <1>4. ASSUME NEW r \in work'.docs, r.run = runs
        PROVE  r.doc \notin DOMAIN run'.left /\ (run.at = "tests" => r.doc \in OldTests)
    <2>1. CASE r \in work.docs
      BY <1>c, <1>d, <1>j, <1>4, <2>1 DEF LegacyInv
    <2>2. CASE r = row /\ adds
      BY <1>a, <1>c, <1>d, <1>g, <1>j, <2>2 DEF LegacyInv
    <2>3. QED  BY <1>k, <2>1, <2>2
  <1>5. QED
    <2>1. \A r \in lab'.docs : ItemsOf(lab', r.doc) = Fit(r.from.data) \X {r.run} /\ r.run < runs'
      BY <1>b, <1>c DEF LegacyInv, ItemsOf
    <2>2. /\ run'.ids \X {runs'} \subseteq work'.customers
          /\ DOMAIN run'.left \subseteq (IF run'.at = "tests" THEN OldTests ELSE OldCerts)
      BY <1>b, <1>c, <1>d, <1>j, <1>k DEF LegacyInv
    <2>3. QED
      BY <1>b, <1>c, <1>j, <1>1, <1>2, <1>3, <1>4, <2>1, <2>2 DEF LegacyInv

\* The items of the document in hand go in, or its run ends.
LEMMA ItemsKeep ==
    ASSUME LegacyInv, Legacy!Items
    PROVE  LegacyInv'
  <1> DEFINE d == run.doing.doc
             fits == Legacy!Insertable
             added == {[doc |-> d, n |-> n, run |-> runs] : n \in fits}
  <1>a. /\ run \in Run /\ runs \in Nat /\ old \in Old /\ work \in Tables /\ lab \in Tables
        /\ Rooted(lab) /\ \A r \in lab.docs : ItemsOf(lab, r.doc) = Fit(r.from.data) \X {r.run}
    BY DEF LegacyInv, LegacyTyped
  <1>b. run.doing # Legacy!NoDoc  BY DEF Legacy!Items
  <1>c. run.at \in {"tests", "certs"}
    BY <1>a, <1>b DEF LegacyInv, Run, Legacy!Off
  <1>1. CASE ~(fits = {} \/ Legacy!HasParent)
    BY <1>a, <1>1, EndsKeeps DEF Legacy!Items, Legacy!Kept
  <1>2. CASE fits = {} \/ Legacy!HasParent
    <2>1. /\ work' = [work EXCEPT !.items = @ \cup added]
          /\ run' = [run EXCEPT !.doing = Legacy!NoDoc]
          /\ UNCHANGED <<old, lab, runs>>
      BY <1>2 DEF Legacy!Items
    <2>2. fits \subseteq Nat /\ (fits # {} => d \in Legacy!Docs)
      <3>1. \A data \in Legacy!Data : DOMAIN data \subseteq Nat
        BY DEF Legacy!Data
      <3>2. run.doing.data \in Legacy!Data
        BY <1>a DEF Run
      <3>3. fits # {} => \E r \in work.docs : r.doc = d
        BY <1>2 DEF Legacy!HasParent
      <3>4. QED  BY <1>a, <3>1, <3>2, <3>3 DEF Legacy!Insertable, Tables, NewRow
    <2>3. added \subseteq [doc : Legacy!Docs, n : Nat, run : Nat]
      BY <1>a, <2>2
    <2>4. \A i \in added : i.doc = d /\ i.run = runs /\ i.n \in fits
      OBVIOUS
    <2>5. ASSUME NEW n \in fits  PROVE  \E i \in added : i.n = n
      <3> DEFINE item == [doc |-> d, n |-> n, run |-> runs]
      <3>1. item \in added /\ item.n = n  OBVIOUS
      <3> HIDE DEF item, added
      <3>2. QED  BY <3>1
    <2>6. {<<i.n, i.run>> : i \in added} = fits \X {runs}
      BY <2>4, <2>5
    <2>7. added # {} => fits # {}
      OBVIOUS
    <2> HIDE DEF added, fits
    <2>8. /\ work' \in Tables /\ work'.docs = work.docs /\ work'.customers = work.customers
          /\ work'.items = work.items \cup added
      BY <1>a, <2>1, <2>3 DEF Tables
    <2>9. /\ run' \in Run /\ run'.at = run.at /\ run'.ids = run.ids /\ run'.left = run.left
          /\ run'.doing = Legacy!NoDoc
      BY <1>a, <2>1, NothingYet DEF Run
    <2>10. LegacyTyped'
      BY <1>a, <2>1, <2>8, <2>9 DEF LegacyTyped
    <2>11. Rooted(lab)' /\ Rooted(work)'
      <3>1. \A i \in added : \E r \in work.docs : r.doc = i.doc
        BY <1>2, <2>4, <2>7 DEF Legacy!HasParent
      <3>2. QED  BY <2>1, <2>8, <3>1 DEF LegacyInv, Rooted
    <2>12. ASSUME NEW r \in work.docs
           PROVE  ItemsOf(work', r.doc) = Fit(r.from.data) \X {r.run}
      <3>1. CASE InHand(r)
        <4>1. r.doc = d /\ r.run = runs /\ r.from.data = run.doing.data /\ ItemsOf(work, d) = {}
          BY <3>1 DEF LegacyInv, InHand
        <4>2. \A i \in work.items : i.doc # d
          BY <4>1 DEF ItemsOf
        <4>3. fits = Fit(run.doing.data)
          BY <4>2 DEF fits, Legacy!Insertable, Fit
        <4>4. ItemsOf(work', d) = {<<i.n, i.run>> : i \in added}
          BY <2>4, <2>8, <4>2 DEF ItemsOf
        <4>5. QED  BY <2>6, <4>1, <4>3, <4>4
      <3>2. CASE ~InHand(r)
        <4>1. r.doc = d => added = {}
          <5> SUFFICES ASSUME r.doc = d, added # {} PROVE FALSE
            OBVIOUS
          <5>1. PICK s \in work.docs : s.doc = d /\ s.run = runs
            BY <1>2, <2>7 DEF Legacy!HasParent
          <5>2. s = r
            BY <5>1 DEF LegacyInv, Rooted
          <5>3. QED  BY <1>b, <3>2, <5>1, <5>2 DEF InHand
        <4>2. ItemsOf(work', r.doc) = ItemsOf(work, r.doc)
          BY <2>4, <2>8, <4>1 DEF ItemsOf
        <4>3. QED  BY <3>2, <4>2 DEF LegacyInv
      <3>3. QED  BY <3>1, <3>2
    <2>13. \A r \in work.docs : ~InHand(r)'
      BY <2>9 DEF InHand
    <2>14. \A r \in lab'.docs : ItemsOf(lab', r.doc) = Fit(r.from.data) \X {r.run} /\ r.run < runs'
      BY <1>c, <2>1 DEF LegacyInv, ItemsOf
    <2>15. QED
      BY <1>c, <2>1, <2>8, <2>9, <2>10, <2>11, <2>12, <2>13, <2>14 DEF LegacyInv
  <1>3. QED  BY <1>1, <1>2

LEMMA LegacyStep == LegacyInv /\ [Legacy!Next]_(Legacy!vars) => LegacyInv'
  <1> SUFFICES ASSUME LegacyInv, [Legacy!Next]_(Legacy!vars) PROVE LegacyInv'  OBVIOUS
  <1>1. CASE UNCHANGED Legacy!vars
    BY <1>1 DEF Legacy!vars, LegacyInv, LegacyTyped, Rooted, InHand, ItemsOf
  <1>2. CASE Legacy!Next
    BY <1>2, OldSteps, BeginKeeps, SectionsKeep, ParentKeeps, ItemsKeep, EndSteps DEF Legacy!Next
  <1>3. QED  BY <1>1, <1>2

LEMMA LegacyInvariance == Legacy!Spec => []LegacyInv
  BY LegacyInit, LegacyStep, PTL DEF Legacy!Spec

------------------------------------------------------------------------------
\* The schema: what the statements of a start make.

\* Statements each of which gives what it makes.
Listed(plan) == plan \in Seq(Range(plan)) /\ \A i \in DOMAIN plan : plan[i].makes \in plan[i].gives

LEMMA Joined ==
    ASSUME NEW a, NEW b, Listed(a), Listed(b)
    PROVE  Listed(a \o b) /\ Makes(a \o b) = Makes(a) \cup Makes(b)
  <1> DEFINE S == Range(a) \cup Range(b)
  <1>1. a \in Seq(S) /\ b \in Seq(S)
    BY SeqMonotonic DEF Listed
  <1> HIDE DEF S
  <1>2. /\ a \o b \in Seq(S) /\ Len(a \o b) = Len(a) + Len(b)
        /\ DOMAIN a = 1..Len(a) /\ DOMAIN b = 1..Len(b) /\ DOMAIN (a \o b) = 1..(Len(a) + Len(b))
        /\ Len(a) \in Nat /\ Len(b) \in Nat
    BY <1>1
  <1>3. \A i \in DOMAIN (a \o b) :
          \/ i \in DOMAIN a /\ (a \o b)[i] = a[i]
          \/ i - Len(a) \in DOMAIN b /\ (a \o b)[i] = b[i - Len(a)]
    BY <1>1, <1>2
  <1>4. /\ \A i \in DOMAIN a : i \in DOMAIN (a \o b) /\ (a \o b)[i] = a[i]
        /\ \A i \in DOMAIN b : i + Len(a) \in DOMAIN (a \o b) /\ (a \o b)[i + Len(a)] = b[i]
    BY <1>1, <1>2
  <1>5. Range(a \o b) = S
    BY <1>1, RangeConcatenation DEF S
  <1>6. Listed(a \o b)
    BY <1>2, <1>3, <1>5 DEF Listed
  <1>7. Makes(a \o b) = Makes(a) \cup Makes(b)
    BY <1>3, <1>4 DEF Makes
  <1>8. QED  BY <1>6, <1>7

LEMMA EachIs ==
    ASSUME NEW ts, ts \in Seq(Range(ts)), NEW p, NEW columns
    PROVE  Listed(Each(ts, p, columns)) /\ Makes(Each(ts, p, columns)) = Range(ts) \X {p}
  <1> DEFINE gives(t) == Part(t, IF p = "table" THEN {"table"} \cup Made(t) ELSE {p})
             needs(t) == Part(t, IF p = "table" THEN {} ELSE {"table"} \cup columns)
             plan     == Each(ts, p, columns)
  <1>1. \A t : <<t, p>> \in gives(t)
    BY DEF Part
  <1>2. plan = [i \in 1..Len(ts) |-> [makes |-> <<ts[i], p>>, gives |-> gives(ts[i]), needs |-> needs(ts[i])]]
    BY DEF Each
  <1> HIDE DEF gives, needs, plan
  <1>3. /\ Len(ts) \in Nat /\ DOMAIN ts = 1..Len(ts) /\ DOMAIN plan = 1..Len(ts)
        /\ \A i \in 1..Len(ts) : plan[i].makes = <<ts[i], p>> /\ plan[i].gives = gives(ts[i])
    BY <1>2
  <1>4. plan \in Seq(Range(plan))
    <2>1. plan \in [1..Len(ts) -> Range(plan)]
      BY <1>2, <1>3 DEF Range
    <2>2. QED  BY <2>1, <1>3, IsASeq
  <1>5. Listed(plan)
    BY <1>1, <1>3, <1>4 DEF Listed
  <1>6. Makes(plan) = Range(ts) \X {p}
    <2>1. Makes(plan) = {<<ts[i], p>> : i \in 1..Len(ts)}
      BY <1>3 DEF Makes
    <2>2. Range(ts) = {ts[i] : i \in 1..Len(ts)}
      BY <1>3 DEF Range
    <2>3. QED  BY <2>1, <2>2
  <1>7. QED  BY <1>5, <1>6 DEF plan

\* The lists of tables.
List(ts, S) == ts \in Seq(Range(ts)) /\ Range(ts) = S

LEMMA Appended ==
    ASSUME NEW a, NEW b, NEW S, NEW T, List(a, S), List(b, T)
    PROVE  List(a \o b, S \cup T)
  <1>1. a \in Seq(S \cup T) /\ b \in Seq(S \cup T)
    BY SeqMonotonic DEF List
  <1>2. QED  BY <1>1, RangeConcatenation DEF List

LEMMA Lists ==
    /\ List(Tests, {"gold_test", "silver_test"})
    /\ List(Metal, {"gold_certificate", "silver_certificate"})
    /\ List(Photo, {"photo_certificate"})
    /\ List(TestItems, {"gold_test_item", "silver_test_item"})
    /\ List(CertItems, {"gold_certificate_item", "silver_certificate_item", "photo_certificate_item"})
    /\ List(Books, {"credit_history", "weight_loss_history"})
  <1>1. List(Tests, {"gold_test", "silver_test"})
    BY DEF Tests, List, Range
  <1>2. List(Metal, {"gold_certificate", "silver_certificate"})
    BY DEF Metal, List, Range
  <1>3. List(Photo, {"photo_certificate"})
    BY DEF Photo, List, Range
  <1>4. List(TestItems, {"gold_test_item", "silver_test_item"})
    BY DEF TestItems, List, Range
  <1>5. List(CertItems, {"gold_certificate_item", "silver_certificate_item", "photo_certificate_item"})
    BY DEF CertItems, List, Range
  <1>6. List(Books, {"credit_history", "weight_loss_history"})
    BY DEF Books, List, Range
  <1>7. QED  BY <1>1, <1>2, <1>3, <1>4, <1>5, <1>6

LEMMA LongLists ==
    /\ List(Metal \o Photo, Range(Metal) \cup Range(Photo))
    /\ List(Docs, Range(Tests) \cup Range(Metal) \cup Range(Photo))
    /\ List(Items, Range(TestItems) \cup Range(CertItems))
    /\ List(Tests \o Metal, Range(Tests) \cup Range(Metal))
    /\ List(Docs \o <<"customer">>, Range(Docs) \cup {"customer"})
    /\ List(Docs \o CertItems, Range(Docs) \cup Range(CertItems))
  <1>1. /\ List(Tests, Range(Tests)) /\ List(Metal, Range(Metal)) /\ List(Photo, Range(Photo))
        /\ List(TestItems, Range(TestItems)) /\ List(CertItems, Range(CertItems))
    BY Lists DEF List
  <1>2. List(Metal \o Photo, Range(Metal) \cup Range(Photo))
    BY <1>1, Appended
  <1>3. List(Tests \o Metal, Range(Tests) \cup Range(Metal))
    BY <1>1, Appended
  <1>4. List(Docs, Range(Tests) \cup Range(Metal) \cup Range(Photo))
    BY <1>1, <1>3, Appended DEF Docs
  <1>5. List(Items, Range(TestItems) \cup Range(CertItems))
    BY <1>1, Appended DEF Items
  <1>6. List(Docs, Range(Docs))
    BY <1>4 DEF List
  <1>7. List(<<"customer">>, {"customer"})
    BY DEF List, Range
  <1>8. List(Docs \o <<"customer">>, Range(Docs) \cup {"customer"})
    BY <1>6, <1>7, Appended
  <1>9. List(Docs \o CertItems, Range(Docs) \cup Range(CertItems))
    BY <1>1, <1>6, Appended
  <1>10. QED  BY <1>2, <1>3, <1>4, <1>5, <1>8, <1>9

------------------------------------------------------------------------------
\* The tables of the plan, and the lists its statements go over.

Known == Records \cup Range(Books)
           \cup {"users", "globals", "sequences", "customer", "receipts", "cash_register",
                 "audit_logs", "idempotency_keys", "request_log"}

KnownList(ts) == ts \in Seq(Range(ts)) /\ Range(ts) \subseteq Known

\* Statements about known tables.
Fine(plan) == Listed(plan) /\ \A x \in Makes(plan) : x[1] \in Known

LEMMA EachFine ==
    ASSUME NEW ts, NEW p, NEW columns, KnownList(ts)
    PROVE  Fine(Each(ts, p, columns)) /\ Makes(Each(ts, p, columns)) = Range(ts) \X {p}
  BY EachIs DEF Fine, KnownList

LEMMA JoinedFine ==
    ASSUME NEW a, NEW b, Fine(a), Fine(b)
    PROVE  Fine(a \o b) /\ Makes(a \o b) = Makes(a) \cup Makes(b)
  BY Joined DEF Fine

LEMMA FourFine ==
    ASSUME NEW a, NEW b, NEW c, NEW d, NEW e, Fine(a), Fine(b), Fine(c), Fine(d), Fine(e)
    PROVE  /\ Fine(a \o b \o c \o d \o e)
           /\ Makes(a \o b \o c \o d \o e) = Makes(a) \cup Makes(b) \cup Makes(c) \cup Makes(d) \cup Makes(e)
  <1>1. Fine(a \o b) /\ Makes(a \o b) = Makes(a) \cup Makes(b)
    BY JoinedFine
  <1>2. Fine(a \o b \o c) /\ Makes(a \o b \o c) = Makes(a) \cup Makes(b) \cup Makes(c)
    BY <1>1, JoinedFine
  <1>3. Fine(a \o b \o c \o d) /\ Makes(a \o b \o c \o d) = Makes(a) \cup Makes(b) \cup Makes(c) \cup Makes(d)
    BY <1>2, JoinedFine
  <1>4. QED  BY <1>3, JoinedFine

LEMMA OnePiece ==
    \A x \in Known : KnownList(<<x>>) /\ Range(<<x>>) = {x}
  BY DEF KnownList, Range

LEMMA KnownJoined ==
    ASSUME NEW a, NEW b, KnownList(a), KnownList(b)
    PROVE  KnownList(a \o b) /\ Range(a \o b) = Range(a) \cup Range(b)
  BY Appended DEF KnownList, List

\* The lists that init.sql and the migrations go over.
LEMMA KnownLists ==
    /\ KnownList(Tests) /\ KnownList(Metal) /\ KnownList(Photo)
    /\ KnownList(TestItems) /\ KnownList(CertItems) /\ KnownList(Books)
    /\ KnownList(Docs) /\ Range(Docs) = Range(Tests) \cup Range(Metal) \cup Range(Photo)
    /\ KnownList(Items) /\ Range(Items) = Range(TestItems) \cup Range(CertItems)
    /\ KnownList(Metal \o Photo) /\ Range(Metal \o Photo) = Range(Metal) \cup Range(Photo)
    /\ KnownList(Tests \o Metal)
    /\ KnownList(Docs \o <<"customer">>) /\ Range(Docs \o <<"customer">>) = Range(Docs) \cup {"customer"}
    /\ KnownList(Docs \o CertItems) /\ Range(Docs \o CertItems) = Range(Docs) \cup Range(CertItems)
  <1>1. List(Docs, Range(Docs)) /\ List(Items, Range(Items)) /\ Range(Docs \o Items) = Range(Docs) \cup Range(Items)
    <2>1. List(Docs, Range(Docs)) /\ List(Items, Range(Items))
      BY LongLists DEF List
    <2>2. List(Docs \o Items, Range(Docs) \cup Range(Items))
      BY <2>1, Appended
    <2>3. QED  BY <2>1, <2>2 DEF List
  <1>2. Range(Docs) \subseteq Known /\ Range(Items) \subseteq Known /\ Range(Books) \subseteq Known /\ "customer" \in Known
    BY <1>1 DEF Known, Records
  <1>3. /\ Range(Docs) = Range(Tests) \cup Range(Metal) \cup Range(Photo)
        /\ Range(Items) = Range(TestItems) \cup Range(CertItems)
        /\ Range(Metal \o Photo) = Range(Metal) \cup Range(Photo)
        /\ Range(Tests \o Metal) = Range(Tests) \cup Range(Metal)
        /\ Range(Docs \o <<"customer">>) = Range(Docs) \cup {"customer"}
        /\ Range(Docs \o CertItems) = Range(Docs) \cup Range(CertItems)
    BY LongLists DEF List
  <1>4. /\ KnownList(Tests) /\ KnownList(Metal) /\ KnownList(Photo)
        /\ KnownList(TestItems) /\ KnownList(CertItems) /\ KnownList(Books)
    <2>1. /\ Tests \in Seq(Range(Tests)) /\ Metal \in Seq(Range(Metal)) /\ Photo \in Seq(Range(Photo))
          /\ TestItems \in Seq(Range(TestItems)) /\ CertItems \in Seq(Range(CertItems)) /\ Books \in Seq(Range(Books))
      BY Lists DEF List
    <2>2. QED  BY <1>2, <1>3, <2>1 DEF KnownList
  <1>5. /\ KnownList(Docs) /\ KnownList(Items) /\ KnownList(Metal \o Photo) /\ KnownList(Tests \o Metal)
        /\ KnownList(Docs \o <<"customer">>) /\ KnownList(Docs \o CertItems)
    BY <1>2, <1>3, LongLists DEF KnownList, List
  <1>6. QED  BY <1>3, <1>4, <1>5

LEMMA LongerLists ==
    /\ KnownList(<<"users", "globals", "sequences", "customer">>)
    /\ Range(<<"users", "globals", "sequences", "customer">>) = {"users", "globals", "sequences", "customer"}
    /\ KnownList(<<"weight_loss_history", "receipts", "cash_register">>)
    /\ Range(<<"weight_loss_history", "receipts", "cash_register">>) = {"weight_loss_history", "receipts", "cash_register"}
    /\ KnownList(Tests \o TestItems \o Metal \o Photo \o CertItems)
    /\ Range(Tests \o TestItems \o Metal \o Photo \o CertItems) = Records
    /\ KnownList(<<"customer", "globals", "users">> \o Tests \o Items)
  <1>1. "weight_loss_history" \in Known
    BY Lists DEF Known, List
  <1>2. /\ KnownList(<<"users", "globals", "sequences", "customer">>)
        /\ Range(<<"users", "globals", "sequences", "customer">>) = {"users", "globals", "sequences", "customer"}
    BY DEF KnownList, Known, Range
  <1>3. /\ KnownList(<<"weight_loss_history", "receipts", "cash_register">>)
        /\ Range(<<"weight_loss_history", "receipts", "cash_register">>) = {"weight_loss_history", "receipts", "cash_register"}
    <2>1. Range(<<"weight_loss_history", "receipts", "cash_register">>) = {"weight_loss_history", "receipts", "cash_register"}
      BY DEF Range
    <2>2. {"weight_loss_history", "receipts", "cash_register"} \subseteq Known
      BY <1>1 DEF Known
    <2>3. QED  BY <2>1, <2>2 DEF KnownList
  <1>4. KnownList(Tests \o TestItems) /\ Range(Tests \o TestItems) = Range(Tests) \cup Range(TestItems)
    BY KnownLists, KnownJoined
  <1>5. /\ KnownList(Tests \o TestItems \o Metal)
        /\ Range(Tests \o TestItems \o Metal) = Range(Tests) \cup Range(TestItems) \cup Range(Metal)
    BY <1>4, KnownLists, KnownJoined
  <1>6. /\ KnownList(Tests \o TestItems \o Metal \o Photo)
        /\ Range(Tests \o TestItems \o Metal \o Photo) = Range(Tests) \cup Range(TestItems) \cup Range(Metal) \cup Range(Photo)
    BY <1>5, KnownLists, KnownJoined
  <1>7. /\ KnownList(Tests \o TestItems \o Metal \o Photo \o CertItems)
        /\ Range(Tests \o TestItems \o Metal \o Photo \o CertItems) = Range(Docs) \cup Range(Items)
    BY <1>6, KnownLists, KnownJoined
  <1>8. Records = Range(Docs) \cup Range(Items)
    BY KnownLists, KnownJoined DEF Records
  <1>9. KnownList(<<"customer", "globals", "users">>)
    BY DEF KnownList, Known, Range
  <1>10. KnownList(<<"customer", "globals", "users">> \o Tests \o Items)
    BY <1>9, KnownLists, KnownJoined
  <1>11. QED  BY <1>2, <1>3, <1>7, <1>8, <1>10

------------------------------------------------------------------------------
\* What each part of a start makes.

LEMMA MakeFine ==
    ASSUME NEW ts, KnownList(ts)
    PROVE  Fine(Make(ts)) /\ Makes(Make(ts)) = Range(ts) \X {"table"}
  BY EachFine DEF Make

LEMMA InitSqlMakes ==
    /\ Fine(InitSql)
    /\ (Known \ {"request_log"}) \X {"table"} \subseteq Makes(InitSql)
    /\ <<"credit_history", "once">> \in Makes(InitSql)
  <1> DEFINE a == Make(<<"users", "globals", "sequences", "customer">>) \o Each(<<"customer">>, "phone", {})
                    \o Make(Tests \o TestItems \o Metal \o Photo \o CertItems)
                    \o Make(<<"credit_history">>) \o Each(<<"credit_history">>, "once", {})
             b == a \o Make(<<"weight_loss_history", "receipts", "cash_register">>)
                    \o Each(Docs, "by_status", {}) \o Each(Books, "by_customer", {})
                    \o Each(<<"cash_register">>, "by_date", {})
             c == b \o Each(<<"customer", "globals", "users">> \o Tests \o Items, "stamp", {})
                    \o Make(<<"audit_logs">>) \o Each(<<"audit_logs">>, "by_entity", {})
                    \o Make(<<"idempotency_keys">>)
             d == c \o Each(<<"idempotency_keys">>, "by_expiry", {}) \o Each(Tests, "by_customer", {})
                    \o Each(Tests, "by_day", {}) \o Each(Metal \o Photo, "by_number", {})
             e == d \o Each(Metal \o Photo, "by_day", {}) \o Each(Metal, "by_customer", {})
                    \o Each(Metal, "by_hash", {"snapshot"}) \o Each(Items, "by_parent", {})
             f == e \o Each(Books, "by_day", {}) \o Each(<<"audit_logs">>, "by_action", {})
                    \o Each(<<"users">>, "by_role", {}) \o Each(Docs \o <<"customer">>, "bump", {})
  <1>1. "users" \in Known /\ "customer" \in Known /\ "credit_history" \in Known /\ "cash_register" \in Known
        /\ "audit_logs" \in Known /\ "idempotency_keys" \in Known
    BY Lists DEF Known, List
  <1>2. /\ Fine(a) /\ {"users", "globals", "sequences", "customer"} \X {"table"} \subseteq Makes(a)
        /\ Records \X {"table"} \subseteq Makes(a)
        /\ {<<"credit_history", "table">>, <<"credit_history", "once">>} \subseteq Makes(a)
    BY <1>1, OnePiece, LongerLists, EachFine, MakeFine, FourFine
  <1>3. /\ Fine(b) /\ Makes(a) \subseteq Makes(b)
        /\ {"weight_loss_history", "receipts", "cash_register"} \X {"table"} \subseteq Makes(b)
    <2> HIDE DEF a
    <2>1. QED  BY <1>1, <1>2, OnePiece, KnownLists, LongerLists, EachFine, MakeFine, FourFine
  <1>4. /\ Fine(c) /\ Makes(b) \subseteq Makes(c)
        /\ {"audit_logs", "idempotency_keys"} \X {"table"} \subseteq Makes(c)
    <2> HIDE DEF b
    <2>1. QED  BY <1>1, <1>3, OnePiece, LongerLists, EachFine, MakeFine, FourFine
  <1>5. Fine(d) /\ Makes(c) \subseteq Makes(d)
    <2> HIDE DEF c
    <2>1. QED  BY <1>1, <1>4, OnePiece, KnownLists, EachFine, FourFine
  <1>6. Fine(e) /\ Makes(d) \subseteq Makes(e)
    <2> HIDE DEF d
    <2>1. QED  BY <1>5, KnownLists, EachFine, FourFine
  <1>7. Fine(f) /\ Makes(e) \subseteq Makes(f)
    <2> HIDE DEF e
    <2>1. QED  BY <1>1, <1>6, OnePiece, KnownLists, EachFine, FourFine
  <1>8. InitSql = f
    BY DEF InitSql
  <1>9. Known \ {"request_log"} = Records \cup {"credit_history", "weight_loss_history"}
                                    \cup {"users", "globals", "sequences", "customer", "receipts", "cash_register",
                                          "audit_logs", "idempotency_keys"}
    <2>1. /\ Range(Tests) = {"gold_test", "silver_test"} /\ Range(Metal) = {"gold_certificate", "silver_certificate"}
          /\ Range(Photo) = {"photo_certificate"} /\ Range(TestItems) = {"gold_test_item", "silver_test_item"}
          /\ Range(CertItems) = {"gold_certificate_item", "silver_certificate_item", "photo_certificate_item"}
          /\ Range(Books) = {"credit_history", "weight_loss_history"}
      BY Lists DEF List
    <2>2. Records = Range(Docs) \cup Range(Items)
      BY KnownLists, KnownJoined DEF Records
    <2>3. "request_log" \notin Records
      BY <2>1, <2>2, KnownLists
    <2>4. QED  BY <2>1, <2>3 DEF Known
  <1> HIDE DEF a, b, c, d, e, f
  <1>10. QED  BY <1>2, <1>3, <1>4, <1>5, <1>6, <1>7, <1>8, <1>9

LEMMA PostInitMakes ==
    /\ Fine(PostInit)
    /\ Range(Metal) \X {"weights", "dates", "one_bill"} \subseteq Makes(PostInit)
    /\ Range(Docs) \X {"completion", "snapshot"} \subseteq Makes(PostInit)
    /\ Range(CertItems) \X {"worth"} \subseteq Makes(PostInit)
    /\ Range(TestItems) \X {"required"} \subseteq Makes(PostInit)
    /\ {<<"photo_certificate_item", "kt">>, <<"audit_logs", "request">>, <<"credit_history", "reference">>,
        <<"weight_loss_history", "payment">>, <<"request_log", "table">>} \subseteq Makes(PostInit)
  <1> DEFINE a == Each(Metal, "weights", {}) \o Each(Tests, "completion", {})
                    \o Each(CertItems, "worth", {}) \o Each(<<"photo_certificate_item">>, "kt", {})
                    \o Each(<<"audit_logs">>, "request", {})
             b == a \o Each(<<"credit_history">>, "reference", {}) \o Each(<<"weight_loss_history">>, "payment", {})
                    \o Each(Docs, "snapshot", {}) \o Each(Tests \o Metal, "tax", {})
             c == b \o Each(Metal, "dates", {}) \o Each(Metal \o Photo, "completion", {})
                    \o Each(TestItems, "required", {}) \o Each(<<"globals">>, "seeds", {})
             d == c \o Each(Metal, "one_bill", {})
                    \o Make(<<"request_log">>)
             e == d \o Each(<<"audit_logs">>, "by_request", {"request"})
  <1>1. /\ "photo_certificate_item" \in Known /\ "audit_logs" \in Known /\ "credit_history" \in Known
        /\ "weight_loss_history" \in Known /\ "globals" \in Known /\ "request_log" \in Known
    <2>1. "photo_certificate_item" \in Known
      BY Lists, KnownLists DEF List, KnownList
    <2>2. QED  BY <2>1, Lists DEF Known, List
  <1>2. /\ Fine(a) /\ Range(Metal) \X {"weights"} \subseteq Makes(a) /\ Range(Tests) \X {"completion"} \subseteq Makes(a)
        /\ Range(CertItems) \X {"worth"} \subseteq Makes(a)
        /\ {<<"photo_certificate_item", "kt">>, <<"audit_logs", "request">>} \subseteq Makes(a)
    BY <1>1, OnePiece, KnownLists, EachFine, FourFine
  <1>3. /\ Fine(b) /\ Makes(a) \subseteq Makes(b) /\ Range(Docs) \X {"snapshot"} \subseteq Makes(b)
        /\ {<<"credit_history", "reference">>, <<"weight_loss_history", "payment">>} \subseteq Makes(b)
    <2> HIDE DEF a
    <2>1. QED  BY <1>1, <1>2, OnePiece, KnownLists, EachFine, FourFine
  <1>4. /\ Fine(c) /\ Makes(b) \subseteq Makes(c) /\ Range(Metal) \X {"dates"} \subseteq Makes(c)
        /\ (Range(Metal) \cup Range(Photo)) \X {"completion"} \subseteq Makes(c)
        /\ Range(TestItems) \X {"required"} \subseteq Makes(c)
    <2> HIDE DEF b
    <2>1. QED  BY <1>1, <1>3, OnePiece, KnownLists, EachFine, FourFine
  <1>5. /\ Fine(d) /\ Makes(c) \subseteq Makes(d) /\ Range(Metal) \X {"one_bill"} \subseteq Makes(d)
        /\ <<"request_log", "table">> \in Makes(d)
    <2> HIDE DEF c
    <2>1. Fine(c \o Each(Metal, "one_bill", {}))
          /\ Makes(c \o Each(Metal, "one_bill", {})) = Makes(c) \cup (Range(Metal) \X {"one_bill"})
      BY <1>4, KnownLists, EachFine, JoinedFine
    <2>2. QED  BY <1>1, <2>1, OnePiece, MakeFine, JoinedFine
  <1>6. Fine(e) /\ Makes(d) \subseteq Makes(e)
    <2> HIDE DEF d
    <2>1. QED  BY <1>1, <1>5, OnePiece, EachFine, JoinedFine
  <1>7. PostInit = e
    BY DEF PostInit
  <1> HIDE DEF a, b, c, d, e
  <1>8. Range(Docs) \X {"completion"} \subseteq Makes(PostInit)
    BY <1>2, <1>3, <1>4, <1>5, <1>6, <1>7, KnownLists
  <1>9. QED  BY <1>2, <1>3, <1>4, <1>5, <1>6, <1>7, <1>8

LEMMA MigrationsMake ==
    /\ Fine(MigrateIdempotencyKeys) /\ Fine(MigrateVersionColumns) /\ Fine(MigrateIndexes)
    /\ Fine(MigrateGuards) /\ Fine(MigrateMissingColumns)
    /\ (Range(Docs) \cup {"customer"}) \X {"version", "bump"} \subseteq Makes(MigrateVersionColumns)
    /\ <<"credit_history", "one_debit">> \in Makes(MigrateIndexes)
    /\ <<"credit_history", "known_reference">> \in Makes(MigrateGuards)
    /\ Range(Docs) \X {"done_is_final", "done_is_kept"} \subseteq Makes(MigrateGuards)
    /\ Range(CertItems) \X {"done_is_kept"} \subseteq Makes(MigrateGuards)
    /\ Range(Docs) \X {"tax"} \subseteq Makes(MigrateMissingColumns)
  <1>1. /\ "photo_certificate_item" \in Known /\ "audit_logs" \in Known /\ "credit_history" \in Known
        /\ "weight_loss_history" \in Known /\ "users" \in Known /\ "idempotency_keys" \in Known
    <2>1. "photo_certificate_item" \in Known
      BY Lists, KnownLists DEF List, KnownList
    <2>2. QED  BY <2>1, Lists DEF Known, List
  <1>2. Fine(MigrateIdempotencyKeys)
    BY <1>1, OnePiece, EachFine, MakeFine, JoinedFine DEF MigrateIdempotencyKeys
  <1>3. /\ Fine(MigrateVersionColumns)
        /\ (Range(Docs) \cup {"customer"}) \X {"version", "bump"} \subseteq Makes(MigrateVersionColumns)
    BY KnownLists, EachFine, JoinedFine DEF MigrateVersionColumns
  <1>4. Fine(MigrateIndexes) /\ <<"credit_history", "one_debit">> \in Makes(MigrateIndexes)
    <2> DEFINE a == Each(Tests, "by_customer", {}) \o Each(Tests, "by_number", {}) \o Each(Tests, "by_day", {})
                      \o Each(Metal \o Photo, "by_number", {}) \o Each(Metal \o Photo, "by_day", {})
               b == a \o Each(Metal \o Photo, "by_hash", {"snapshot"})
                      \o Each(<<"credit_history">>, "one_debit", {"reference"})
                      \o Each(Items, "by_parent", {}) \o Each(Books, "by_day", {})
               c == b \o Each(Metal \o Photo, "by_completion", {"completion"}) \o Each(Metal, "by_status", {})
                      \o Each(<<"audit_logs">>, "by_action", {})
                      \o Each(<<"users">>, "by_name", {})
               d == c \o Each(<<"users">>, "by_role", {})
    <2>1. Fine(a)
      BY KnownLists, EachFine, FourFine
    <2>2. Fine(b) /\ <<"credit_history", "one_debit">> \in Makes(b)
      <3> HIDE DEF a
      <3>1. QED  BY <1>1, <2>1, OnePiece, KnownLists, EachFine, FourFine
    <2>3. Fine(c) /\ Makes(b) \subseteq Makes(c)
      <3> HIDE DEF b
      <3>1. QED  BY <1>1, <2>2, OnePiece, KnownLists, EachFine, FourFine
    <2>4. Fine(d) /\ Makes(c) \subseteq Makes(d)
      <3> HIDE DEF c
      <3>1. QED  BY <1>1, <2>3, OnePiece, EachFine, JoinedFine
    <2>5. MigrateIndexes = d
      BY DEF MigrateIndexes
    <2> HIDE DEF a, b, c, d
    <2>6. QED  BY <2>2, <2>3, <2>4, <2>5
  <1>5. /\ Fine(MigrateGuards) /\ <<"credit_history", "known_reference">> \in Makes(MigrateGuards)
        /\ Range(Docs) \X {"done_is_final", "done_is_kept"} \subseteq Makes(MigrateGuards)
        /\ Range(CertItems) \X {"done_is_kept"} \subseteq Makes(MigrateGuards)
    <2> DEFINE a == Each(<<"credit_history">>, "known_reference", {}) \o Each(Docs, "done_is_final", {})
               b == a \o Each(Docs \o CertItems, "done_is_kept", {})
    <2>1. /\ Fine(a) /\ <<"credit_history", "known_reference">> \in Makes(a)
          /\ Range(Docs) \X {"done_is_final"} \subseteq Makes(a)
      BY <1>1, OnePiece, KnownLists, EachFine, JoinedFine
    <2>2. /\ Fine(b) /\ Makes(a) \subseteq Makes(b)
          /\ (Range(Docs) \cup Range(CertItems)) \X {"done_is_kept"} \subseteq Makes(b)
      <3> HIDE DEF a
      <3>1. QED  BY <2>1, KnownLists, EachFine, JoinedFine
    <2>3. MigrateGuards = b
      BY DEF MigrateGuards
    <2> HIDE DEF a, b
    <2>4. QED  BY <2>1, <2>2, <2>3
  <1>6. Fine(MigrateMissingColumns) /\ Range(Docs) \X {"tax"} \subseteq Makes(MigrateMissingColumns)
    <2> DEFINE a == Each(<<"credit_history">>, "reference", {}) \o Each(<<"weight_loss_history">>, "payment", {})
                      \o Each(Docs, "snapshot", {}) \o Each(Docs, "tax", {})
                      \o Each(Metal \o Photo, "completion", {})
               b == a \o Each(TestItems, "required", {}) \o Each(<<"photo_certificate_item">>, "kt", {})
    <2>1. Fine(a) /\ Range(Docs) \X {"tax"} \subseteq Makes(a)
      BY <1>1, OnePiece, KnownLists, EachFine, FourFine
    <2>2. Fine(b) /\ Makes(a) \subseteq Makes(b)
      <3> HIDE DEF a
      <3>1. Fine(a \o Each(TestItems, "required", {})) /\ Makes(a) \subseteq Makes(a \o Each(TestItems, "required", {}))
        BY <2>1, KnownLists, EachFine, JoinedFine
      <3>2. QED  BY <1>1, <3>1, OnePiece, EachFine, JoinedFine
    <2>3. MigrateMissingColumns = b
      BY DEF MigrateMissingColumns
    <2> HIDE DEF a, b
    <2>4. QED  BY <2>1, <2>2, <2>3
  <1>7. QED  BY <1>2, <1>3, <1>4, <1>5, <1>6

LEMMA PlanMakes ==
    /\ Fine(Plan)
    /\ \A part \in {InitSql, PostInit, MigrateVersionColumns, MigrateIndexes, MigrateGuards, MigrateMissingColumns} :
         Makes(part) \subseteq Makes(Plan)
  <1> DEFINE a == InitSql \o PostInit \o MigrateIdempotencyKeys \o MigrateVersionColumns \o MigrateIndexes
  <1>1. /\ Fine(a)
        /\ Makes(a) = Makes(InitSql) \cup Makes(PostInit) \cup Makes(MigrateIdempotencyKeys)
                        \cup Makes(MigrateVersionColumns) \cup Makes(MigrateIndexes)
    BY InitSqlMakes, PostInitMakes, MigrationsMake, FourFine
  <1> HIDE DEF a
  <1>2. Fine(a \o MigrateGuards) /\ Makes(a \o MigrateGuards) = Makes(a) \cup Makes(MigrateGuards)
    BY <1>1, MigrationsMake, JoinedFine
  <1>3. /\ Fine(a \o MigrateGuards \o MigrateMissingColumns)
        /\ Makes(a \o MigrateGuards \o MigrateMissingColumns)
             = Makes(a) \cup Makes(MigrateGuards) \cup Makes(MigrateMissingColumns)
    BY <1>2, MigrationsMake, JoinedFine
  <1>4. Plan = a \o MigrateGuards \o MigrateMissingColumns
    BY DEF Plan, a
  <1>5. QED  BY <1>1, <1>3, <1>4

\* Everything the services rely on is made by some statement.
LEMMA PlanSuffices == Relied \subseteq Makes(Plan)
  <1> DEFINE M == Makes(Plan)
  <1>1. /\ Known \X {"table"} \subseteq M
        /\ (Range(Docs) \cup {"customer"}) \X {"version", "bump"} \subseteq M
        /\ Range(Docs) \X {"completion", "snapshot", "tax", "done_is_final", "done_is_kept"} \subseteq M
        /\ Range(Metal) \X {"weights", "dates", "one_bill"} \subseteq M
        /\ Range(CertItems) \X {"worth", "done_is_kept"} \subseteq M
        /\ Range(TestItems) \X {"required"} \subseteq M
        /\ {<<"photo_certificate_item", "kt">>, <<"audit_logs", "request">>, <<"credit_history", "reference">>,
            <<"weight_loss_history", "payment">>} \subseteq M
        /\ {"credit_history"} \X {"one_debit", "once", "known_reference"} \subseteq M
    BY PlanMakes, InitSqlMakes, PostInitMakes, MigrationsMake
  <1> HIDE DEF M
  <1>2. Guards \subseteq M
    BY <1>1 DEF Guards
  <1>3. ASSUME NEW t \in Known, NEW p \in Columns(t)
        PROVE  <<t, p>> \in M
    <2>1. /\ Range(Tests) = {"gold_test", "silver_test"} /\ Range(Metal) = {"gold_certificate", "silver_certificate"}
          /\ Range(Photo) = {"photo_certificate"} /\ Range(TestItems) = {"gold_test_item", "silver_test_item"}
          /\ Range(CertItems) = {"gold_certificate_item", "silver_certificate_item", "photo_certificate_item"}
      BY Lists DEF List
    <2>2. \/ t \in Range(Tests) /\ p \in {"version", "completion", "snapshot", "tax"}
          \/ t \in Range(Metal) /\ p \in {"version", "completion", "snapshot", "tax", "dates", "weights"}
          \/ t \in Range(Photo) /\ p \in {"version", "completion", "snapshot", "tax"}
          \/ t \in Range(TestItems) /\ p = "required"
          \/ t = "photo_certificate_item" /\ p \in {"worth", "kt"}
          \/ t \in Range(CertItems) /\ p = "worth"
          \/ t = "customer" /\ p = "version"
          \/ t = "credit_history" /\ p = "reference"
          \/ t = "weight_loss_history" /\ p = "payment"
          \/ t = "audit_logs" /\ p = "request"
      BY <1>3, <2>1 DEF Columns
    <2>3. Range(Docs) = Range(Tests) \cup Range(Metal) \cup Range(Photo)
      BY KnownLists
    <2>4. "photo_certificate_item" \in Range(CertItems)
      BY <2>1
    <2>5. CASE t \in Range(Docs)
      BY <1>1, <2>1, <2>2, <2>3, <2>5
    <2>6. CASE t \notin Range(Docs)
      BY <1>1, <2>2, <2>3, <2>4, <2>6
    <2>7. QED  BY <2>5, <2>6
  <1>4. Data \subseteq M
    <2>1. \A s \in Range(Plan) : s.makes[1] \in Known
      BY PlanMakes DEF Fine, Makes, Range
    <2>2. \A t \in Known : Part(t, {"table"} \cup Columns(t)) \subseteq M
      BY <1>1, <1>3 DEF Part
    <2>3. QED  BY <2>1, <2>2 DEF Data
  <1>5. QED  BY <1>2, <1>4 DEF Relied, M

------------------------------------------------------------------------------
\* A start, and what the scripts leave of it.

\* While anything is looked for that the plan makes, nothing throws and nothing is left.
LEMMA HealedRest ==
    ASSUME Makes(Plan) \subseteq schema, pc \in Nat \ {0}
    PROVE  Remaining = {} /\ Coming = {}
  <1>1. \A i \in 1..Len(Plan) : Plan[i].makes \in schema
    BY PlanMakes DEF Makes, Fine, Listed
  <1>2. Remaining = {}
    BY <1>1 DEF Remaining, Throws
  <1>3. QED  BY <1>2 DEF Coming

\* add_constraints*.js finds a column that its new table lacks.
LEMMA NotRebuilt ==
    ASSUME Makes(Plan) \subseteq schema, NEW v
    PROVE  ~Rebuild(v)
  <1>1. <<"photo_certificate_item", "kt">> \in schema
    BY PlanMakes, PostInitMakes
  <1>2. /\ "photo_certificate_item" \in Range(Items) /\ "photo_certificate_item" \notin Range(TestItems)
        /\ Columns("photo_certificate_item") = {"worth", "kt"}
    <2>1. /\ Range(Tests) = {"gold_test", "silver_test"} /\ Range(Metal) = {"gold_certificate", "silver_certificate"}
          /\ Range(Photo) = {"photo_certificate"} /\ Range(TestItems) = {"gold_test_item", "silver_test_item"}
          /\ Range(CertItems) = {"gold_certificate_item", "silver_certificate_item", "photo_certificate_item"}
      BY Lists DEF List
    <2>2. Columns("photo_certificate_item") = {"worth", "kt"}
      BY <2>1 DEF Columns
    <2>3. QED  BY <2>1, <2>2, KnownLists
  <1>3. "kt" \in Has("photo_certificate_item") /\ "kt" \notin New(v, "photo_certificate_item")
    BY <1>1, <1>2 DEF Has, New
  <1>4. QED  BY <1>2, <1>3 DEF Rebuild

LEMMA SchemaInit == Init => SchemaInv
  BY PlanMakes DEF Init, SchemaInv, Fine, Listed

LEMMA SchemaStep == SchemaInv /\ [Next]_vars => SchemaInv'
  <1> SUFFICES ASSUME SchemaInv, [Next]_vars PROVE SchemaInv'  OBVIOUS
  <1> USE DEF SchemaInv
  <1>1. DOMAIN Plan = 1..Len(Plan) /\ Len(Plan) \in Nat /\ \A i \in DOMAIN Plan : Plan[i].makes \in Plan[i].gives
    BY PlanMakes DEF Fine, Listed
  <1>2. CASE UNCHANGED vars
    BY <1>2 DEF vars
  <1>3. CASE Start
    BY <1>1, <1>3 DEF Start
  <1>4. CASE Step
    <2>1. PICK i \in Coming : schema' = schema \cup Plan[i].gives /\ pc' = i + 1
      BY <1>4 DEF Step
    <2>2. /\ i \in pc..Len(Plan) /\ i \in DOMAIN Plan
          /\ \A j \in pc..Len(Plan) : j < i => Plan[j].makes \in schema
      BY <2>1, <1>1 DEF Coming, Remaining
    <2>3. \A j \in DOMAIN Plan : j < i + 1 => Plan[j].makes \in schema \cup Plan[i].gives
      <3> SUFFICES ASSUME NEW j \in DOMAIN Plan, j < i + 1
                   PROVE  Plan[j].makes \in schema \cup Plan[i].gives
        OBVIOUS
      <3>1. CASE j < pc
        BY <3>1, <1>4 DEF Step
      <3>2. CASE pc <= j /\ j < i
        BY <3>2, <1>1, <2>2
      <3>3. CASE j = i
        BY <3>3, <1>1, <2>2
      <3>4. QED  BY <3>1, <3>2, <3>3, <1>1, <2>2
    <2>4. server' = "starting" /\ server = "starting" /\ healed' = healed /\ saved' = saved
      BY <1>4 DEF Step
    <2>5. pc' \in Nat \ {0}
      BY <2>1, <2>2
    <2>6. QED  BY <2>1, <2>3, <2>4, <2>5
  <1>5. CASE Refuse
    <2>1. ~healed
      BY <1>5, HealedRest DEF Refuse
    <2>2. QED  BY <1>1, <1>5, <2>1 DEF Refuse
  <1>6. CASE Serve
    <2>1. \A i \in DOMAIN Plan : Plan[i].makes \in schema
      <3> SUFFICES ASSUME NEW i \in DOMAIN Plan PROVE Plan[i].makes \in schema
        OBVIOUS
      <3>1. CASE i < pc
        BY <3>1, <1>6 DEF Serve
      <3>2. CASE pc <= i
        BY <3>2, <1>1, <1>6 DEF Serve, Remaining
      <3>3. QED  BY <3>1, <3>2, <1>1
    <2>2. Makes(Plan) \subseteq schema
      BY <2>1 DEF Makes
    <2>3. QED  BY <1>1, <1>6, <2>2 DEF Serve
  <1>7. CASE Stop
    BY <1>1, <1>7 DEF Stop
  <1>8. CASE Backup
    BY <1>8 DEF Backup
  <1>9. CASE Restore
    BY <1>1, <1>9 DEF Restore
  <1>10. ASSUME NEW v \in {1, 2}, Rebuild(v) PROVE SchemaInv'
    <2>1. ~(Makes(Plan) \subseteq schema)
      BY <1>10, NotRebuilt
    <2>2. ~healed /\ ~(server = "up" /\ whole)
      BY <2>1
    <2>3. UNCHANGED <<saved, server, pc, whole, healed>> /\ server # "starting"
      BY <1>10 DEF Rebuild
    <2>4. QED  BY <2>2, <2>3
  <1>11. CASE ResetSchema
    BY <1>11 DEF ResetSchema
  <1>12. QED  BY <1>2, <1>3, <1>4, <1>5, <1>6, <1>7, <1>8, <1>9, <1>10, <1>11 DEF Next

LEMMA SchemaInvariance == Spec => []SchemaInv
  BY SchemaInit, SchemaStep, PTL DEF Spec

------------------------------------------------------------------------------
\* What is promised.

\* A run of MCDatabase is a run of the schema, and one of the import.
THEOREM BothRun == DatabaseSpec => Spec /\ Legacy!Spec
  <1>1. DatabaseInit => Init /\ Legacy!Init  BY DEF DatabaseInit
  <1>2. [DatabaseNext]_<<vars, rows, moves>> => [Next]_vars /\ [Legacy!Next]_(Legacy!vars)
    BY DEF DatabaseNext, rows, Legacy!vars
  <1>3. QED  BY <1>1, <1>2, PTL DEF DatabaseSpec, Spec, Legacy!Spec

\* A server that answers requests has every column and every guard under it that
\* the services rely on (initDb, migrations.js), whatever the database lacked.
THEOREM CompleteCorrect == Spec => []Complete
  <1>1. SchemaInv => Complete
    BY PlanSuffices DEF SchemaInv, Complete
  <1>2. QED  BY <1>1, SchemaInvariance, PTL

\* No start of a database that was once up is refused: initDb throws on nothing
\* that an earlier start, a crash in one or add_constraints*.js left.
THEOREM OnceUpAlwaysUpCorrect == Spec => []OnceUpAlwaysUp
  <1>1. SchemaInv => OnceUpAlwaysUp
    BY DEF SchemaInv, OnceUpAlwaysUp
  <1>2. QED  BY <1>1, SchemaInvariance, PTL

\* Nothing but reset_schema.js and a backup put back takes a table or a column
\* away: add_constraints*.js make five tables anew only with all they had.
THEOREM ColumnsKeptCorrect == Spec => ColumnsKept
  <1> DEFINE Kept == schema \cap Data \subseteq schema'
  <1>1. ASSUME NEW v \in {1, 2}, Rebuild(v) PROVE Kept
    <2> SUFFICES ASSUME NEW x \in schema, x \in Data PROVE x \in schema'
      OBVIOUS
    <2>1. PICK s \in Range(Plan) : x \in Part(s.makes[1], {"table"} \cup Columns(s.makes[1]))
      BY DEF Data
    <2> DEFINE t == s.makes[1]
    <2>2. PICK p \in {"table"} \cup Columns(t) : x = <<t, p>>
      <3>1. x = <<t, x[2]>> /\ x[2] \in {"table"} \cup Columns(t)
        BY <2>1 DEF Part
      <3>2. QED  BY <3>1
    <2>3. schema' = Rebuilt(v) /\ \A u \in Range(Items) : Has(u) \subseteq New(v, u)
      BY <1>1 DEF Rebuild
    <2> HIDE DEF t
    <2>4. CASE t \notin Range(Items)
      BY <2>2, <2>3, <2>4 DEF Rebuilt
    <2>5. CASE t \in Range(Items)
      <3>1. p \in {"table"} \cup New(v, t)
        BY <2>2, <2>3, <2>5 DEF Has
      <3>2. x \in Part(t, {"table"} \cup New(v, t))
        BY <2>2, <3>1 DEF Part
      <3>3. QED  BY <2>3, <2>5, <3>2 DEF Rebuilt
    <2>6. QED  BY <2>4, <2>5
  <1>2. Next => ResetSchema \/ Restore \/ Kept
    BY <1>1 DEF Next, Start, Step, Refuse, Serve, Stop, Backup
  <1>3. UNCHANGED vars => Kept
    BY DEF vars
  <1>4. [Next]_vars => [ResetSchema \/ Restore \/ Kept]_vars
    BY <1>2
  <1>5. QED  BY <1>4, PTL DEF Spec, ColumnsKept

\* A document brought over from the old program is there once, under the customer
\* it had and with exactly the items it then had (import_legacy.js).
THEOREM ImportedWholeCorrect == Legacy!Spec => []ImportedWhole
  <1>1. LegacyInv => ImportedWhole
    BY DEF LegacyInv, Rooted, ImportedWhole, Legacy!ImportedWhole, ItemsOf, Fit
  <1>2. QED  BY <1>1, LegacyInvariance, PTL
================================================================================
