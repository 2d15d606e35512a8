---------------------------- MODULE MCPages_proofs ----------------------------
(***************************************************************************)
(* Proofs about the two parts of the front end that MCPages runs: for any  *)
(* users, tabs and browsers, whom a tab shows and which password opens an  *)
(* account (Accounts); for any tests and items, what becomes of a reading  *)
(* that was entered (ItemPage).                                            *)
(***************************************************************************)
EXTENDS MCPages, TLAPS

------------------------------------------------------------------------------
\* The page of readings.

Samples == Readings!Samples

\* A reading is the number of an act, and so is an identifier.
Numbered ==
    /\ \A s \in Samples : stored[s] <= entries
    /\ \A s \in Samples : page.rows[s] <= entries /\ page.sent.items[s] <= entries
    /\ \A r \in wire, s \in Samples : r.items[s] <= entries
    /\ \A k \in logged : 0 < k /\ k <= entries
    /\ \A r \in wire \cup page.givenup : 0 < r.key /\ r.key <= entries
    /\ page.key <= entries /\ page.sent.key <= entries
    /\ page.stage \in {"sent", "done", "reload"} => 0 < page.sent.key

\* The identifier of the save under way, or of the next one.
Kept == IF page.stage \in {"sent", "done", "reload"} THEN page.sent.key ELSE page.key

\* A save under way was sent under the identifier that is kept, unless that was
\* replaced since.
KeyKept ==
    /\ page.stage \in {"sent", "done"} => page.key \in {0, page.sent.key}
    /\ page.stage = "reload" => page.key = 0

\* A save was given up, or it is the one the page waits for.
OneSave == \A r \in wire : r \in page.givenup \/ (page.stage = "sent" /\ r = page.sent)

Written(r) == \A s \in Samples : r.items[s] \in written

\* A save with identifier k was given up, and has reached the tables.
Served(k) == \E g \in page.givenup : g.key = k /\ Written(g)

\* What a save that was answered had in hand has reached the tables, or one given
\* up took its place in the log.
SentIsWritten ==
    /\ page.stage \in {"done", "reload"} => Written(page.sent) \/ Served(page.sent.key)
    /\ Kept \in logged => page.stage \in {"done", "reload"} \/ Served(Kept)

\* All the saves that were given up hold the readings of r, and so does the one
\* that was answered.
Alike(r) ==
    /\ \A h \in page.givenup : h.items = r.items
    /\ page.stage \in {"done", "reload"} => page.sent.items = r.items

\* What was given up and has taken the place in the log stands in the tables, when
\* nothing else was given up.
Standing ==
    \A g \in page.givenup :
        g.key = Kept /\ Kept \in logged /\ Alike(g) => \A s \in Samples : stored[s] >= g.items[s]

\* A reading that is on the page only belongs to the test that is shown, which
\* nothing but the save under way will show again, and that save holds the reading,
\* as does each that was sent under its identifier.
OnPage(e) ==
    /\ e.at \in page.dirty /\ page.rows[e.at] = e.reading
    /\ e.at \in Readings!Of(page.sel) /\ details = {}
    /\ page.stage \in {"sent", "done", "reload"} => page.sent.items[e.at] = e.reading
    /\ \A g \in page.givenup : g.key = Kept => g.items[e.at] = e.reading

Saving == KeyKept /\ OneSave /\ SentIsWritten /\ Standing

ReadingsInv ==
    /\ Readings!TypeOK /\ Numbered /\ Saving
    /\ ToldIsSaved
    /\ \A e \in typed : e.late \/ e.reading \in written \/ OnPage(e)

------------------------------------------------------------------------------
\* Sessions and accounts.

\* An answer under way shows the owner of the token, too.
Shows(t) ==
    \/ tab[t].mixed
    \/ /\ tab[t].user = NoOne \/ token[home[t]] \in {tab[t].user, NoOne}
       /\ tab[t].check = NoOne \/ token[home[t]] \in {tab[t].check, NoOne}

\* What a call may be.
Shape(c) ==
    /\ c.kind = "none" => c = NoCall
    /\ c.kind # "none" => c.shown # NoOne
    /\ c.kind = "change" => c.of = NoOne
    /\ c.kind \in {"reset", "role"} => c.of # NoOne
    /\ c.stage = "hashing" => c.kind = "reset" \/ (c.kind = "change" /\ c.by # NoOne)

\* The one whose new password a call that was carried out will tell.
Tells(c) == IF c.kind = "change" THEN c.shown ELSE c.of

\* One who is not in doubt is meant by one call at most; its answer is awaited, it
\* came from the one who was shown, and it is carried out or not.
Awaited(t, u) ==
    /\ call[t].heard /\ call[t].by \in {call[t].shown, NoOne}
    /\ account[u].password =
         IF call[t].stage = "done" /\ call[t].kind # "role" /\ u = Tells(call[t])
         THEN call[t].word ELSE said[u]

AccountsInv ==
    /\ TypeOK
    /\ \A t \in Tabs : Shows(t) /\ Shape(call[t])
    /\ \A t \in Tabs : \A u \in About(call[t]) \ unsure :
         /\ Awaited(t, u)
         /\ \A s \in Tabs \ {t} : u \notin About(call[s])
    /\ PasswordAsTold
------------------------------------------------------------------------------
\* The page of readings: initial states and steps.

LEMMA ReadingsInit == Readings!Init => ReadingsInv
  <1> SUFFICES ASSUME Readings!Init PROVE ReadingsInv  OBVIOUS
  <1> USE DEF Readings!Init, Readings!Fresh, Readings!NoSave, Readings!Empty, Samples
  <1>1. Readings!TypeOK
    <2>1. Readings!NoSave \in Readings!Save  BY DEF Readings!Save, Readings!Metals
    <2>2. Readings!Fresh \in Readings!Page
      BY <2>1 DEF Readings!Page, Readings!Metals
    <2>3. QED  BY <2>2, ReadingsAssumption DEF Readings!TypeOK, Readings!Metals
  <1>2. Numbered  BY DEF Numbered
  <1>3. Saving /\ ToldIsSaved
    BY DEF Saving, KeyKept, OneSave, Standing, ToldIsSaved, Readings!ToldIsSaved, SentIsWritten, Kept
  <1>4. QED  BY <1>1, <1>2, <1>3 DEF ReadingsInv

\* A step that concerns no save.
LEMMA SavingStays ==
    ASSUME Saving, ToldIsSaved,
           UNCHANGED <<stored, written, logged, wire>>,
           page'.stage = page.stage, page'.sent = page.sent,
           page'.key = page.key, page'.givenup = page.givenup
    PROVE  Saving' /\ ToldIsSaved' /\ Kept' = Kept
  <1>1. Kept' = Kept  BY DEF Kept
  <1>2. (KeyKept /\ OneSave)'  BY DEF Saving, KeyKept, OneSave
  <1>3. SentIsWritten'
    BY <1>1 DEF Saving, SentIsWritten, Served, Written
  <1>4. Standing'
    BY <1>1 DEF Saving, Standing, Alike
  <1>5. ToldIsSaved'
    BY DEF ToldIsSaved, Readings!ToldIsSaved
  <1>6. QED  BY <1>1, <1>2, <1>3, <1>4, <1>5 DEF Saving

\* A test that is shown: nothing else on the page changes.
LEMMA Showing ==
    ASSUME Readings!TypeOK, NEW p \in Readings!Page, NEW t \in Tests \cup {NoTest}
    PROVE  LET q == Readings!Showing(p, t) IN
           /\ q \in Readings!Page
           /\ q.dirty = p.dirty /\ q.stage = p.stage /\ q.sent = p.sent
           /\ q.key = p.key /\ q.givenup = p.givenup
           /\ q.sel = t
           /\ \A s \in Samples : q.rows[s] = stored[s] \/ q.rows[s] = 0
  <1> DEFINE shown == [s \in Samples |-> IF s \in Readings!Of(t) THEN stored[s] ELSE 0]
             over == t \in closed
  <1>1. shown \in [Samples -> Nat] /\ over \in BOOLEAN
    BY DEF Readings!TypeOK, Samples
  <1>2. \A s \in Samples : shown[s] = stored[s] \/ shown[s] = 0
    OBVIOUS
  <1> HIDE DEF shown, over
  <1>3. Readings!Showing(p, t) = [p EXCEPT !.sel = t, !.readonly = over, !.rows = shown]
    BY DEF Readings!Showing, shown, over, Samples
  <1> DEFINE q == [p EXCEPT !.sel = t, !.readonly = over, !.rows = shown]
  <1>4. q \in Readings!Page
    BY <1>1 DEF Readings!Page, Samples
  <1>5. /\ q.dirty = p.dirty /\ q.stage = p.stage /\ q.sent = p.sent
        /\ q.key = p.key /\ q.givenup = p.givenup
        /\ q.sel = t /\ q.rows = shown
    BY DEF Readings!Page
  <1> HIDE DEF q
  <1>6. Readings!Showing(p, t) = q  BY <1>3 DEF q
  <1>7. QED  BY <1>2, <1>4, <1>5, <1>6

\* Choosing: what was entered is given up, or an answer was on its way.
LEMMA ChoosingKeeps ==
    ASSUME ReadingsInv,
           \/ Readings!Enter
           \/ \E m \in Readings!Metals : Readings!Switch(m)
           \/ \E t \in Tests : Readings!Select(t)
    PROVE  ReadingsInv'
  <1> USE DEF ReadingsInv, Readings!Act, Readings!server
  <1>a. /\ page \in Readings!Page /\ typed' = {} /\ entries' = entries + 1
        /\ entries \in Nat /\ entries' \in 0..MaxEntries
        /\ UNCHANGED <<stored, closed, logged, written, wire>>
    <2>1. page \in Readings!Page /\ entries \in 0..MaxEntries
      BY DEF Readings!TypeOK
    <2> DEFINE Beside == /\ typed' = {} /\ entries < MaxEntries /\ entries' = entries + 1
                         /\ UNCHANGED <<stored, closed, logged, written, wire>>
    <2>2. ASSUME Readings!Enter  PROVE Beside
      BY <2>2, Zenon DEF Readings!Enter
    <2>3. ASSUME NEW m \in Readings!Metals, Readings!Switch(m)  PROVE Beside
      BY <2>3, Zenon DEF Readings!Switch
    <2>4. ASSUME NEW t \in Tests, Readings!Select(t)  PROVE Beside
      BY <2>4, Zenon DEF Readings!Select
    <2>5. Beside  BY <2>2, <2>3, <2>4
    <2>6. QED  BY <2>1, <2>5, ReadingsAssumption
  <1>b. Readings!Fresh \in Readings!Page /\ \A s \in Samples : Readings!Empty[s] = 0
    BY DEF Readings!Fresh, Readings!NoSave, Readings!Empty, Readings!Page, Readings!Save,
           Readings!Metals, Samples
  <1>c. Readings!Empty \in [Samples -> Nat]
    BY DEF Readings!Empty, Samples
  <1> DEFINE Emptied ==
        /\ page' \in Readings!Page
        /\ \A s \in Samples : page'.rows[s] = 0
        /\ \/ /\ page'.stage = page.stage /\ page'.sent = page.sent
              /\ page'.key \in {0, page.key} /\ page'.givenup = page.givenup
           \/ /\ page'.stage = "idle" /\ page'.sent = Readings!NoSave
              /\ page'.key = 0 /\ page'.givenup = wire
  <1>1. Emptied
    <2>1. CASE Readings!Enter
      <3>1. wire \subseteq Readings!Save  BY DEF Readings!TypeOK
      <3>2. page' = [Readings!Fresh EXCEPT !.givenup = wire]
        BY <2>1 DEF Readings!Enter
      <3>3. page' \in Readings!Page
        BY <1>b, <3>1, <3>2 DEF Readings!Page
      <3>4. QED  BY <1>b, <3>2, <3>3 DEF Readings!Fresh, Readings!NoSave
    <2>2. ASSUME NEW m \in Readings!Metals, Readings!Switch(m)
          PROVE  Emptied
      <3>1. page' = [page EXCEPT !.metal = m, !.sel = NoTest, !.rows = Readings!Empty, !.dirty = {}]
        BY <2>2, Zenon DEF Readings!Switch
      <3> HIDE DEF Emptied
      <3>2. page' \in Readings!Page
        BY <1>a, <1>c, <3>1 DEF Readings!Page, Samples
      <3>3. /\ page'.rows = Readings!Empty /\ page'.stage = page.stage /\ page'.sent = page.sent
            /\ page'.key = page.key /\ page'.givenup = page.givenup
        BY <1>a, <3>1 DEF Readings!Page
      <3>4. QED  BY <1>b, <3>2, <3>3 DEF Emptied
    <2>3. ASSUME NEW t \in Tests, Readings!Select(t)
          PROVE  Emptied
      BY <1>a, <1>b, <1>c, <2>3 DEF Readings!Select, Readings!Page, Samples
    <2>4. QED  BY <2>1, <2>2, <2>3
  <1>2. Readings!TypeOK'
    <2>1. lists' \subseteq Readings!Metals
      BY DEF Readings!TypeOK, Readings!Metals, Readings!Enter, Readings!Switch, Readings!Select
    <2>2. details' \subseteq [test : Tests, via : Readings!Metals]
      <3>1. page.metal \in Readings!Metals /\ details \subseteq [test : Tests, via : Readings!Metals]
        BY DEF Readings!TypeOK, Readings!Page
      <3>2. details' \subseteq details \cup {[test |-> t, via |-> page.metal] : t \in Tests}
        <4>1. CASE Readings!Enter
          BY <4>1, Zenon DEF Readings!Enter
        <4>2. ASSUME NEW m \in Readings!Metals, Readings!Switch(m)  PROVE details' = details
          BY <4>2, Zenon DEF Readings!Switch
        <4>3. ASSUME NEW t \in Tests, Readings!Select(t)
              PROVE  details' = details \cup {[test |-> t, via |-> page.metal]}
          BY <4>3, Zenon DEF Readings!Select
        <4>4. QED  BY <4>1, <4>2, <4>3
      <3>3. QED  BY <3>1, <3>2
    <2>3. QED  BY <1>a, <1>1, <2>1, <2>2 DEF Readings!TypeOK
  <1>3. Numbered'
    <2>1. /\ \A s \in Samples : stored[s] \in Nat /\ page.sent.items[s] \in Nat
          /\ \A r \in wire, s \in Samples : r.items[s] \in Nat
          /\ \A r \in wire \cup page.givenup : r.key \in Nat
          /\ page.key \in Nat /\ page.sent.key \in Nat /\ logged \subseteq Nat
      BY <1>a DEF Readings!TypeOK, Readings!Page, Readings!Save, Samples
    <2>2. Readings!NoSave.items = Readings!Empty /\ Readings!NoSave.key = 0
      BY DEF Readings!NoSave
    <2>3. QED  BY <1>a, <1>b, <1>1, <2>1, <2>2 DEF Numbered
  <1>4. (Saving /\ ToldIsSaved)'
    <2>1. CASE page'.stage = page.stage /\ page'.sent = page.sent
                 /\ page'.key \in {0, page.key} /\ page'.givenup = page.givenup
      <3>1. Kept' \in {0, Kept}  BY <2>1 DEF Kept
      <3>2. \A g \in page.givenup : g.key # 0  BY DEF Numbered
      <3>3. 0 \notin logged  BY DEF Numbered
      <3>4. (KeyKept /\ OneSave)'  BY <1>a, <2>1 DEF Saving, KeyKept, OneSave
      <3>5. SentIsWritten'
        BY <1>a, <2>1, <3>1, <3>3 DEF Saving, SentIsWritten, Served, Written
      <3>6. Standing'
        BY <1>a, <2>1, <3>1, <3>2 DEF Saving, Standing, Alike
      <3>7. ToldIsSaved'  BY <1>a, <2>1 DEF ToldIsSaved, Readings!ToldIsSaved
      <3>8. QED  BY <3>4, <3>5, <3>6, <3>7 DEF Saving
    <2>2. CASE page'.stage = "idle" /\ page'.key = 0 /\ page'.givenup = wire
      <3>1. Kept' = 0  BY <2>2 DEF Kept
      <3>2. \A g \in wire : g.key # 0  BY DEF Numbered
      <3>3. 0 \notin logged'  BY <1>a DEF Numbered
      <3>4. QED
        BY <1>a, <2>2, <3>1, <3>2, <3>3
           DEF Saving, KeyKept, OneSave, SentIsWritten, Standing, ToldIsSaved, Readings!ToldIsSaved
    <2>3. QED  BY <1>1, <2>1, <2>2
  <1>5. QED  BY <1>a, <1>2, <1>3, <1>4

\* A list, or a test, comes or does not.
LEMMA AnswersKeep ==
    ASSUME ReadingsInv,
           \/ \E m \in Readings!Metals : Readings!ListComes(m) \/ Readings!ListFails(m)
           \/ \E d \in details : Readings!DetailComes(d) \/ Readings!DetailFails(d)
    PROVE  ReadingsInv'
  <1> USE DEF ReadingsInv, Readings!server
  <1>a. /\ page \in Readings!Page
        /\ lists' \subseteq lists /\ details' \subseteq details
        /\ UNCHANGED <<stored, closed, logged, written, wire, typed, entries>>
    BY DEF Readings!ListComes, Readings!ListFails, Readings!DetailComes, Readings!DetailFails, Readings!TypeOK
  <1> DEFINE Shown ==
        /\ page' \in Readings!Page
        /\ \A s \in Samples : page'.rows[s] \in {0, stored[s], page.rows[s]}
        /\ page'.stage = page.stage /\ page'.sent = page.sent
        /\ page'.key = page.key /\ page'.givenup = page.givenup
        /\ page'.dirty = page.dirty
        /\ details = {} => page'.rows = page.rows /\ page'.sel = page.sel
  <1>1. Shown
    <2>1. ASSUME NEW m \in Readings!Metals, Readings!ListComes(m) \/ Readings!ListFails(m)
          PROVE  Shown
      BY <1>a, <2>1 DEF Readings!ListComes, Readings!ListFails, Readings!Page
    <2>2. ASSUME NEW d \in details, Readings!DetailFails(d)
          PROVE  Shown
      BY <1>a, <2>2 DEF Readings!DetailFails, Readings!Page
    <2>3. ASSUME NEW d \in details, Readings!DetailComes(d)
          PROVE  Shown
      <3> DEFINE p == IF d.via = Readings!Metal(d.test) THEN Readings!Showing(page, d.test) ELSE page
      <3>1. d.test \in Tests
        BY DEF Readings!TypeOK
      <3>2. /\ p \in Readings!Page /\ p.dirty = page.dirty /\ p.stage = page.stage
            /\ p.sent = page.sent /\ p.key = page.key /\ p.givenup = page.givenup
            /\ \A s \in Samples : p.rows[s] \in {0, stored[s], page.rows[s]}
        BY <1>a, <3>1, Showing
      <3>3. page' = [p EXCEPT !.loading = FALSE]
        BY <2>3 DEF Readings!DetailComes
      <3> HIDE DEF p
      <3>4. QED  BY <3>2, <3>3 DEF Readings!Page
    <2>4. QED  BY <2>1, <2>2, <2>3
  <1>2. Readings!TypeOK'
    BY <1>a, <1>1 DEF Readings!TypeOK
  <1>3. Numbered'
    BY <1>a, <1>1 DEF Numbered, Readings!TypeOK
  <1>4. (Saving /\ ToldIsSaved)' /\ Kept' = Kept
    BY <1>a, <1>1, SavingStays
  <1>5. \A e \in typed' : e.late \/ e.reading \in written' \/ OnPage(e)'
    BY <1>a, <1>1, <1>4 DEF OnPage
  <1>6. QED  BY <1>2, <1>3, <1>4, <1>5

LEMMA TypeKeeps ==
    ASSUME ReadingsInv, NEW s \in Samples, Readings!Type(s)
    PROVE  ReadingsInv'
  <1> USE DEF ReadingsInv, Readings!Act, Readings!server
  <1>a. page \in Readings!Page /\ entries \in Nat /\ entries' = entries + 1 /\ entries' \in 0..MaxEntries
        /\ page.sel # NoTest /\ s \in Readings!Of(page.sel)
        /\ UNCHANGED <<stored, closed, logged, written, lists, details, wire>>
    BY ReadingsAssumption DEF Readings!Type, Readings!TypeOK, Readings!Editable
  <1> DEFINE late == page.stage # "idle" \/ details # {} \/ Readings!Spent
             new == [at |-> s, reading |-> entries + 1, late |-> late]
  <1>b. late \in BOOLEAN  BY DEF Readings!Spent
  <1>c. page' = [page EXCEPT !.rows[s] = entries + 1, !.dirty = page.dirty \cup {s}]
        /\ typed' = {e \in typed : e.at # s} \cup {new}
    BY DEF Readings!Type
  <1>d. late \/ (page.stage = "idle" /\ details = {} /\ \A g \in page.givenup : g.key # Kept)
    BY DEF Readings!Spent, Kept
  <1>e. new.at = s /\ new.reading = entries + 1 /\ new.late = late
    OBVIOUS
  <1>f. new \in [at : Samples, reading : Nat, late : BOOLEAN]
    BY <1>a, <1>b
  <1> HIDE DEF new, late
  <1>1. /\ page' \in Readings!Page
        /\ page'.rows = [page.rows EXCEPT ![s] = entries + 1]
        /\ page'.dirty = page.dirty \cup {s} /\ page'.sel = page.sel
        /\ page'.stage = page.stage /\ page'.sent = page.sent
        /\ page'.key = page.key /\ page'.givenup = page.givenup
    <2>1. [page.rows EXCEPT ![s] = entries + 1] \in [Samples -> Nat]
      BY <1>a DEF Readings!Page, Samples
    <2>2. page' = [page EXCEPT !.rows = [page.rows EXCEPT ![s] = entries + 1],
                               !.dirty = page.dirty \cup {s}]
      BY <1>a, <1>c DEF Readings!Page
    <2>3. QED  BY <1>a, <2>1, <2>2 DEF Readings!Page, Samples
  <1>2. Readings!TypeOK'
    BY <1>a, <1>c, <1>f, <1>1 DEF Readings!TypeOK, Samples
  <1>3. Numbered'
    <2>1. page.rows \in [Samples -> Nat]
      BY <1>a DEF Readings!Page, Samples
    <2>2. page.sent \in Readings!Save
      BY <1>a DEF Readings!Page
    <2>3. /\ \A z \in Samples : stored[z] \in Nat /\ page.rows[z] \in Nat /\ page.sent.items[z] \in Nat
          /\ \A r \in wire, z \in Samples : r.items[z] \in Nat
          /\ \A r \in wire \cup page.givenup : r.key \in Nat
          /\ page.key \in Nat /\ page.sent.key \in Nat /\ logged \subseteq Nat
      BY <1>a, <2>1, <2>2 DEF Readings!TypeOK, Readings!Page, Readings!Save, Samples
    <2>4. QED  BY <1>a, <1>1, <2>1, <2>3 DEF Numbered
  <1>4. (Saving /\ ToldIsSaved)' /\ Kept' = Kept
    BY <1>a, <1>1, SavingStays
  <1>7. ASSUME NEW e \in typed'  PROVE  e.late \/ e.reading \in written' \/ OnPage(e)'
    <2>1. CASE e = new
      BY <1>a, <1>d, <1>e, <1>1, <1>4, <2>1 DEF OnPage, Readings!Page, Samples
    <2>2. CASE e \in typed /\ e.at # s
      BY <1>a, <1>1, <1>4, <2>2 DEF OnPage, Readings!Page, Samples
    <2>3. QED  BY <1>c, <2>1, <2>2
  <1>8. QED  BY <1>2, <1>3, <1>4, <1>7

LEMMA SavePressKeeps ==
    ASSUME ReadingsInv, Readings!Press
    PROVE  ReadingsInv'
  <1> USE DEF ReadingsInv, Readings!Act, Readings!server
  <1> DEFINE sending == page.dirty \cap Readings!Of(page.sel)
             items == [s \in Samples |-> IF s \in sending THEN page.rows[s] ELSE 0]
             key == IF page.key = 0 THEN entries + 1 ELSE page.key
             r == [test |-> page.sel, via |-> page.metal, items |-> items, no |-> entries + 1, key |-> key]
  <1>a. page \in Readings!Page /\ page.stage = "idle"
        /\ entries \in Nat /\ entries' = entries + 1 /\ entries' \in 0..MaxEntries
        /\ UNCHANGED <<stored, closed, logged, written, lists, details, typed>>
    BY ReadingsAssumption DEF Readings!Press, Readings!TypeOK
  <1>b. page' = [page EXCEPT !.stage = "sent", !.sent = r, !.key = key] /\ wire' = wire \cup {r}
    BY DEF Readings!Press, Samples
  <1>c. items \in [Samples -> Nat] /\ \A s \in Samples : items[s] <= entries
    BY <1>a DEF Readings!Page, Samples, Numbered
  <1>d. \A s \in Samples : s \in page.dirty /\ s \in Readings!Of(page.sel) => items[s] = page.rows[s]
    OBVIOUS
  <1>k. /\ key \in Nat /\ 0 < key /\ key <= entries + 1 /\ page.key \in Nat
        /\ key = page.key \/ (page.key = 0 /\ key = entries + 1)
    BY <1>a DEF Readings!Page, Numbered
  <1> HIDE DEF items, key
  <1>e. r \in Readings!Save /\ r.items = items /\ r.key = key
    BY <1>a, <1>c, <1>k DEF Readings!Page, Readings!Save, Samples
  <1> HIDE DEF r
  <1>1. /\ page' \in Readings!Page
        /\ page'.rows = page.rows /\ page'.dirty = page.dirty /\ page'.sel = page.sel
        /\ page'.stage = "sent" /\ page'.sent = r
        /\ page'.key = key /\ page'.givenup = page.givenup
    BY <1>a, <1>b, <1>e, <1>k DEF Readings!Page
  <1>2. Readings!TypeOK'
    BY <1>a, <1>b, <1>e, <1>1 DEF Readings!TypeOK
  <1>n. /\ \A x \in wire \cup page.givenup : x.key \in Nat
        /\ logged \subseteq Nat
    BY <1>a DEF Readings!TypeOK, Readings!Page, Readings!Save
  <1>3. Numbered'
    <2>1. page.rows \in [Samples -> Nat]
      BY <1>a DEF Readings!Page, Samples
    <2>2. /\ \A z \in Samples : stored[z] \in Nat /\ page.rows[z] \in Nat /\ items[z] \in Nat
          /\ \A x \in wire, z \in Samples : x.items[z] \in Nat
      BY <1>c, <2>1 DEF Readings!TypeOK, Readings!Save, Samples
    <2>3. QED  BY <1>a, <1>b, <1>c, <1>e, <1>k, <1>n, <1>1, <2>2 DEF Numbered
  <1>f. /\ Kept = page.key /\ Kept' = key
        /\ \A g \in page.givenup : g.key = Kept' => g.key = Kept
        /\ Kept' \in logged => Kept \in logged
        /\ Kept' # Kept => Kept' \notin logged
    <2>1. Kept = page.key /\ Kept' = key  BY <1>a, <1>e, <1>1 DEF Kept
    <2>2. entries + 1 \notin logged /\ \A g \in page.givenup : g.key # entries + 1
      BY <1>a, <1>n DEF Numbered
    <2>3. QED  BY <1>k, <2>1, <2>2
  <1>4. Saving'
    <2>1. (KeyKept /\ OneSave)'  BY <1>a, <1>b, <1>e, <1>1 DEF Saving, KeyKept, OneSave
    <2>2. SentIsWritten'
      BY <1>a, <1>f, <1>1 DEF Saving, SentIsWritten, Served, Written
    <2>3. Standing'
      BY <1>a, <1>f, <1>1 DEF Saving, Standing, Alike
    <2>4. QED  BY <2>1, <2>2, <2>3 DEF Saving
  <1>5. ToldIsSaved'  BY <1>1 DEF ToldIsSaved, Readings!ToldIsSaved
  <1>7. \A e \in typed' : e.late \/ e.reading \in written' \/ OnPage(e)'
    <2>1. \A e \in typed : e.at \in Samples  BY DEF Readings!TypeOK, Samples
    <2>2. QED  BY <1>a, <1>d, <1>e, <1>f, <1>1, <2>1 DEF OnPage
  <1>8. QED  BY <1>2, <1>3, <1>4, <1>5, <1>7

\* A save is carried out, answered from the log, refused or lost on the way.
LEMMA ServedKeeps ==
    ASSUME ReadingsInv, NEW r \in wire,
           Readings!Serve(r) \/ Readings!Refuse(r) \/ Readings!Drop(r)
    PROVE  ReadingsInv'
  <1> USE DEF ReadingsInv, Readings!server
  <1> DEFINE awaited == page.stage = "sent" /\ page.sent = r
             Stays == UNCHANGED <<stored, written, logged>>
             Writes ==
               /\ r.key \notin logged /\ logged' = logged \cup {r.key}
               /\ stored' = [s \in Samples |-> IF r.items[s] # 0 THEN r.items[s] ELSE stored[s]]
               /\ written' = written \cup {r.items[s] : s \in Samples}
  <1>a. /\ page \in Readings!Page /\ r \in Readings!Save /\ wire' = wire \ {r}
        /\ stored \in [Samples -> Nat] /\ r.items \in [Samples -> Nat] /\ r.key \in Nat
        /\ UNCHANGED <<closed, lists, details, typed, entries>>
    BY DEF Readings!Serve, Readings!Refuse, Readings!Drop, Readings!TypeOK, Readings!Save, Samples
  <1>b. Writes \/ Stays
    <2>1. CASE Readings!Serve(r) /\ r.key \notin logged
      BY <2>1 DEF Readings!Serve, Samples
    <2>2. CASE Readings!Serve(r) /\ r.key \in logged
      <3>1. logged' = logged /\ written' = written  BY <2>2 DEF Readings!Serve
      <3>2. stored' = [s \in Samples |-> stored[s]]  BY <2>2 DEF Readings!Serve, Samples
      <3>3. QED  BY <1>a, <3>1, <3>2
    <2>3. CASE Readings!Refuse(r) \/ Readings!Drop(r)
      BY <2>3 DEF Readings!Refuse, Readings!Drop
    <2>4. QED  BY <2>1, <2>2, <2>3
  <1>c. \/ page' = page /\ ~awaited
        \/ awaited /\ page' = [page EXCEPT !.stage = "failed"] /\ Stays
        \/ awaited /\ page' = [page EXCEPT !.stage = "done"] /\ (Writes \/ r.key \in logged)
    <2>1. CASE Readings!Serve(r)
      BY <1>b, <2>1 DEF Readings!Serve, Readings!Answers
    <2>2. CASE Readings!Refuse(r) \/ Readings!Drop(r)
      BY <2>2 DEF Readings!Refuse, Readings!Drop, Readings!Answers
    <2>3. QED  BY <2>1, <2>2
  <1>1. /\ page' \in Readings!Page
        /\ page'.rows = page.rows /\ page'.dirty = page.dirty /\ page'.sel = page.sel
        /\ page'.sent = page.sent /\ page'.key = page.key /\ page'.givenup = page.givenup
        /\ \/ page'.stage = page.stage /\ ~awaited
           \/ awaited /\ page'.stage = "failed" /\ Stays
           \/ awaited /\ page'.stage = "done" /\ (Writes \/ r.key \in logged)
    BY <1>a, <1>c DEF Readings!Page
  <1>d. /\ stored' \in [Samples -> Nat] /\ written \subseteq written'
        /\ written' \subseteq Nat /\ logged \subseteq logged' /\ logged' \subseteq logged \cup {r.key}
        /\ \A s \in Samples : stored'[s] \in {stored[s], r.items[s]}
        /\ Writes => /\ \A s \in Samples : r.items[s] = 0 \/ stored'[s] = r.items[s]
                     /\ Written(r)'
                     /\ r.key \notin logged
        /\ r.key \in logged => stored' = stored
    <2>1. CASE Writes
      <3>1. /\ stored' = [s \in Samples |-> IF r.items[s] # 0 THEN r.items[s] ELSE stored[s]]
            /\ written' = written \cup {r.items[s] : s \in Samples}
            /\ logged' = logged \cup {r.key} /\ r.key \notin logged
        BY <2>1
      <3> HIDE DEF Writes, Stays
      <3>2. \A s \in Samples : r.items[s] \in written'  BY <3>1
      <3>3. written' \subseteq Nat
        BY <1>a, <3>1 DEF Readings!TypeOK
      <3>4. /\ stored' \in [Samples -> Nat]
            /\ \A s \in Samples : stored'[s] = IF r.items[s] # 0 THEN r.items[s] ELSE stored[s]
        BY <1>a, <3>1
      <3>5. QED  BY <3>1, <3>2, <3>3, <3>4 DEF Written
    <2>2. CASE Stays /\ ~Writes
      BY <1>a, <2>2 DEF Readings!TypeOK
    <2>3. QED  BY <1>b, <2>1, <2>2
  <1>g. r \in page.givenup \/ awaited
    BY DEF Saving, OneSave
  <1> HIDE DEF Writes, Stays
  <1>2. Readings!TypeOK'
    <2>1. logged' \subseteq Nat  BY <1>a, <1>d DEF Readings!TypeOK
    <2>2. QED  BY <1>a, <1>d, <1>1, <2>1 DEF Readings!TypeOK, Samples
  <1>3. Numbered'
    BY <1>a, <1>d, <1>1 DEF Numbered
  <1>k. /\ Kept' # Kept => page'.stage = "failed" /\ Kept' = 0
        /\ awaited => Kept = r.key
        /\ 0 \notin logged' /\ \A g \in page.givenup : g.key # 0
    BY <1>a, <1>d, <1>1 DEF Kept, Saving, KeyKept, Numbered
  <1>m. Served(Kept) => Served(Kept)'  \/ Kept' # Kept
    BY <1>d, <1>1 DEF Served, Written
  <1>4. Saving'
    <2>1. (KeyKept /\ OneSave)'
      BY <1>a, <1>1 DEF Saving, KeyKept, OneSave
    <2>2. ASSUME page'.stage \in {"done", "reload"}
          PROVE  Written(page.sent)' \/ Served(page.sent.key)'
      <3>1. Kept' = page.sent.key /\ Kept' = Kept
        BY <1>1, <1>k, <2>2 DEF Kept
      <3>2. CASE ~awaited
        <4>1. Written(page.sent) \/ Served(Kept)
          BY <1>1, <2>2, <3>1, <3>2 DEF Saving, SentIsWritten
        <4>2. Written(page.sent) => Written(page.sent)'
          BY <1>d, <1>1 DEF Written
        <4>3. QED  BY <1>1, <1>m, <3>1, <4>1, <4>2
      <3>3. CASE awaited /\ Writes
        BY <1>d, <1>1, <3>3 DEF Written
      <3>4. CASE awaited /\ r.key \in logged
        <4>1. Served(Kept)
          BY <1>k, <3>4 DEF Saving, SentIsWritten
        <4>2. QED  BY <1>1, <1>m, <3>1, <4>1
      <3>5. QED  BY <1>1, <2>2, <3>2, <3>3, <3>4
    <2>3. ASSUME Kept' \in logged', page'.stage \notin {"done", "reload"}
          PROVE  Served(Kept)'
      <3>1. Kept' = Kept  BY <1>k, <2>3
      <3>2. CASE Kept \in logged
        <4>1. page.stage \notin {"done", "reload"}
          BY <1>1, <2>3
        <4>2. QED  BY <1>m, <3>1, <3>2, <4>1 DEF Saving, SentIsWritten
      <3>3. CASE Kept \notin logged
        <4>1. Kept = r.key /\ Writes  BY <1>b, <1>d, <2>3, <3>1, <3>3 DEF Stays
        <4>2. r \in page.givenup
          BY <1>g, <1>1, <2>3, <4>1, <1>d DEF Stays, Writes
        <4>3. QED  BY <1>d, <1>1, <3>1, <4>1, <4>2 DEF Served, Written
      <3>4. QED  BY <3>2, <3>3
    <2>4. SentIsWritten'
      <3>1. page'.sent = page.sent  BY <1>1
      <3>2. QED  BY <2>2, <2>3, <3>1 DEF SentIsWritten
    <2>5. ASSUME NEW g \in page.givenup, g.key = Kept', Kept' \in logged', Alike(g)', NEW s \in Samples
          PROVE  stored'[s] >= g.items[s]
      <3>1. Kept' = Kept  BY <1>k, <2>5
      <3>2. Alike(g)
        BY <1>1, <2>5 DEF Alike
      <3>3. stored[s] \in Nat /\ stored'[s] \in Nat /\ g.items[s] \in Nat
        BY <1>a, <1>d DEF Readings!Page, Readings!Save, Samples
      <3>4. CASE Writes
        <4>1. r.items = g.items
          BY <1>g, <1>1, <2>5, <3>4, <1>d DEF Alike, Stays, Writes
        <4>2. CASE r.items[s] # 0
          BY <1>d, <3>3, <3>4, <4>1, <4>2
        <4>3. CASE r.items[s] = 0
          BY <3>3, <4>1, <4>3
        <4>4. QED  BY <4>2, <4>3
      <3>5. CASE Stays
        BY <2>5, <3>1, <3>2, <3>5 DEF Saving, Standing, Stays
      <3>6. QED  BY <1>b, <3>4, <3>5
    <2>6. Standing'
      BY <1>1, <2>5 DEF Standing
    <2>7. QED  BY <2>1, <2>4, <2>6 DEF Saving
  <1>5. ToldIsSaved'
    <2> SUFFICES ASSUME page'.stage = "done", \A g \in page.givenup : g.items = page.sent.items,
                        NEW s \in Samples
                 PROVE  stored'[s] >= page.sent.items[s]
      BY <1>1 DEF ToldIsSaved, Readings!ToldIsSaved, Samples
    <2>1. stored[s] \in Nat /\ stored'[s] \in Nat /\ page.sent.items[s] \in Nat
      BY <1>a, <1>d DEF Readings!Page, Readings!Save, Samples
    <2>2. r.items = page.sent.items  BY <1>g
    <2>3. CASE Writes
      BY <1>d, <2>1, <2>2, <2>3
    <2>4. CASE Stays /\ ~awaited
      BY <1>1, <2>4 DEF ToldIsSaved, Readings!ToldIsSaved, Stays, Samples
    <2>5. CASE Stays /\ awaited /\ r.key \in logged
      <3>1. PICK g \in page.givenup : g.key = Kept
        BY <1>k, <2>5 DEF Saving, SentIsWritten, Served
      <3>2. Alike(g)  BY <2>5 DEF Alike
      <3>3. stored[s] >= g.items[s]
        BY <1>k, <2>5, <3>1, <3>2 DEF Saving, Standing
      <3>4. QED  BY <2>5, <3>3 DEF Stays
    <2>6. QED  BY <1>b, <1>1, <2>3, <2>4, <2>5
  <1>7. \A e \in typed' : e.late \/ e.reading \in written' \/ OnPage(e)'
    <2>1. \A g \in page.givenup : g.key = Kept' => g.key = Kept
      BY <1>k
    <2>2. ASSUME NEW e \in typed, OnPage(e)  PROVE OnPage(e)'
      <3>1. page'.stage \in {"sent", "done", "reload"} => page.stage \in {"sent", "done", "reload"}
        BY <1>1
      <3>2. QED  BY <1>a, <1>1, <2>1, <2>2, <3>1 DEF OnPage
    <2>3. typed' = typed /\ written \subseteq written'  BY <1>a, <1>d
    <2>4. QED  BY <2>2, <2>3
  <1>8. QED  BY <1>2, <1>3, <1>4, <1>5, <1>7

\* How a save ends on the page.
LEMMA EndingKeeps ==
    ASSUME ReadingsInv,
           \/ Readings!GiveUp \/ Readings!Failure \/ Readings!Success
           \/ Readings!Reload \/ Readings!ReloadFails
    PROVE  ReadingsInv'
  <1> USE DEF ReadingsInv, Readings!server
  <1>a. page \in Readings!Page
        /\ UNCHANGED <<stored, closed, logged, written, lists, details, wire, typed, entries>>
    BY DEF Readings!GiveUp, Readings!Failure, Readings!Success, Readings!Reload,
           Readings!ReloadFails, Readings!TypeOK
  <1>b. /\ Readings!NoSave \in Readings!Save
        /\ \A s \in Samples : Readings!NoSave.items[s] = 0
        /\ Readings!NoSave.key = 0
    BY DEF Readings!NoSave, Readings!Save, Readings!Empty, Readings!Metals, Samples
  <1> DEFINE GivenUp ==
        /\ page.stage \in {"sent", "done"} /\ page'.stage = "failed"
        /\ page'.sent = page.sent /\ page'.key = page.key
        /\ page'.givenup = page.givenup \cup {page.sent}
  <1> DEFINE Ended ==
        /\ page' \in Readings!Page
        /\ \A s \in Samples : page'.rows[s] \in {0, stored[s], page.rows[s]}
        /\ \/ GivenUp
           \/ /\ page'.stage = "idle" /\ page'.sent = Readings!NoSave
              /\ page'.key = page.key /\ page'.givenup = page.givenup
              /\ page.stage \in {"failed", "reload"}
           \/ /\ page.stage = "done" /\ page'.stage = "reload" /\ page'.sent = page.sent
              /\ page'.key = 0 /\ page'.givenup = page.givenup
        /\ \/ page'.rows = page.rows /\ page'.dirty = page.dirty /\ page'.sel = page.sel
              /\ page'.stage \notin {"sent", "done", "reload"}
           \/ page.stage \in {"done", "reload"}
  <1>1. Ended
    <2>1. CASE Readings!GiveUp
      BY <1>a, <2>1 DEF Readings!GiveUp, Readings!Page
    <2>2. CASE Readings!Failure
      BY <1>a, <1>b, <2>2 DEF Readings!Failure, Readings!Page
    <2>3. CASE Readings!Success
      BY <1>a, <2>3 DEF Readings!Success, Readings!Page
    <2>4. CASE Readings!Reload
      <3> DEFINE p == Readings!Showing(page, page.sent.test)
      <3>1. page.sent.test \in Tests \cup {NoTest}
        BY <1>a DEF Readings!Page, Readings!Save
      <3>2. /\ p \in Readings!Page /\ p.key = page.key /\ p.givenup = page.givenup
            /\ \A s \in Samples : p.rows[s] \in {0, stored[s], page.rows[s]}
        BY <1>a, <3>1, Showing
      <3>3. page' = [p EXCEPT !.stage = "idle", !.sent = Readings!NoSave] /\ page.stage = "reload"
        BY <2>4 DEF Readings!Reload
      <3> HIDE DEF p
      <3>4. QED  BY <1>b, <3>2, <3>3 DEF Readings!Page
    <2>5. CASE Readings!ReloadFails
      BY <1>a, <1>b, <2>5 DEF Readings!ReloadFails, Readings!Page
    <2>6. QED  BY <2>1, <2>2, <2>3, <2>4, <2>5
  <1>2. Readings!TypeOK'
    BY <1>a, <1>1 DEF Readings!TypeOK
  <1>n. /\ page.key \in Nat /\ page.sent.key \in Nat /\ entries \in Nat
        /\ \A g \in page.givenup : g.key \in Nat
        /\ \A g \in page'.givenup : g \in page.givenup \/ (g = page.sent /\ page.stage \in {"sent", "done"})
    BY <1>a, <1>1 DEF Readings!TypeOK, Readings!Page, Readings!Save
  <1>3. Numbered'
    BY <1>a, <1>b, <1>n, <1>1 DEF Numbered, Readings!TypeOK
  <1>k. /\ Kept' # Kept => Kept' = 0
        /\ 0 \notin logged /\ \A g \in page'.givenup : g.key # 0
    BY <1>n, <1>1 DEF Kept, Saving, KeyKept, Numbered
  <1>m. Kept' = Kept /\ Served(Kept) => Served(Kept)'
    BY <1>a, <1>1 DEF Served, Written
  <1>4. Saving'
    <2>1. (KeyKept /\ OneSave)'
      BY <1>a, <1>1 DEF Saving, KeyKept, OneSave
    <2>2. ASSUME page'.stage \in {"done", "reload"}
          PROVE  Written(page.sent)' \/ Served(page.sent.key)'
      BY <1>a, <1>1, <2>2 DEF Saving, SentIsWritten, Served, Written
    <2>3. ASSUME Kept' \in logged', page'.stage \notin {"done", "reload"}
          PROVE  Served(Kept)'
      <3>1. Kept' = Kept  BY <1>a, <1>k, <2>3
      <3>2. page.stage # "reload"
        BY <1>a, <1>1, <1>k, <2>3 DEF Kept, Saving, KeyKept
      <3>3. CASE page.stage = "done"
        <4>1. GivenUp /\ Kept = page.sent.key  BY <1>1, <2>3, <3>3 DEF Kept
        <4>2. Written(page.sent) \/ Served(Kept)  BY <3>3, <4>1 DEF Saving, SentIsWritten
        <4>3. Written(page.sent) => Served(Kept)'
          BY <1>a, <3>1, <4>1 DEF Served, Written
        <4>4. QED  BY <1>m, <3>1, <4>2, <4>3
      <3>4. CASE page.stage \notin {"done", "reload"}
        <4>1. Served(Kept)  BY <1>a, <2>3, <3>1, <3>4 DEF Saving, SentIsWritten
        <4>2. QED  BY <1>m, <3>1, <4>1
      <3>5. QED  BY <3>2, <3>3, <3>4
    <2>4. SentIsWritten'
      BY <2>2, <2>3 DEF SentIsWritten
    <2>5. ASSUME NEW g \in page'.givenup, g.key = Kept', Kept' \in logged', Alike(g)', NEW s \in Samples
          PROVE  stored[s] >= g.items[s]
      <3>1. Kept' = Kept /\ Kept \in logged  BY <1>a, <1>k, <2>5
      <3>2. \A h \in page.givenup : h.items = g.items
        BY <1>1, <2>5 DEF Alike
      <3>3. page.stage \in {"done", "reload"} => page.sent.items = g.items
        <4>1. CASE GivenUp
          BY <2>5, <4>1 DEF Alike
        <4>2. CASE page.stage = "done" /\ page'.stage = "reload" /\ page'.sent = page.sent
          BY <2>5, <4>2 DEF Alike
        <4>3. CASE page.stage \in {"failed", "reload"} /\ page'.stage = "idle" /\ page'.key = page.key
          BY <1>k, <2>5, <4>3, <1>a DEF Kept, Saving, KeyKept
        <4>4. QED  BY <1>1, <4>1, <4>2, <4>3
      <3>4. CASE g \in page.givenup
        BY <2>5, <3>1, <3>2, <3>3, <3>4 DEF Saving, Standing, Alike
      <3>5. CASE g = page.sent /\ page.stage = "done"
        BY <3>2, <3>5 DEF ToldIsSaved, Readings!ToldIsSaved, Samples
      <3>6. CASE g = page.sent /\ page.stage = "sent"
        <4>1. PICK h \in page.givenup : h.key = Kept
          BY <3>1, <3>6 DEF Saving, SentIsWritten, Served
        <4>2. Alike(h) /\ h.items = g.items
          BY <3>2, <3>6, <4>1 DEF Alike
        <4>3. QED  BY <3>1, <4>1, <4>2 DEF Saving, Standing
      <3>7. QED  BY <1>n, <3>4, <3>5, <3>6
    <2>6. Standing'
      BY <1>a, <2>5 DEF Standing
    <2>7. QED  BY <2>1, <2>4, <2>6 DEF Saving
  <1>5. ToldIsSaved'
    BY <1>1 DEF ToldIsSaved, Readings!ToldIsSaved
  <1>7. ASSUME NEW e \in typed'  PROVE  e.late \/ e.reading \in written' \/ OnPage(e)'
    <2>1. e.at \in Samples /\ e \in typed  BY <1>a DEF Readings!TypeOK, Samples
    <2>2. CASE page.stage \in {"done", "reload"}
      <3>1. OnPage(e) => e.reading \in written
        BY <2>1, <2>2 DEF OnPage, Kept, Saving, SentIsWritten, Served, Written
      <3>2. QED  BY <1>a, <2>1, <3>1
    <2>3. CASE page.stage \notin {"done", "reload"}
      <3>1. ASSUME OnPage(e)  PROVE OnPage(e)'
        <4>1. \A g \in page'.givenup : g.key = Kept' => g.key = Kept  BY <1>k
        <4>2. \A g \in page'.givenup : g.key = Kept' => g.items[e.at] = e.reading
          BY <1>n, <2>3, <3>1, <4>1 DEF OnPage
        <4>3. QED  BY <1>a, <1>1, <2>3, <3>1, <4>2 DEF OnPage
      <3>2. QED  BY <1>a, <2>1, <3>1
    <2>4. QED  BY <2>2, <2>3
  <1>8. QED  BY <1>2, <1>3, <1>4, <1>5, <1>7

LEMMA OthersKeep ==
    ASSUME ReadingsInv,
           \/ \E s \in Samples : Readings!OtherSaves(s)
           \/ \E t \in Tests : Readings!OtherCloses(t)
    PROVE  ReadingsInv'
  <1> USE DEF ReadingsInv, Readings!Act, Readings!server
  <1> DEFINE Beside ==
        /\ entries \in Nat /\ entries' = entries + 1 /\ entries' \in 0..MaxEntries
        /\ UNCHANGED <<page, logged, lists, details, wire, typed, written>>
        /\ closed' \subseteq Tests /\ stored' \in [Samples -> Nat]
        /\ \A s \in Samples : stored'[s] \in {stored[s], entries + 1}
  <1>a. Beside
    <2>1. entries \in 0..MaxEntries /\ stored \in [Samples -> Nat] /\ closed \subseteq Tests
      BY DEF Readings!TypeOK, Samples
    <2>2. ASSUME NEW s \in Samples, Readings!OtherSaves(s)  PROVE  Beside
      BY <2>1, <2>2, ReadingsAssumption DEF Readings!OtherSaves
    <2>3. ASSUME NEW t \in Tests, Readings!OtherCloses(t)  PROVE  Beside
      BY <2>1, <2>3, ReadingsAssumption DEF Readings!OtherCloses
    <2>4. QED  BY <2>2, <2>3
  <1>b. \A s \in Samples : /\ stored[s] \in Nat /\ page.rows[s] \in Nat /\ page.sent.items[s] \in Nat
                           /\ \A r \in wire \cup page.givenup : r.items[s] \in Nat /\ r.key \in Nat
    BY DEF Readings!TypeOK, Readings!Page, Readings!Save, Samples
  <1>c. logged \subseteq Nat /\ page.key \in Nat /\ page.sent.key \in Nat
        /\ \A r \in wire \cup page.givenup : r.key \in Nat
    BY DEF Readings!TypeOK, Readings!Page, Readings!Save, Samples
  <1>2. Readings!TypeOK'
    BY <1>a DEF Readings!TypeOK, Samples
  <1>3. Numbered'
    BY <1>a, <1>b, <1>c DEF Numbered
  <1>d. \A s \in Samples : stored'[s] >= stored[s] /\ stored'[s] \in Nat /\ stored[s] \in Nat
    BY <1>a, <1>b DEF Numbered
  <1>4. ToldIsSaved'
    BY <1>a, <1>b, <1>d DEF ToldIsSaved, Readings!ToldIsSaved, Samples
  <1>5. Kept' = Kept  BY <1>a DEF Kept
  <1>6. Saving'
    <2>1. (KeyKept /\ OneSave /\ SentIsWritten)'
      BY <1>a, <1>5 DEF Saving, KeyKept, OneSave, SentIsWritten, Served, Written
    <2>2. Standing'
      BY <1>a, <1>b, <1>d, <1>5 DEF Saving, Standing, Alike
    <2>3. QED  BY <2>1, <2>2 DEF Saving
  <1>7. \A e \in typed' : e.late \/ e.reading \in written' \/ OnPage(e)'
    BY <1>a, <1>5 DEF OnPage
  <1>8. QED  BY <1>2, <1>3, <1>4, <1>6, <1>7

LEMMA ReadingsStep == ReadingsInv /\ [Readings!Next]_(Readings!vars) => ReadingsInv'
  <1> SUFFICES ASSUME ReadingsInv, [Readings!Next]_(Readings!vars) PROVE ReadingsInv'  OBVIOUS
  <1>1. CASE UNCHANGED Readings!vars
    <2>1. (Saving /\ ToldIsSaved)' /\ Kept' = Kept
      BY <1>1, SavingStays DEF Readings!vars, ReadingsInv
    <2>2. QED
      BY <1>1, <2>1 DEF Readings!vars, ReadingsInv, Readings!TypeOK, Numbered, OnPage
  <1>2. CASE Readings!Next
    BY <1>2, ChoosingKeeps, AnswersKeep, TypeKeeps, SavePressKeeps, ServedKeeps, EndingKeeps, OthersKeep
       DEF Readings!Next, Samples
  <1>3. QED  BY <1>1, <1>2
------------------------------------------------------------------------------
\* Sessions: what is shown.

LEMMA GateKeeps ==
    ASSUME NEW b \in Tab
    PROVE  /\ Gate(b) \in Tab
           /\ Gate(b).user = b.user /\ Gate(b).check = b.check /\ Gate(b).mixed = b.mixed
  BY DEF Gate, Tab

LEMMA OpenedIs ==
    ASSUME NEW owner \in Somebody, NEW p \in {"login", "app"}
    PROVE  /\ Opened(owner, p) \in Tab
           /\ Opened(owner, p).user = NoOne /\ Opened(owner, p).check = owner
           /\ ~Opened(owner, p).mixed
  <1> DEFINE b == [page |-> p, user |-> NoOne, role |-> "staff", loading |-> owner # NoOne,
                   check |-> owner, login |-> NoLogin, mixed |-> FALSE]
  <1>1. b \in Tab  BY DEF Tab, NoLogin, Somebody, Role
  <1>2. b.user = NoOne /\ b.check = owner /\ ~b.mixed  OBVIOUS
  <1> HIDE DEF b
  <1>3. Opened(owner, p) = Gate(b)  BY DEF Opened, b
  <1>4. QED  BY <1>1, <1>2, <1>3, GateKeeps

\* A tab changes, and may have taken the token of its browser away.
LEMMA TabChanges ==
    ASSUME AccountsInv, NEW t \in Tabs, NEW new \in Tab,
           tab' = [tab EXCEPT ![t] = new], home' = home,
           token' = token \/ token' = [token EXCEPT ![home[t]] = NoOne],
           new.mixed \/ /\ new.user = NoOne \/ token'[home[t]] \in {new.user, NoOne}
                        /\ new.check = NoOne \/ token'[home[t]] \in {new.check, NoOne}
    PROVE  /\ tab' \in [Tabs -> Tab] /\ token' \in [Browsers -> Somebody]
           /\ \A s \in Tabs : Shows(s)'
  <1>1. tab \in [Tabs -> Tab] /\ token \in [Browsers -> Somebody] /\ home \in [Tabs -> Browsers]
    BY DEF AccountsInv, TypeOK
  <1>2. \A b \in Browsers : token'[b] \in {token[b], NoOne}
    BY <1>1
  <1>3. tab' \in [Tabs -> Tab] /\ token' \in [Browsers -> Somebody]
    BY <1>1 DEF Somebody
  <1>4. \A s \in Tabs : Shows(s)'
    BY <1>1, <1>2 DEF AccountsInv, Shows
  <1>5. QED  BY <1>3, <1>4

\* What only concerns sessions keeps everything that is known of accounts.
LEMMA SessionKeeps ==
    ASSUME AccountsInv, tab' \in [Tabs -> Tab], token' \in [Browsers -> Somebody],
           \A s \in Tabs : Shows(s)',
           UNCHANGED <<account, home, call, said, unsure>>, acts' \in 0..MaxActs
    PROVE  AccountsInv'
  BY DEF AccountsInv, TypeOK, Awaited, PasswordAsTold

LEMMA ActIs ==
    ASSUME TypeOK, Act
    PROVE  acts \in Nat /\ acts' = acts + 1 /\ acts' \in 0..MaxActs
  BY AccountsAssumption DEF TypeOK, Act

LEMMA SessionSteps ==
    ASSUME AccountsInv, NEW t \in Tabs,
           \/ CheckAnswered(t) \/ CheckFailed(t)
           \/ \E u \in Users : SignIn(t, u, said[u])
           \/ SignInFails(t) \/ SignOut(t)
    PROVE  AccountsInv'
  <1>a. /\ tab \in [Tabs -> Tab] /\ tab[t] \in Tab /\ token \in [Browsers -> Somebody]
        /\ home[t] \in Browsers /\ Shows(t) /\ TypeOK /\ acts \in 0..MaxActs
    BY DEF AccountsInv, TypeOK
  <1>b. \A u \in Users : account[u].role \in Role
    BY DEF AccountsInv, TypeOK
  <1>1. CASE CheckAnswered(t)
    <2> DEFINE u == tab[t].check
               b == [tab[t] EXCEPT !.user = u, !.role = account[u].role,
                                   !.loading = FALSE, !.check = NoOne]
    <2>1. u # NoOne /\ u \in Users
      BY <1>a, <1>1 DEF CheckAnswered, Tab, Somebody
    <2>2. b \in Tab /\ b.user = u /\ b.check = NoOne /\ b.mixed = tab[t].mixed
      BY <1>a, <1>b, <2>1 DEF Tab, Somebody
    <2>3. tab' = [tab EXCEPT ![t] = Gate(b)]
      BY <1>a, <1>1 DEF CheckAnswered
    <2> HIDE DEF b
    <2>4. b.mixed \/ /\ b.user = NoOne \/ token[home[t]] \in {b.user, NoOne}
                     /\ b.check = NoOne \/ token[home[t]] \in {b.check, NoOne}
      BY <1>a, <2>1, <2>2 DEF Shows
    <2>5. QED
      BY <1>a, <1>1, <2>2, <2>3, <2>4, GateKeeps, TabChanges, SessionKeeps DEF CheckAnswered
  <1>2. CASE CheckFailed(t)
    <2> DEFINE b == [tab[t] EXCEPT !.loading = FALSE, !.check = NoOne]
    <2>1. b \in Tab /\ b.user = tab[t].user /\ b.check = NoOne
      BY <1>a DEF Tab, Somebody
    <2>2. tab' = [tab EXCEPT ![t] = Gate(b)]
      BY <1>a, <1>2 DEF CheckFailed
    <2> HIDE DEF b
    <2>3. token'[home[t]] = NoOne
      BY <1>a, <1>2 DEF CheckFailed
    <2>4. QED
      BY <1>a, <1>2, <2>1, <2>2, <2>3, GateKeeps, TabChanges, SessionKeeps DEF CheckFailed
  <1>3. ASSUME NEW u \in Users, SignIn(t, u, said[u])
        PROVE  AccountsInv'
    <2> DEFINE l == [who |-> u, ok |-> account[u].password = said[u], role |-> account[u].role]
               b == [tab[t] EXCEPT !.login = l]
    <2>1. l \in [who : Somebody, ok : BOOLEAN, role : Role]
      BY <1>b DEF Somebody
    <2> HIDE DEF l
    <2>2. b \in Tab /\ b.user = tab[t].user /\ b.check = tab[t].check /\ b.mixed = tab[t].mixed
      BY <1>a, <2>1 DEF Tab
    <2>3. tab' = [tab EXCEPT ![t] = b]
      BY <1>a, <1>3 DEF SignIn, l
    <2> HIDE DEF b
    <2>4. acts' \in 0..MaxActs
      BY <1>a, <1>3, ActIs DEF SignIn
    <2>5. b.mixed \/ /\ b.user = NoOne \/ token[home[t]] \in {b.user, NoOne}
                     /\ b.check = NoOne \/ token[home[t]] \in {b.check, NoOne}
      BY <1>a, <2>2 DEF Shows
    <2>6. QED
      BY <1>a, <1>3, <2>2, <2>3, <2>4, <2>5, TabChanges, SessionKeeps DEF SignIn
  <1>4. CASE SignInFails(t)
    <2> DEFINE b == [tab[t] EXCEPT !.login = NoLogin]
    <2>1. NoLogin \in [who : Somebody, ok : BOOLEAN, role : Role]
      BY DEF NoLogin, Somebody, Role
    <2>2. b \in Tab /\ b.user = tab[t].user /\ b.check = tab[t].check /\ b.mixed = tab[t].mixed
      BY <1>a, <2>1 DEF Tab
    <2>3. tab' = [tab EXCEPT ![t] = b]
      BY <1>a, <1>4 DEF SignInFails
    <2> HIDE DEF b
    <2>4. b.mixed \/ /\ b.user = NoOne \/ token[home[t]] \in {b.user, NoOne}
                     /\ b.check = NoOne \/ token[home[t]] \in {b.check, NoOne}
      BY <1>a, <2>2 DEF Shows
    <2>5. QED
      BY <1>a, <1>4, <2>2, <2>3, <2>4, TabChanges, SessionKeeps DEF SignInFails
  <1>5. CASE SignOut(t)
    <2> DEFINE b == [tab[t] EXCEPT !.user = NoOne]
    <2>1. b \in Tab /\ b.user = NoOne /\ b.check = tab[t].check
      BY <1>a DEF Tab, Somebody
    <2>2. tab' = [tab EXCEPT ![t] = Gate(b)]
      BY <1>a, <1>5 DEF SignOut
    <2> HIDE DEF b
    <2>3. token'[home[t]] = NoOne
      BY <1>a, <1>5 DEF SignOut
    <2>4. acts' \in 0..MaxActs
      BY <1>a, <1>5, ActIs DEF SignOut
    <2>5. QED
      BY <1>a, <1>5, <2>1, <2>2, <2>3, <2>4, GateKeeps, TabChanges, SessionKeeps DEF SignOut
  <1>6. QED  BY <1>1, <1>2, <1>3, <1>4, <1>5

\* A sign-in changes the token under the other tabs of the browser.
LEMMA SignInAnsweredKeeps ==
    ASSUME AccountsInv, NEW t \in Tabs, SignInAnswered(t)
    PROVE  AccountsInv'
  <1> DEFINE l == tab[t].login
             mine == [tab[t] EXCEPT !.user = l.who, !.role = l.role, !.page = "app",
                                    !.login = NoLogin, !.mixed = tab[t].check # NoOne]
             beside(s) == tab[s].mixed \/ (home[s] = home[t] /\ Asking(s))
             other(s) == [tab[s] EXCEPT !.mixed = beside(s)]
  <1>a. /\ tab \in [Tabs -> Tab] /\ token \in [Browsers -> Somebody]
        /\ home \in [Tabs -> Browsers] /\ acts \in 0..MaxActs
        /\ \A s \in Tabs : Shows(s) /\ tab[s] \in Tab
    BY DEF AccountsInv, TypeOK
  <1>b. /\ token' = [token EXCEPT ![home[t]] = l.who]
        /\ tab' = [s \in Tabs |-> IF s = t THEN Gate(mine) ELSE other(s)]
        /\ UNCHANGED <<account, home, call, said, unsure, acts>>
    BY DEF SignInAnswered, Stored
  <1>c. l \in [who : Somebody, ok : BOOLEAN, role : Role]
    BY <1>a DEF Tab
  <1>d. mine \in Tab /\ mine.user = l.who /\ mine.check = tab[t].check
        /\ mine.mixed = (tab[t].check # NoOne)
    <2>1. NoLogin \in [who : Somebody, ok : BOOLEAN, role : Role]
      BY DEF NoLogin, Somebody, Role
    <2>2. QED  BY <1>a, <1>c, <2>1 DEF Tab
  <1>e. ASSUME NEW s \in Tabs
        PROVE  /\ other(s) \in Tab /\ other(s).user = tab[s].user /\ other(s).check = tab[s].check
               /\ other(s).mixed = beside(s)
    <2>1. beside(s) \in BOOLEAN  BY <1>a DEF Tab
    <2>2. QED  BY <1>a, <2>1 DEF Tab
  <1> HIDE DEF mine, other, beside, l
  <1>1. token' \in [Browsers -> Somebody]
    BY <1>a, <1>b, <1>c
  <1>2. tab' \in [Tabs -> Tab]
    BY <1>b, <1>d, <1>e, GateKeeps
  <1>3. ASSUME NEW s \in Tabs  PROVE  Shows(s)'
    <2>1. CASE s = t
      <3>1. tab'[t] = Gate(mine) /\ token'[home[t]] = l.who
        BY <1>a, <1>b
      <3>2. QED  BY <1>b, <1>d, <2>1, <3>1, GateKeeps DEF Shows
    <2>2. CASE s # t /\ home[s] = home[t]
      <3>1. tab'[s] = other(s)
        BY <1>b, <2>2
      <3>2. beside(s) = (tab[s].mixed \/ Asking(s))
        BY <1>a, <2>2 DEF beside
      <3>3. QED  BY <1>b, <1>e, <2>2, <3>1, <3>2 DEF Shows, Asking
    <2>3. CASE s # t /\ home[s] # home[t]
      <3>1. tab'[s] = other(s) /\ token'[home[s]] = token[home[s]]
        BY <1>a, <1>b, <2>3
      <3>2. beside(s) = tab[s].mixed
        BY <1>a, <2>3 DEF beside, Tab
      <3>3. QED  BY <1>a, <1>b, <1>e, <3>1, <3>2 DEF Shows
    <2>4. QED  BY <2>1, <2>2, <2>3
  <1>4. QED  BY <1>a, <1>b, <1>1, <1>2, <1>3, SessionKeeps
------------------------------------------------------------------------------
\* Calls: which password opens an account.

LEMMA NoCallIs ==
    NoCall \in Call /\ Shape(NoCall) /\ About(NoCall) = {} /\ ~NoCall.heard
  <1>1. NoCall \in Call
    BY DEF NoCall, Call, Somebody, Role
  <1>2. QED
    BY <1>1, AccountsAssumption DEF NoCall, Shape, About

\* What is known when a call has moved on: the other calls are as they were.
\* d is the call, and what is known of the people it is about.
CallMoved(t, d) ==
    /\ d \in Call /\ call' = [call EXCEPT ![t] = d]
    /\ Shape(d)
    /\ unsure \subseteq unsure' /\ unsure' \subseteq Users
    /\ account' \in [Users -> [password : Nat, role : Role]]
    /\ said' \in [Users -> Nat]

\* A call about the same people, or none any more: only their passwords may be
\* others, or told.
LEMMA CallStep ==
    ASSUME AccountsInv, NEW t \in Tabs, NEW d, CallMoved(t, d),
           tab' \in [Tabs -> Tab], token' \in [Browsers -> Somebody], home' = home,
           \A s \in Tabs : Shows(s)', acts' \in 0..MaxActs,
           About(d) = About(call[t]) \/ About(d) = {},
           \A u \in Users \ (About(call[t]) \ unsure) :
              u \in unsure \/ (account'[u].password = account[u].password /\ said'[u] = said[u]),
           \A u \in About(d) \ unsure' : Awaited(t, u)',
           \A u \in About(call[t]) \ (About(d) \cup unsure') : account'[u].password = said'[u]
    PROVE  AccountsInv'
  <1>a. call \in [Tabs -> Call] /\ home \in [Tabs -> Browsers]
    BY DEF AccountsInv, TypeOK
  <1>b. call'[t] = d /\ \A s \in Tabs \ {t} : call'[s] = call[s]
    BY <1>a DEF CallMoved
  <1>c. \A s \in Tabs : About(call[s]) \subseteq Users /\ About(d) \subseteq Users
    BY DEF About
  <1>d. \A s \in Tabs \ {t} : \A u \in About(call[s]) \ unsure : u \notin About(call[t])
    BY DEF AccountsInv
  <1>1. TypeOK'
    BY <1>a DEF AccountsInv, TypeOK, CallMoved
  <1>2. \A s \in Tabs : Shape(call'[s])
    BY <1>b DEF AccountsInv, CallMoved
  <1>3. ASSUME NEW s \in Tabs, NEW u \in About(call'[s]) \ unsure'
        PROVE  Awaited(s, u)' /\ \A z \in Tabs \ {s} : u \notin About(call'[z])
    <2>1. CASE s = t
      <3>1. u \in About(call[t]) \ unsure
        BY <1>b, <2>1 DEF CallMoved
      <3>2. QED  BY <1>b, <2>1, <3>1 DEF AccountsInv
    <2>2. CASE s # t
      <3>1. u \in About(call[s]) \ unsure /\ u \in Users
        BY <1>b, <1>c, <2>2 DEF CallMoved
      <3>2. account'[u].password = account[u].password /\ said'[u] = said[u]
        BY <1>d, <2>2, <3>1
      <3>3. Awaited(s, u)  BY <3>1 DEF AccountsInv
      <3>4. Awaited(s, u)'
        BY <1>b, <2>2, <3>2, <3>3 DEF Awaited
      <3>5. \A z \in Tabs \ {s} : u \notin About(call[z])
        BY <3>1 DEF AccountsInv
      <3>6. QED  BY <1>b, <2>2, <3>4, <3>5
    <2>3. QED  BY <2>1, <2>2
  <1>4. PasswordAsTold'
    <2> SUFFICES ASSUME NEW u \in Users, u \notin unsure', \A s \in Tabs : u \notin About(call'[s])
                 PROVE  account'[u].password = said'[u]
      BY DEF PasswordAsTold
    <2>1. CASE u \in About(call[t])
      BY <1>b, <2>1
    <2>2. CASE u \notin About(call[t])
      <3>1. \A s \in Tabs : u \notin About(call[s])
        BY <1>b, <2>2
      <3>2. account[u].password = said[u]
        BY <3>1 DEF AccountsInv, PasswordAsTold, CallMoved
      <3>3. QED  BY <2>2, <3>2 DEF CallMoved
    <2>3. QED  BY <2>1, <2>2
  <1>5. QED  BY <1>1, <1>2, <1>3, <1>4 DEF AccountsInv
\* The same call, further on or no longer listened to.
FurtherOn(c, stage) == [c EXCEPT !.stage = stage]
Unheard(c) == [c EXCEPT !.heard = FALSE]

SameCall(c, d) ==
    /\ d \in Call /\ About(d) = About(c)
    /\ d.kind = c.kind /\ d.by = c.by /\ d.shown = c.shown /\ d.of = c.of /\ d.word = c.word

LEMMA FurtherOnIs ==
    ASSUME NEW c \in Call, NEW stage \in {"sent", "hashing", "done", "refused", "unknown"}
    PROVE  /\ SameCall(c, FurtherOn(c, stage))
           /\ FurtherOn(c, stage).stage = stage /\ FurtherOn(c, stage).heard = c.heard
  BY DEF Call, About, FurtherOn, SameCall

LEMMA UnheardIs ==
    ASSUME NEW c \in Call
    PROVE  /\ SameCall(c, Unheard(c))
           /\ Unheard(c).stage = c.stage /\ ~Unheard(c).heard
  BY DEF Call, About, Unheard, SameCall

LEMMA HandleKeeps ==
    ASSUME AccountsInv, NEW t \in Tabs, Handle(t)
    PROVE  AccountsInv'
  <1> DEFINE c == call[t]
  <1>a. /\ call \in [Tabs -> Call] /\ c \in Call /\ Shape(c) /\ c.kind # "none" /\ c.stage = "sent"
        /\ account \in [Users -> [password : Nat, role : Role]]
    BY DEF AccountsInv, TypeOK, Handle
  <1>b. UNCHANGED <<home, token, tab, said, unsure, acts>>
    BY DEF Handle
  <1>c. \E stage \in {"hashing", "done", "refused", "unknown"} :
          /\ call' = [call EXCEPT ![t].stage = stage]
          /\ stage = "hashing" => c.kind = "reset" \/ (c.kind = "change" /\ c.by # NoOne)
          /\ stage = "done" => c.kind = "role"
    BY DEF Handle, Moves
  <1>d. PICK stage \in {"hashing", "done", "refused", "unknown"} :
          /\ call' = [call EXCEPT ![t].stage = stage]
          /\ stage = "hashing" => c.kind = "reset" \/ (c.kind = "change" /\ c.by # NoOne)
          /\ stage = "done" => c.kind = "role"
    BY <1>c
  <1> DEFINE d == FurtherOn(c, stage)
  <1>e. /\ d \in Call /\ About(d) = About(c)
        /\ d.kind = c.kind /\ d.by = c.by /\ d.shown = c.shown /\ d.of = c.of
        /\ d.word = c.word /\ d.stage = stage /\ d.heard = c.heard
    BY <1>a, FurtherOnIs DEF SameCall
  <1>f. call' = [call EXCEPT ![t] = d]
    BY <1>a, <1>d DEF Call, FurtherOn
  <1> HIDE DEF d
  <1>g. /\ account' \in [Users -> [password : Nat, role : Role]]
        /\ \A u \in Users : account'[u].password = account[u].password
    <2>1. CASE UNCHANGED account
      BY <1>a, <2>1
    <2>2. CASE account' = [account EXCEPT ![c.of].role = c.role]
      <3>1. c.role \in Role  BY <1>a DEF Call
      <3>2. QED  BY <1>a, <2>2, <3>1
    <2>3. UNCHANGED account \/ account' = [account EXCEPT ![c.of].role = c.role]
      BY DEF Handle
    <2>4. QED  BY <2>1, <2>2, <2>3
  <1>h. Shape(d)
    BY <1>a, <1>d, <1>e DEF Shape
  <1>1. CallMoved(t, d)
    BY <1>b, <1>e, <1>f, <1>g, <1>h DEF CallMoved, AccountsInv, TypeOK
  <1>2. \A u \in About(d) \ unsure' : Awaited(t, u)'
    <2>1. call'[t] = d
      BY <1>a, <1>f
    <2>2. \A u \in About(c) \ unsure : Awaited(t, u) /\ u \in Users
      BY DEF AccountsInv, About
    <2>3. QED
      BY <1>a, <1>b, <1>d, <1>e, <1>g, <2>1, <2>2 DEF Awaited
  <1>3. /\ tab' \in [Tabs -> Tab] /\ token' \in [Browsers -> Somebody] /\ acts' \in 0..MaxActs
        /\ \A s \in Tabs : Shows(s)'
    BY <1>b DEF AccountsInv, TypeOK, Shows
  <1>4. QED  BY <1>b, <1>e, <1>g, <1>1, <1>2, <1>3, CallStep

LEMMA WriteKeeps ==
    ASSUME AccountsInv, NEW t \in Tabs, Write(t)
    PROVE  AccountsInv'
  <1> DEFINE c == call[t]
  <1>a. /\ call \in [Tabs -> Call] /\ c \in Call /\ Shape(c) /\ c.kind # "none" /\ c.stage = "hashing"
        /\ account \in [Users -> [password : Nat, role : Role]]
    BY DEF AccountsInv, TypeOK, Write
  <1>b. UNCHANGED <<home, token, tab, said, unsure, acts>>
    BY DEF Write
  <1> DEFINE d == FurtherOn(c, "done")
  <1>c. /\ d \in Call /\ About(d) = About(c)
        /\ d.kind = c.kind /\ d.by = c.by /\ d.shown = c.shown /\ d.of = c.of
        /\ d.word = c.word /\ d.stage = "done" /\ d.heard = c.heard
    BY <1>a, FurtherOnIs DEF SameCall
  <1>d. call' = [call EXCEPT ![t] = d]
    BY <1>a DEF Call, Write, Moves, FurtherOn
  <1> HIDE DEF d
  <1>e. Row(c) \in About(c) /\ Row(c) \in Users /\ c.word \in Nat
    BY <1>a DEF Row, About, Shape, Call, Somebody
  <1>f. \A u \in About(c) \ unsure : (u = Row(c) <=> u = Tells(c)) /\ c.kind # "role"
    <2>1. \A u \in About(c) \ unsure : c.by \in {c.shown, NoOne} /\ u # NoOne
      BY AccountsAssumption DEF AccountsInv, Awaited, About
    <2>2. QED  BY <1>a, <2>1 DEF Row, Tells, Shape, About
  <1>g. /\ account' \in [Users -> [password : Nat, role : Role]]
        /\ \A u \in Users : account'[u].password = IF u = Row(c) THEN c.word ELSE account[u].password
    BY <1>a, <1>e DEF Write
  <1>h. Shape(d)
    BY <1>a, <1>c DEF Shape
  <1>1. CallMoved(t, d)
    BY <1>b, <1>c, <1>d, <1>g, <1>h DEF CallMoved, AccountsInv, TypeOK
  <1>2. \A u \in About(d) \ unsure' : Awaited(t, u)'
    <2>1. call'[t] = d
      BY <1>a, <1>d
    <2>2. \A u \in About(c) \ unsure : Awaited(t, u) /\ u \in Users
      BY DEF AccountsInv, About
    <2>3. Tells(d) = Tells(c)
      BY <1>c DEF Tells
    <2>4. QED
      BY <1>a, <1>b, <1>c, <1>f, <1>g, <2>1, <2>2, <2>3 DEF Awaited
  <1>3. /\ tab' \in [Tabs -> Tab] /\ token' \in [Browsers -> Somebody] /\ acts' \in 0..MaxActs
        /\ \A s \in Tabs : Shows(s)'
    BY <1>b DEF AccountsInv, TypeOK, Shows
  <1>4. QED  BY <1>b, <1>c, <1>e, <1>g, <1>1, <1>2, <1>3, CallStep

\* The call is over: the answer came, or nobody was listening.
LEMMA EndsKeep ==
    ASSUME AccountsInv, NEW t \in Tabs, Answered(t) \/ Over(t)
    PROVE  AccountsInv'
  <1> DEFINE c == call[t]
             tells == Answered(t) /\ c.stage = "done" /\ c.kind # "role"
  <1>a. /\ call \in [Tabs -> Call] /\ c \in Call /\ Shape(c) /\ c.kind # "none"
        /\ said \in [Users -> Nat] /\ call' = [call EXCEPT ![t] = NoCall]
    BY NoCallIs DEF AccountsInv, TypeOK, Answered, Over, Shape
  <1>b. UNCHANGED <<account, home, token, tab, unsure, acts>>
    BY DEF Answered, Over
  <1>c. tells => Tells(c) \in About(c) /\ Tells(c) \in Users
    BY <1>a DEF Tells, About, Shape, Call, Somebody
  <1>d. /\ said' \in [Users -> Nat]
        /\ \A u \in Users : said'[u] = IF tells /\ u = Tells(c) THEN c.word ELSE said[u]
    <2>1. CASE tells
      BY <1>a, <1>c, <2>1 DEF Answered, Tells, Call
    <2>2. CASE ~tells
      BY <1>a, <2>2 DEF Answered, Over
    <2>3. QED  BY <2>1, <2>2
  <1>1. CallMoved(t, NoCall)
    BY <1>a, <1>b, <1>d, NoCallIs DEF CallMoved, AccountsInv, TypeOK
  <1>2. \A u \in About(c) \ unsure : account[u].password = said'[u]
    <2> SUFFICES ASSUME NEW u \in About(c) \ unsure
                 PROVE  account[u].password = said'[u]
      OBVIOUS
    <2>1. Awaited(t, u) /\ u \in Users
      BY DEF AccountsInv, About
    <2>2. Answered(t)
      BY <2>1 DEF Awaited, Over
    <2>3. QED  BY <1>d, <2>1, <2>2 DEF Awaited
  <1>3. /\ tab' \in [Tabs -> Tab] /\ token' \in [Browsers -> Somebody] /\ acts' \in 0..MaxActs
        /\ \A s \in Tabs : Shows(s)'
    BY <1>b DEF AccountsInv, TypeOK, Shows
  <1>4. QED  BY <1>b, <1>c, <1>d, <1>1, <1>2, <1>3, NoCallIs, CallStep

\* Nobody listens any more: whom the call is about is in doubt.
LEMMA UnheardKeeps ==
    ASSUME AccountsInv, NEW t \in Tabs,
           call' = [call EXCEPT ![t].heard = FALSE],
           unsure' = IF call[t].heard THEN unsure \cup About(call[t]) ELSE unsure,
           UNCHANGED <<account, home, said>>,
           tab' \in [Tabs -> Tab], token' \in [Browsers -> Somebody],
           \A s \in Tabs : Shows(s)', acts' \in 0..MaxActs
    PROVE  AccountsInv'
  <1> DEFINE c == call[t]
             d == Unheard(c)
  <1>a. call \in [Tabs -> Call] /\ c \in Call /\ Shape(c) /\ unsure \subseteq Users
    BY DEF AccountsInv, TypeOK
  <1>b. /\ d \in Call /\ About(d) = About(c)
        /\ d.kind = c.kind /\ d.by = c.by /\ d.shown = c.shown /\ d.of = c.of
        /\ d.word = c.word /\ d.stage = c.stage /\ ~d.heard
    BY <1>a, UnheardIs DEF SameCall
  <1>c. call' = [call EXCEPT ![t] = d]
    BY <1>a DEF Call, Unheard
  <1>d. c.kind = "none" => d = NoCall
    <2>1. CASE c.kind = "none"
      <3>1. c = NoCall  BY <1>a, <2>1 DEF Shape
      <3>2. d = [NoCall EXCEPT !.heard = FALSE]
        BY <3>1 DEF Unheard
      <3>3. QED  BY <3>2 DEF NoCall
    <2>2. QED  BY <2>1
  <1> HIDE DEF d
  <1>e. Shape(d)
    BY <1>a, <1>b, <1>d DEF Shape
  <1>f. About(c) \subseteq unsure'
    BY DEF AccountsInv, Awaited
  <1>1. CallMoved(t, d)
    BY <1>a, <1>b, <1>c, <1>e DEF CallMoved, AccountsInv, TypeOK, About
  <1>2. QED  BY <1>b, <1>f, <1>1, CallStep

LEMMA GivenUpKeeps ==
    ASSUME AccountsInv, NEW t \in Tabs,
           Lost(t) \/ \E p \in {"login", "app"} : Load(t, p)
    PROVE  AccountsInv'
  <1>a. tab \in [Tabs -> Tab] /\ token \in [Browsers -> Somebody] /\ home[t] \in Browsers
        /\ acts \in 0..MaxActs /\ TypeOK
    BY DEF AccountsInv, TypeOK
  <1>1. CASE Lost(t)
    BY <1>a, <1>1, UnheardKeeps DEF Lost, AccountsInv, Shows
  <1>2. ASSUME NEW p \in {"login", "app"}, Load(t, p)
        PROVE  AccountsInv'
    <2> DEFINE b == Opened(token[home[t]], p)
    <2>1. b \in Tab /\ b.user = NoOne /\ b.check = token[home[t]]
      BY <1>a, OpenedIs
    <2>2. tab' = [tab EXCEPT ![t] = b] /\ UNCHANGED <<home, token>> /\ acts' \in 0..MaxActs
      BY <1>a, <1>2, ActIs DEF Load
    <2> HIDE DEF b
    <2>3. /\ tab' \in [Tabs -> Tab] /\ token' \in [Browsers -> Somebody]
          /\ \A s \in Tabs : Shows(s)'
      BY <2>1, <2>2, TabChanges
    <2>4. QED  BY <1>2, <2>2, <2>3, UnheardKeeps DEF Load
  <1>3. QED  BY <1>1, <1>2

\* A refusal takes the token away and opens the sign-in.
LEMMA TurnedAwayKeeps ==
    ASSUME AccountsInv, NEW t \in Tabs, TurnedAway(t)
    PROVE  AccountsInv'
  <1>a. token \in [Browsers -> Somebody] /\ home[t] \in Browsers /\ acts \in 0..MaxActs
        /\ call \in [Tabs -> Call]
    BY DEF AccountsInv, TypeOK
  <1>b. UNCHANGED <<account, home, said, unsure, acts>> /\ call' = [call EXCEPT ![t] = NoCall]
        /\ call[t].stage = "unknown"
    BY DEF TurnedAway
  <1>1. /\ tab' \in [Tabs -> Tab] /\ token' \in [Browsers -> Somebody]
        /\ \A s \in Tabs : Shows(s)'
    <2> DEFINE b == Opened(NoOne, "login")
    <2>1. b \in Tab /\ b.user = NoOne /\ b.check = NoOne
      BY OpenedIs DEF Somebody
    <2>2. tab' = [tab EXCEPT ![t] = b] /\ token' = [token EXCEPT ![home[t]] = NoOne]
      BY DEF TurnedAway
    <2> HIDE DEF b
    <2>3. QED  BY <1>b, <2>1, <2>2, TabChanges
  <1>2. CallMoved(t, NoCall)
    BY <1>b, NoCallIs DEF CallMoved, AccountsInv, TypeOK
  <1>3. \A u \in About(call[t]) \ unsure : account[u].password = said[u]
    BY <1>b DEF AccountsInv, Awaited
  <1>4. QED  BY <1>a, <1>b, <1>1, <1>2, <1>3, NoCallIs, CallStep
\* A call is sent: of those it is about nobody is meant by another call, or they
\* are in doubt from now on.
LEMMA SendKeeps ==
    ASSUME AccountsInv, NEW t \in Tabs, NEW c \in Call, Send(t, c),
           c.kind # "none",
           c.kind = "change" => c.of = NoOne,
           c.kind \in {"reset", "role"} => c.of # NoOne
    PROVE  AccountsInv'
  <1> DEFINE d == [c EXCEPT !.by = token[home[t]], !.shown = tab[t].user, !.stage = "sent", !.heard = TRUE]
             meant == UNION {About(call[s]) : s \in {s \in Tabs : call[s].kind # "none"}}
  <1>a. /\ call \in [Tabs -> Call] /\ tab \in [Tabs -> Tab] /\ tab[t] \in Tab
        /\ token[home[t]] \in Somebody /\ unsure \subseteq Users /\ TypeOK
        /\ Shows(t)
    BY DEF AccountsInv, TypeOK
  <1>b. /\ UNCHANGED <<account, home, token, tab, said>> /\ acts' \in 0..MaxActs
        /\ tab[t].user # NoOne /\ call[t].kind = "none"
        /\ call' = [call EXCEPT ![t] = d]
        /\ unsure' = unsure \cup (IF tab[t].mixed THEN About(d) ELSE About(d) \cap meant)
    BY <1>a, ActIs DEF Send
  <1>c. /\ d \in Call /\ d.kind = c.kind /\ d.of = c.of /\ d.by = token[home[t]]
        /\ d.shown = tab[t].user /\ d.stage = "sent" /\ d.heard
    BY <1>a DEF Call, Tab
  <1> HIDE DEF d, meant
  <1>d. About(d) \subseteq Users  BY DEF About
  <1>e. \A s \in Tabs : \A u \in About(call[s]) : u \in meant
    <2>1. \A s \in Tabs : call[s].kind = "none" => About(call[s]) = {}
      BY NoCallIs DEF AccountsInv, Shape
    <2>2. QED  BY <2>1 DEF meant
  <1>f. call'[t] = d /\ \A s \in Tabs \ {t} : call'[s] = call[s]
    BY <1>a, <1>b
  <1>g. ASSUME NEW u \in About(d) \ unsure'
        PROVE  /\ u \notin unsure /\ ~tab[t].mixed
               /\ \A s \in Tabs : u \notin About(call[s])
    BY <1>b, <1>e, <1>g
  <1>1. TypeOK'
    <2>1. call' \in [Tabs -> Call] /\ unsure' \subseteq Users
      BY <1>a, <1>b, <1>c, <1>d
    <2>2. QED  BY <1>b, <2>1 DEF AccountsInv, TypeOK
  <1>2. \A s \in Tabs : Shows(s)' /\ Shape(call'[s])
    <2>1. Shape(d)
      BY <1>b, <1>c DEF Shape
    <2>2. \A s \in Tabs : Shows(s)'
      BY <1>b DEF AccountsInv, Shows
    <2>3. QED  BY <1>f, <2>1, <2>2 DEF AccountsInv
  <1>3. ASSUME NEW s \in Tabs, NEW u \in About(call'[s]) \ unsure'
        PROVE  Awaited(s, u)' /\ \A z \in Tabs \ {s} : u \notin About(call'[z])
    <2>1. CASE s = t
      <3>1. u \in About(d) \ unsure' /\ u \in Users
        BY <1>d, <1>f, <2>1
      <3>2. account[u].password = said[u]
        BY <1>g, <3>1 DEF AccountsInv, PasswordAsTold
      <3>3. d.by \in {d.shown, NoOne}
        BY <1>a, <1>b, <1>c, <1>g, <3>1 DEF Shows
      <3>4. Awaited(t, u)'
        BY <1>b, <1>c, <1>f, <3>2, <3>3 DEF Awaited
      <3>5. QED  BY <1>f, <1>g, <2>1, <3>1, <3>4
    <2>2. CASE s # t
      <3>1. u \in About(call[s]) \ unsure
        BY <1>b, <1>f, <2>2
      <3>2. u \notin About(d)
        BY <1>g, <3>1
      <3>3. Awaited(s, u) /\ \A z \in Tabs \ {s} : u \notin About(call[z])
        BY <3>1 DEF AccountsInv
      <3>4. Awaited(s, u)'
        BY <1>b, <1>f, <2>2, <3>3 DEF Awaited
      <3>5. QED  BY <1>f, <2>2, <3>2, <3>3, <3>4
    <2>3. QED  BY <2>1, <2>2
  <1>4. PasswordAsTold'
    <2> SUFFICES ASSUME NEW u \in Users, u \notin unsure', \A s \in Tabs : u \notin About(call'[s])
                 PROVE  account[u].password = said[u]
      BY <1>b DEF PasswordAsTold
    <2>1. \A s \in Tabs : u \notin About(call[s])
      BY <1>a, <1>b, <1>f, NoCallIs DEF AccountsInv, Shape
    <2>2. QED  BY <1>b, <2>1 DEF AccountsInv, PasswordAsTold
  <1>5. QED  BY <1>1, <1>2, <1>3, <1>4 DEF AccountsInv

LEMMA SendSteps ==
    ASSUME AccountsInv, NEW t \in Tabs,
           \/ \E u \in Users : ChangePassword(t, said[u]) \/ ResetPassword(t, u)
           \/ \E u \in Users, r \in Offered : ChangeRole(t, u, r)
    PROVE  AccountsInv'
  <1>a. acts + 1 \in Nat /\ (\A u \in Users : said[u] \in Nat /\ u # NoOne /\ u \in Somebody)
    BY AccountsAssumption DEF AccountsInv, TypeOK, Somebody
  <1>1. ASSUME NEW u \in Users, ChangePassword(t, said[u])  PROVE  AccountsInv'
    <2> DEFINE c == [NoCall EXCEPT !.kind = "change", !.entered = said[u], !.word = acts + 1]
    <2>1. c \in Call /\ c.kind = "change" /\ c.of = NoOne
      BY <1>a, NoCallIs DEF Call, NoCall
    <2>2. Send(t, c)  BY <1>1 DEF ChangePassword
    <2> HIDE DEF c
    <2>3. QED  BY <2>1, <2>2, SendKeeps
  <1>2. ASSUME NEW u \in Users, ResetPassword(t, u)  PROVE  AccountsInv'
    <2> DEFINE c == [NoCall EXCEPT !.kind = "reset", !.of = u, !.word = acts + 1]
    <2>1. c \in Call /\ c.kind = "reset" /\ c.of # NoOne
      BY <1>a, NoCallIs DEF Call, NoCall
    <2>2. Send(t, c)  BY <1>2 DEF ResetPassword
    <2> HIDE DEF c
    <2>3. QED  BY <2>1, <2>2, SendKeeps
  <1>3. ASSUME NEW u \in Users, NEW r \in Offered, ChangeRole(t, u, r)  PROVE  AccountsInv'
    <2> DEFINE c == [NoCall EXCEPT !.kind = "role", !.of = u, !.role = r]
    <2>1. c \in Call /\ c.kind = "role" /\ c.of # NoOne
      BY <1>a, NoCallIs DEF Call, NoCall, Offered, Role
    <2>2. Send(t, c)  BY <1>3 DEF ChangeRole
    <2> HIDE DEF c
    <2>3. QED  BY <2>1, <2>2, SendKeeps
  <1>4. QED  BY <1>1, <1>2, <1>3

LEMMA AccountsStart == Init => AccountsInv
  <1> SUFFICES ASSUME Init PROVE AccountsInv  OBVIOUS
  <1> USE DEF Init
  <1>1. \A t \in Tabs : /\ token[home[t]] \in Somebody /\ tab[t] = Opened(token[home[t]], "app")
                        /\ call[t] = NoCall
    OBVIOUS
  <1>2. \A t \in Tabs : tab[t] \in Tab /\ Shows(t)
    BY <1>1, OpenedIs DEF Shows
  <1>3. TypeOK
    <2>1. account \in [Users -> [password : Nat, role : Role]]
      BY DEF Role
    <2>2. tab \in [Tabs -> Tab]
      BY <1>2
    <2>3. call \in [Tabs -> Call]
      BY NoCallIs
    <2>4. QED  BY <2>1, <2>2, <2>3, AccountsAssumption DEF TypeOK
  <1>4. PasswordAsTold  BY DEF PasswordAsTold
  <1>5. QED  BY <1>1, <1>2, <1>3, <1>4, NoCallIs DEF AccountsInv

LEMMA AccountsStep == AccountsInv /\ [Next]_vars => AccountsInv'
  <1> SUFFICES ASSUME AccountsInv, [Next]_vars PROVE AccountsInv'  OBVIOUS
  <1>1. CASE UNCHANGED vars
    BY <1>1 DEF vars, AccountsInv, TypeOK, Shows, Awaited, PasswordAsTold
  <1>2. CASE Next
    BY <1>2, SessionSteps, SignInAnsweredKeeps, SendSteps, HandleKeeps, WriteKeeps, EndsKeep,
       GivenUpKeeps, TurnedAwayKeeps DEF Next
  <1>3. QED  BY <1>1, <1>2

------------------------------------------------------------------------------
\* The theorems.

LEMMA ReadingsInvariance == Readings!Spec => []ReadingsInv
  BY ReadingsInit, ReadingsStep, PTL DEF Readings!Spec

LEMMA AccountsInvariance == Spec => []AccountsInv
  BY AccountsStart, AccountsStep, PTL DEF Spec

\* A run of both parts is a run of each.
THEOREM BothParts == PagesSpec => Spec /\ Readings!Spec
  <1>1. PagesInit => Init /\ Readings!Init  BY DEF PagesInit
  <1>2. [PagesNext]_<<vars, reading, moves>> => [Next]_vars /\ [Readings!Next]_(Readings!vars)
    BY DEF PagesNext, reading, Readings!vars
  <1>3. QED  BY <1>1, <1>2, PTL DEF PagesSpec, Spec, Readings!Spec

\* Every variable of the accounts and sessions keeps its type.
THEOREM AccountsTyped == Spec => []TypeOK
  <1>1. AccountsInv => TypeOK  BY DEF AccountsInv
  <1>2. QED  BY <1>1, AccountsInvariance, PTL

\* Every variable of the page of readings keeps its type.
THEOREM ReadingsTyped == Readings!Spec => []Readings!TypeOK
  <1>1. ReadingsInv => Readings!TypeOK  BY DEF ReadingsInv
  <1>2. QED  BY <1>1, ReadingsInvariance, PTL

\* A tab shows the owner of the token its browser keeps, or nobody does, unless
\* somebody signed in elsewhere in the browser (AuthContext.js, api.js).
THEOREM ShownIsOwnerCorrect == Spec => []ShownIsOwner
  <1>1. AccountsInv => ShownIsOwner  BY DEF AccountsInv, Shows, ShownIsOwner
  <1>2. QED  BY <1>1, AccountsInvariance, PTL

\* The password a person was told last opens the account, whichever answers were
\* late (authService.js: changePassword, resetPassword).
THEOREM PasswordAsToldCorrect == Spec => []PasswordAsTold
  <1>1. AccountsInv => PasswordAsTold  BY DEF AccountsInv
  <1>2. QED  BY <1>1, AccountsInvariance, PTL

\* When a draft is reported as saved, the tables hold what was sent, or later
\* readings, also when a repetition was answered from the log, unless a save with
\* other readings was given up before (ItemMasterPage.jsx, saveTestDraft, db.js).
THEOREM ToldIsSavedCorrect == Readings!Spec => []ToldIsSaved
  <1>1. ReadingsInv => ToldIsSaved  BY DEF ReadingsInv
  <1>2. QED  BY <1>1, ReadingsInvariance, PTL

\* A reading that was entered while nothing was on its way, under an identifier that
\* no lost save may have used up, is on the page and marked until it reached the
\* tables (ItemMasterPage.jsx, db.js).
THEOREM TypedKeptCorrect == Readings!Spec => []TypedKept
  <1>1. ReadingsInv => TypedKept
    BY DEF ReadingsInv, OnPage, TypedKept, Readings!TypedKept
  <1>2. QED  BY <1>1, ReadingsInvariance, PTL
==============================================================================
