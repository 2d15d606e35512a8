-------------------------------- MODULE Desk --------------------------------
(***************************************************************************)
(* The workflow board in the browsers of the laboratory: WorkflowBoard.js  *)
(* with its drag and drop, its batch and its socket handlers, and          *)
(* Phase2Modal.js, in which the readings of a card are entered.  Each desk *)
(* holds copies of the cards; a handler awaits an answer of the server and *)
(* uses it later, while the other desks, and its own other handlers, go on.*)
(*                                                                         *)
(* The server is reduced to the status, the version and the readings of a  *)
(* card; how it decides is the subject of LabWorkflow.                     *)
(***************************************************************************)
EXTENDS Integers

CONSTANTS
    Desks,      \* open boards
    Cards,      \* tests and certificates
    Tests,      \* the cards that are tests: they have readings
    None,       \* no card
    Hands,      \* bound of the runs: drops of one card at a desk whose timers run
    MaxActs     \* bound of the runs: what users do, and what fails

\* Assumed by the modules that give these constants a value.
DeskAssumption ==
    /\ Tests \subseteq Cards /\ None \notin Cards \cup Desks
    /\ {"modal", "batch"} \cap Hands = {} /\ MaxActs \in Nat

VARIABLES
    server,     \* the rows of the cards
    desk,       \* per desk: its copies and its handlers under way
    acts        \* so far, for the bound; a reading is named after the act that entered it

vars == <<server, desk, acts>>

Columns == {"TODO", "IN_PROGRESS", "DONE"}

\* mute, for the properties: the last version that no event tells of.
Row  == [st : Columns \cup {"absent", "gone"}, ver : Nat, rd : Nat, mute : Nat]

\* A copy of a card: the columns it is listed in and the status it bears.
Copy == [cols : SUBSET Columns, st : Columns \cup {"none"}]

\* An answer about a card; "none" stands for a refusal or a failure.
Answer == [st : Columns \cup {"none"}, ver : Nat, rd : Nat]
NoAnswer == [st |-> "none", ver |-> 0, rd |-> 0]

\* A notification on its way, and the handler it starts.
Call == [kind : {"added", "updated", "done"}, card : Cards, stage : {"told", "asked", "answered"},
         prev : Nat, got : Answer]

Fetch == [stage : {"none", "asked", "answered"}, got : [Cards -> Answer]]

\* The drops at a desk, each of a card: a card can be dropped again while a drop of
\* it is under way.
Drops == Hands \X Cards

\* "read": the readings are asked for; "post": the move is; "ask" and "show": the
\* card is asked for again and shown; "over": what is left is the timer.
Drop == [stage : {"none", "read", "post", "ask", "show", "over"}, to : Columns, rd : Nat,
         before : [Cards -> Copy], got : Answer]

\* A batch: the cards to do, the one whose readings were read, and these.
Batch == [todo : SUBSET Cards, card : Cards \cup {None}, rd : Nat]

\* What the modal last loaded stays when it is closed.
Modal == [open : BOOLEAN, card : Cards \cup {None}, st : Columns \cup {"none"}, rd : Nat]

\* What holds readings that it posts back.
Holders == {"modal", "batch"} \cup Hands

\* last: lastVersions; pend: pendingIds; recent: the drop actionSequenceRef counted
\* last; after: the certificate whose readings were submitted and that is moved on
\* next.  knew, excuse and raced are for the properties: the newest version the desk
\* was answered, cards whose copy something befell that no later notification makes
\* good, and readings that were saved by somebody else since they were read here.
View == [copy : [Cards -> Copy], last : [Cards -> Nat], pend : SUBSET Cards,
         calls : SUBSET Call, fetch : Fetch, drop : [Drops -> Drop],
         recent : Drops \cup {<<None, None>>}, modal : Modal, after : Cards \cup {None},
         batch : Batch, on : BOOLEAN,
         knew : [Cards -> Nat], excuse : SUBSET Cards, raced : SUBSET (Holders \X Cards)]

TypeOK ==
    /\ server \in [Cards -> Row]
    /\ desk \in [Desks -> View]
    /\ acts \in 0..MaxActs

Blank   == [c \in Cards |-> [cols |-> {}, st |-> "none"]]
NoFetch == [stage |-> "none", got |-> [c \in Cards |-> NoAnswer]]
NoDrop  == [stage |-> "none", to |-> "DONE", rd |-> 0, before |-> Blank, got |-> NoAnswer]
OverDrop == [NoDrop EXCEPT !.stage = "over"]
NoBatch == [todo |-> {}, card |-> None, rd |-> 0]
NoModal == [open |-> FALSE, card |-> None, st |-> "none", rd |-> 0]

\* Cards that were not started, cards with readings, and the boards that show them.
Init ==
    /\ server \in [Cards -> {[st |-> "absent", ver |-> 0, rd |-> 0, mute |-> 0],
                            [st |-> "TODO", ver |-> 1, rd |-> 0, mute |-> 0],
                            [st |-> "IN_PROGRESS", ver |-> 1, rd |-> 1, mute |-> 0]}]
    /\ desk = [d \in Desks |->
                 [copy |-> [c \in Cards |-> [cols |-> {server[c].st} \cap Columns,
                                            st |-> IF server[c].st = "absent" THEN "none" ELSE server[c].st]],
                  last |-> [c \in Cards |-> 0], pend |-> {}, calls |-> {},
                  fetch |-> NoFetch, drop |-> [k \in Drops |-> NoDrop], recent |-> <<None, None>>,
                  modal |-> NoModal, after |-> None, batch |-> NoBatch, on |-> TRUE,
                  knew |-> [c \in Cards |-> server[c].ver], excuse |-> {}, raced |-> {}]]
    /\ acts = 0

Act == acts < MaxActs /\ acts' = acts + 1

------------------------------------------------------------------------------
\* What is done to a view v

Live(c)  == server[c].st \in Columns
About(c) == IF Live(c) THEN [st |-> server[c].st, ver |-> server[c].ver, rd |-> server[c].rd]
            ELSE [NoAnswer EXCEPT !.ver = server[c].ver]
Shown(v, c) == v.copy[c].cols # {}

\* replaceAcrossColumns: the copy changes in the column where it stands.
Replaced(v, c, a) ==
    IF ~Shown(v, c) THEN v
    ELSE [v EXCEPT !.copy[c] = [cols |-> @.cols, st |-> a.st]]

\* Mutant: what is there already is not removed first.
PrependedOnly(v, c, a) ==
    [v EXCEPT !.copy[c] = [cols |-> @.cols \cup {a.st}, st |-> a.st]]

\* prependToColumn: the copy is removed from all columns and put in its own.
Prepended(v, c, a) ==
    [v EXCEPT !.copy[c] = [cols |-> {a.st}, st |-> a.st]]

\* moveCardInBoard
Moved(v, c, to) == [v EXCEPT !.copy[c] = [cols |-> {to}, st |-> to]]

Later(m, n) == IF m > n THEN m ELSE n

\* The version is noted; a copy that is up to date needs no excuse.
Seen(v, c, a) ==
    [v EXCEPT !.last[c] = a.ver,
              !.knew[c] = Later(@, a.ver),
              !.excuse = IF Shown(v, c) /\ a.st = server[c].st THEN @ \ {c} ELSE @]

\* A notification is passed over: that matters unless the card is right already.
Ignored(v, c) ==
    [v EXCEPT !.knew[c] = server[c].ver,
              !.excuse = @ \cup {x \in {c} : v.copy[c].st # server[c].st}]

Excused(v, S) == [v EXCEPT !.excuse = @ \cup S]

\* An answer that is older than one the desk has used, or than what nobody will
\* tell it of.
Older(v, c, a) == a.ver < v.knew[c] \/ a.ver < server[c].mute

\* fetchData: only the answer to the last request is used.
Refetch(v) == [v EXCEPT !.fetch = [NoFetch EXCEPT !.stage = "asked"]]

------------------------------------------------------------------------------
\* The server.  vs are the views as the request leaves them.

NewRow(c, st, rd) ==
    server' = [server EXCEPT ![c] = [st |-> st, ver |-> @.ver + 1, rd |-> rd, mute |-> @.mute]]

\* A change that no event tells of, or that takes the card away.
MuteRow(c, st, rd) ==
    server' = [server EXCEPT ![c] = [st |-> st, ver |-> @.ver + 1, rd |-> rd, mute |-> @.ver + 1]]

\* Whoever is connected is notified; a desk that is not never hears of it.
Notified(vs, kind, c) ==
    [d \in Desks |->
       IF vs[d].on
       THEN [vs[d] EXCEPT !.calls = @ \cup
               {[kind |-> kind, card |-> c, stage |-> "told", prev |-> 0, got |-> NoAnswer]}]
       ELSE Excused(vs[d], {c})]

\* A change that no event tells of.
Unnotified(vs, c) == [d \in Desks |-> Excused(vs[d], {c})]

\* Whoever holds readings of the card holds old ones now; the modal that saved
\* them holds the new ones.
Raced(vs, d, c) ==
    [e \in Desks |-> [vs[e] EXCEPT !.raced = @ \cup
        {x \in Holders \X {c} :
           \/ x[1] = "modal" /\ e # d /\ vs[e].modal.open /\ vs[e].modal.card = c
           \/ x[1] = "batch" /\ vs[e].batch.card = c
           \/ x[1] \in Hands /\ vs[e].drop[x].stage = "post"}]]

Set(d, v) == [desk EXCEPT ![d] = v]

\* createTest, or the certificate a finalized test gave.
Created(vs, c) ==
    /\ server[c].st = "absent"
    /\ NewRow(c, "TODO", 0)
    /\ desk' = Notified(vs, "added", c)

\* createCertificate
CreatedUntold(vs, c) ==
    /\ server[c].st = "absent"
    /\ MuteRow(c, "TODO", 0)
    /\ desk' = Unnotified(vs, c)

\* moveItem, which a drop asks for
MovedOn(vs, c) ==
    /\ server[c].st = "TODO"
    /\ NewRow(c, "IN_PROGRESS", server[c].rd)
    /\ desk' = Notified(vs, "updated", c)

\* updateStatus, which the modal and the bulk button ask for: the same move, but no
\* event tells of it.
StatusUpdated(vs, c) ==
    /\ server[c].st = "TODO"
    /\ MuteRow(c, "IN_PROGRESS", server[c].rd)
    /\ desk' = Unnotified(vs, c)

\* saveTestDraft, which also starts a test; saveResults of a certificate does not.
Drafted(vs, d, c, rd) ==
    /\ server[c].st \in {"TODO", "IN_PROGRESS"}
    /\ MuteRow(c, IF c \in Tests THEN "IN_PROGRESS" ELSE server[c].st, rd)
    /\ desk' = Unnotified(Raced(vs, d, c), c)

\* completeTest, and the finalization of a certificate.  A test whose items all
\* go over to certificates is erased.
Finalized(vs, c, rd) ==
    /\ server[c].st = "IN_PROGRESS"
    /\ c \in Tests => rd # 0
    /\ \/ NewRow(c, "DONE", IF c \in Tests THEN rd ELSE server[c].rd)
       \/ c \in Tests /\ MuteRow(c, "gone", rd)
    /\ desk' = Notified(vs, "done", c)

------------------------------------------------------------------------------
\* Loading

\* The board is opened, or its Refresh button pressed.
Load(d) ==
    /\ Act
    /\ desk' = Set(d, Refetch(desk[d]))
    /\ UNCHANGED server

AnswerBoard(d) ==
    /\ desk[d].fetch.stage = "asked"
    /\ desk' = Set(d, [desk[d] EXCEPT !.fetch = [stage |-> "answered",
                                                  got |-> [c \in Cards |-> About(c)]]])
    /\ UNCHANGED <<server, acts>>

\* The answer replaces the board, whatever was shown meanwhile.
ShowBoard(d) ==
    LET v   == desk[d]
        got == v.fetch.got
    IN  /\ v.fetch.stage = "answered"
        /\ desk' = Set(d, [v EXCEPT
               !.copy = [c \in Cards |-> [cols |-> {got[c].st} \ {"none"}, st |-> got[c].st]],
               !.fetch = NoFetch,
               !.knew = [c \in Cards |-> Later(@[c], got[c].ver)],
               !.excuse = {c \in Cards : got[c].st # About(c).st /\ (c \in v.excuse \/ Older(v, c, got[c]))}])
        /\ UNCHANGED <<server, acts>>

------------------------------------------------------------------------------
\* The socket

\* The connection is lost, and comes back without a new load.
Disconnect(d) ==
    /\ desk[d].on /\ Act
    /\ desk' = Set(d, [desk[d] EXCEPT !.on = FALSE])
    /\ UNCHANGED server

Reconnect(d) ==
    /\ ~desk[d].on
    /\ desk' = Set(d, [desk[d] EXCEPT !.on = TRUE])
    /\ UNCHANGED <<server, acts>>

\* A handler starts: it is not for a card that is under way here; item:updated
\* notes the version it knows.
Hear(d, n) ==
    LET v == [desk[d] EXCEPT !.calls = @ \ {n}]
    IN  /\ n.stage = "told"
        /\ desk' = Set(d, IF n.card \in v.pend THEN Ignored(v, n.card)
                          ELSE [v EXCEPT !.calls = @ \cup {[n EXCEPT !.stage = "asked",
                                   !.prev = IF n.kind = "updated" THEN v.last[n.card] ELSE 0]}])
        /\ UNCHANGED <<server, acts>>

\* fetchBoardItem: the card as it is now, or nothing if the request fails.
AnswerCall(d, n) ==
    /\ n.stage = "asked"
    /\ \E a \in {About(n.card), NoAnswer} :
         /\ IF a = About(n.card) THEN UNCHANGED acts ELSE Act
         /\ desk' = Set(d, [desk[d] EXCEPT !.calls =
                              (@ \ {n}) \cup {[n EXCEPT !.stage = "answered", !.got = a]}])
    /\ UNCHANGED server

\* The version item:updated compares with is the one it noted; item:done looks
\* it up now; item:added does not compare.
Stale(v, n) ==
    \/ n.kind = "updated" /\ n.got.ver <= n.prev
    \/ n.kind = "done" /\ n.got.ver <= v.last[n.card]

\* Mutant: the card is shown though there was no answer.
HeedAnything(d, n) ==
    LET v == [desk[d] EXCEPT !.calls = @ \ {n}]
        w == Seen(v, n.card, n.got)
    IN  /\ n.stage = "answered"
        /\ desk' = Set(d, IF n.got.st = "none" /\ n.kind = "added" THEN Prepended(w, n.card, n.got)
                          ELSE IF Stale(v, n) THEN v ELSE Replaced(w, n.card, n.got))
        /\ UNCHANGED <<server, acts>>

\* The card is shown as answered.  One that is not there cannot be updated, and
\* one that is gone is not taken off.
Heed(d, n) ==
    LET v == [desk[d] EXCEPT !.calls = @ \ {n}]
        c == n.card
        w == Seen(IF Older(v, c, n.got) \/ (n.kind # "added" /\ ~Shown(v, c))
                  THEN Excused(v, {c}) ELSE v, c, n.got)
    IN  /\ n.stage = "answered"
        /\ desk' = Set(d, IF n.got.st = "none" THEN Excused(v, {c})
                          ELSE IF Stale(v, n) THEN v
                          ELSE IF n.kind = "added" THEN Prepended(w, c, n.got)
                          ELSE Replaced(w, c, n.got))
        /\ UNCHANGED <<server, acts>>

------------------------------------------------------------------------------
\* Drag and drop.  k is a drop, k[2] the card.

Rank == [TODO |-> 1, IN_PROGRESS |-> 2, DONE |-> 3]

DropOver(v, k) == [v EXCEPT !.drop[k] = OverDrop]

\* Cards move forward only, and a card that bears no payment not to DONE: it is
\* left where it was dropped.  A card whose drop is under way can be dropped again.
DropCard(d, k, to) ==
    LET v == desk[d]
        c == k[2]
        w == [Moved(v, c, to) EXCEPT !.pend = @ \cup {c}, !.recent = k]
        stage == IF c \in Tests THEN "read" ELSE "post"
    IN  /\ Shown(v, c) /\ v.drop[k].stage = "none"
        /\ Rank[to] > Rank[v.copy[c].st] /\ Act
        /\ \E paid \in BOOLEAN :
             desk' = Set(d, IF to = "DONE" /\ ~paid THEN DropOver(Excused(w, {c}), k)
                            ELSE [w EXCEPT !.drop[k] =
                                    [NoDrop EXCEPT !.stage = stage, !.to = to, !.before = v.copy]])
        /\ UNCHANGED server

\* Mutant: a failed move is left as it is.
LeftThere(v, k) == DropOver(v, k)

\* The whole board as it was before the drop is put back, with it what was shown
\* since of other cards.
PutBack(v, k) ==
    LET b == v.drop[k].before
    IN  DropOver(Excused([v EXCEPT !.copy = b],
                         {x \in Cards : b[x].st # About(x).st}), k)

\* The readings are fetched; a test without any does not move, and is left where
\* it was dropped; if the request fails the board is put back.
ReadForDrop(d, k) ==
    LET v == desk[d]
        c == k[2]
        unmeasured == v.drop[k].to = "IN_PROGRESS" /\ server[c].rd = 0
        read == [v EXCEPT !.drop[k] = [@ EXCEPT !.stage = "post", !.rd = server[c].rd],
                          !.raced = @ \ {k}]
    IN  /\ v.drop[k].stage = "read"
        /\ desk' = Set(d, IF ~Live(c) THEN PutBack(v, k)
                          ELSE IF unmeasured THEN Excused(DropOver(v, k), {c}) ELSE read)
        /\ UNCHANGED <<server, acts>>

\* The card is asked for once more, if nothing was dropped meanwhile.
Confirming(v, k) ==
    IF v.recent = k THEN [v EXCEPT !.drop[k].stage = "ask"]
    ELSE DropOver(v, k)

\* The request arrives, and the server does what it asks or refuses.
Posted(vs, c, drop) ==
    \/ drop.to = "IN_PROGRESS" /\ MovedOn(vs, c)
    \/ drop.to = "DONE" /\ Finalized(vs, c, drop.rd)

Refused(c, drop) ==
    \/ drop.to = "IN_PROGRESS" /\ server[c].st # "TODO"
    \/ drop.to = "DONE" /\ (server[c].st # "IN_PROGRESS" \/ (c \in Tests /\ drop.rd = 0))

PostDrop(d, k) ==
    LET v == desk[d]
        c == k[2]
    IN  /\ v.drop[k].stage = "post"
        /\ \/ Posted(Set(d, Confirming(v, k)), c, v.drop[k]) /\ UNCHANGED acts
           \/ /\ Refused(c, v.drop[k])
              /\ desk' = Set(d, PutBack(v, k))
              /\ UNCHANGED <<server, acts>>
           \/ Act /\ Posted(Set(d, PutBack(v, k)), c, v.drop[k])   \* the answer is lost

\* fetchBoardItem after the move
AnswerDrop(d, k) ==
    /\ desk[d].drop[k].stage = "ask"
    /\ desk' = Set(d, [desk[d] EXCEPT !.drop[k] = [@ EXCEPT !.stage = "show", !.got = About(k[2])]])
    /\ UNCHANGED <<server, acts>>

\* The answer is shown and its version noted, whatever was noted meanwhile.
ShowDrop(d, k) ==
    LET v == desk[d]
        c == k[2]
        a == v.drop[k].got
        w == Seen(IF Older(v, c, a) THEN Excused(v, {c}) ELSE v, c, a)
    IN  /\ v.drop[k].stage = "show"
        /\ desk' = Set(d, DropOver(IF a.st = "none" \/ v.recent # k THEN v ELSE Replaced(w, c, a), k))
        /\ UNCHANGED <<server, acts>>

\* Half a second after a drop is over, whether or not another one of the same card
\* is under way.
Release(d, k) ==
    /\ desk[d].drop[k].stage = "over"
    /\ desk' = Set(d, [desk[d] EXCEPT !.pend = @ \ {k[2]}, !.drop[k] = NoDrop])
    /\ UNCHANGED <<server, acts>>

------------------------------------------------------------------------------
\* Batches

\* handleBatchTransferAll takes the cards shown as tested and paid.
StartBatch(d) ==
    /\ desk[d].batch.todo = {} /\ Act
    /\ \E B \in SUBSET {c \in Cards : Shown(desk[d], c) /\ desk[d].copy[c].st = "IN_PROGRESS"} :
         /\ B # {}
         /\ desk' = Set(d, [desk[d] EXCEPT !.batch = [NoBatch EXCEPT !.todo = B]])
    /\ UNCHANGED server

\* The card is done with, well or not; after the last one the board is fetched.
BatchedOne(v, c) ==
    LET w == [v EXCEPT !.batch = [NoBatch EXCEPT !.todo = v.batch.todo \ {c}]]
    IN  IF w.batch.todo = {} THEN Refetch(w) ELSE w

\* One card after another: its readings are fetched,
BatchRead(d, c) ==
    LET v == desk[d]
    IN  /\ c \in v.batch.todo /\ v.batch.card = None
        /\ desk' = Set(d, IF ~Live(c) THEN BatchedOne(v, c)
                          ELSE [v EXCEPT !.batch = [todo |-> @.todo, card |-> c, rd |-> server[c].rd],
                                         !.raced = @ \ {<<"batch", c>>}])
        /\ UNCHANGED <<server, acts>>

\* and posted.
BatchPost(d, c) ==
    LET v == desk[d]
        done == Set(d, BatchedOne(v, c))
    IN  /\ v.batch.card = c
        /\ \/ Finalized(done, c, v.batch.rd)
           \/ /\ server[c].st # "IN_PROGRESS" \/ (c \in Tests /\ v.batch.rd = 0)
              /\ desk' = done /\ UNCHANGED server
        /\ UNCHANGED acts

\* The bulk buttons: a card that cannot be moved is passed over; one that cannot
\* be completed ends the handler, and the board is not fetched.
BulkMove(d, c) ==
    LET v == Refetch(desk[d])
    IN  /\ Shown(v, c) /\ Act
        /\ \/ StatusUpdated(Set(d, v), c)
           \/ server[c].st # "TODO" /\ desk' = Set(d, v) /\ UNCHANGED server

BulkDone(d, c) ==
    /\ Shown(desk[d], c) /\ Act
    /\ Finalized(Set(d, Refetch(desk[d])), c, server[c].rd)

------------------------------------------------------------------------------
\* The modals

\* A test or a certificate is created; the board is fetched.
Create(d, c) ==
    LET vs == Set(d, Refetch(desk[d]))
    IN  Act /\ IF c \in Tests THEN Created(vs, c) ELSE CreatedUntold(vs, c)

\* handleDelete: a test that was not started; no event tells of it.
Delete(d, c) ==
    /\ Shown(desk[d], c) /\ Act
    /\ server[c].st = "TODO" /\ c \in Tests
    /\ MuteRow(c, "gone", server[c].rd)
    /\ desk' = Unnotified(Set(d, Refetch(desk[d])), c)

\* Mutant: a modal that shows the card again does not load its items again.
OpenAsBefore(d, c) ==
    LET v == desk[d]
    IN  /\ Shown(v, c) /\ ~v.modal.open /\ v.copy[c].st # "DONE" /\ Live(c)
        /\ desk' = Set(d, [v EXCEPT !.modal = [open |-> TRUE, card |-> c, st |-> v.copy[c].st,
                              rd |-> IF v.modal.card = c THEN v.modal.rd ELSE server[c].rd],
                                     !.raced = @ \ {<<"modal", c>>}])
        /\ UNCHANGED <<server, acts>>

\* handleCardClick: the modal shows the readings as they are, and the status the
\* board shows.
Open(d, c) ==
    LET v == desk[d]
    IN  /\ Shown(v, c) /\ ~v.modal.open /\ v.copy[c].st # "DONE" /\ Live(c)
        /\ desk' = Set(d, [v EXCEPT !.modal = [open |-> TRUE, card |-> c, st |-> v.copy[c].st,
                                               rd |-> server[c].rd],
                                     !.raced = @ \ {<<"modal", c>>}])
        /\ UNCHANGED <<server, acts>>

Hidden(v) == [v EXCEPT !.modal.open = FALSE]

Close(d) ==
    /\ desk[d].modal.open
    /\ desk' = Set(d, Hidden(desk[d]))
    /\ UNCHANGED <<server, acts>>

\* What the operator leaves as it was, or enters.
Entered(d) == {desk[d].modal.rd, acts + 2}

\* Tests, and certificates that are shown as not started.  The modal stays open and
\* the board is not fetched.  While a submission is under way the buttons are off.
SaveDraft(d) ==
    LET v == desk[d]
    IN  /\ v.modal.open /\ v.after = None /\ Act
        /\ v.modal.card \in Tests \/ v.modal.st = "TODO"
        /\ \E rd \in Entered(d) :
             Drafted(Set(d, [v EXCEPT !.modal.rd = rd]), d, v.modal.card, rd)

\* handleSubmitFlow: what is shown as not started is saved first, which starts a
\* test; a certificate is moved on after it.  A card that is shown as tested is
\* completed.
Submit(d) ==
    LET v    == desk[d]
        c    == v.modal.card
        done == Set(d, Refetch(Hidden(v)))
    IN  /\ v.modal.open /\ v.after = None /\ Act
        /\ \E rd \in Entered(d) \ {0} :
             \/ v.modal.st = "TODO" /\ c \in Tests /\ Drafted(done, d, c, rd)
             \/ /\ v.modal.st = "TODO" /\ c \notin Tests
                /\ Drafted(Set(d, [v EXCEPT !.modal.rd = rd, !.after = c]), d, c, rd)
             \/ v.modal.st = "IN_PROGRESS" /\ Finalized(done, c, rd)

\* The second request of a submitted certificate.  If it is refused, or its answer
\* is lost, the modal stays.  What is hidden is whatever the modal shows by now.
SubmitMove(d, c) ==
    LET v == [desk[d] EXCEPT !.after = None]
    IN  /\ desk[d].after = c
        /\ \/ StatusUpdated(Set(d, Refetch(Hidden(v))), c) /\ UNCHANGED acts
           \/ server[c].st # "TODO" /\ desk' = Set(d, v) /\ UNCHANGED <<server, acts>>
           \/ Act /\ StatusUpdated(Set(d, v), c)

------------------------------------------------------------------------------
\* The same requests from a page that is no board.
Elsewhere(c) ==
    /\ Act
    /\ \/ Created(desk, c)
       \/ MovedOn(desk, c)
       \/ StatusUpdated(desk, c)
       \/ Drafted(desk, None, c, acts + 2)
       \/ Finalized(desk, c, acts + 2)

Next ==
    \/ \E c \in Cards : Elsewhere(c)
    \/ \E d \in Desks :
           \/ Load(d) \/ AnswerBoard(d) \/ ShowBoard(d)
           \/ Disconnect(d) \/ Reconnect(d)
           \/ \E n \in desk[d].calls : Hear(d, n) \/ AnswerCall(d, n) \/ Heed(d, n)
           \/ \E k \in Drops : \/ \E to \in Columns : DropCard(d, k, to)
                                \/ ReadForDrop(d, k) \/ PostDrop(d, k)
                                \/ AnswerDrop(d, k) \/ ShowDrop(d, k) \/ Release(d, k)
           \/ \E c \in Cards : \/ BatchRead(d, c) \/ BatchPost(d, c)
                                \/ BulkMove(d, c) \/ BulkDone(d, c)
                                \/ Create(d, c) \/ Delete(d, c) \/ Open(d, c)
                                \/ SubmitMove(d, c)
           \/ StartBatch(d) \/ Close(d) \/ SaveDraft(d) \/ Submit(d)

Spec == Init /\ [][Next]_vars

------------------------------------------------------------------------------
\* Properties

\* Nothing of the board is under way: no answer is awaited for it.
Quiet(v) ==
    /\ v.calls = {} /\ v.fetch.stage = "none" /\ v.batch.todo = {}
    /\ \A k \in Drops : v.drop[k].stage \in {"none", "over"}

\* A board at rest shows every card with the status it has on the server, unless
\* nobody told it (a draft that starts a test, a deletion, the routes that update a
\* status, a lost connection), it passed the notification over while the card was
\* shown otherwise (an own drop of it was not released), the request for the card
\* failed, it left a card where it was dropped, it put back an old board, or an old
\* answer overtook a new one.
BoardsSettle ==
    \A d \in Desks : Quiet(desk[d]) =>
        \A c \in Cards : desk[d].copy[c].st = About(c).st \/ c \in desk[d].excuse

\* Readings are replaced only by what somebody enters, or by a desk that read them
\* before somebody else saved: a drop, a batch and a modal post back what was there,
\* the modal also when it only moves a certificate on.
ReadingsKept ==
    [][\A c \in Cards : server'[c].rd # server[c].rd
          => server'[c].rd = acts' + 1 \/ \E d \in Desks, by \in Holders : <<by, c>> \in desk[d].raced]_vars

\* Stated by the comments of the board ("stale-update guard", "targeted per-ID
\* updates with version guard"): the version a board has noted of a card never
\* goes back, so an old answer never replaces a newer one.
NeverBackwards ==
    [][\A d \in Desks, c \in Cards : desk'[d].last[c] >= desk[d].last[c]]_vars
=============================================================================
