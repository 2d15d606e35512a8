---------------------------- MODULE Intake_proofs ----------------------------
(***************************************************************************)
(* Proofs about Intake: for any windows, customers, items and bounds, one  *)
(* filling of a form creates one record, a success tells of a record that  *)
(* is there, and a record is for the customer who was chosen.  And proofs  *)
(* about Desk, in the second half: a board at rest shows what the server   *)
(* has, and no desk posts back readings that others replaced.              *)
(***************************************************************************)
EXTENDS MCOffice, FiniteSetTheorems, TLAPS

\* One window is open at a time; what is hidden holds nothing.
OneOpen ==
    /\ \A w \in Windows :
         /\ window[w].now.win = w /\ window[w].now.kind \in Kind(w)
         /\ window[w].now.fill \in 0..fills
         /\ window[w].open <=> window[w].now.fill # 0
    /\ \A v, w \in Windows : window[v].open /\ window[w].open => v = w

\* What was sent was filled in and can be created; identifiers were drawn.
Sendable ==
    /\ IsFiniteSet(rows)
    /\ logged \subseteq 1..presses
    /\ \A w \in Windows : window[w].req \in 0..presses
    /\ \A r \in wire : /\ r.req \in 1..presses /\ r.of.fill \in 1..fills
                       /\ r.of.cust # None /\ r.of.items # {}
    /\ \A x \in rows : x.of.fill \in 1..fills

\* An identifier belongs to one window.
OwnIds ==
    /\ \A v, w \in Windows : window[v].req = window[w].req /\ window[w].req # 0 => v = w
    /\ \A r \in wire, w \in Windows : r.req = window[w].req => r.of.win = w

\* A filling has one identifier, which is logged with the record it created.
OneIdPerFill ==
    /\ \A r, s \in wire : r.of.fill = s.of.fill => r.req = s.req
    /\ \A r \in wire, w \in Windows : r.of.fill = window[w].now.fill => r.req = window[w].req
    /\ \A x \in rows, r \in wire : x.of.fill = r.of.fill => r.req \in logged
    /\ \A x \in rows, w \in Windows :
         x.of.fill = window[w].now.fill => window[w].req \in logged

\* While no request of an identifier was given up, the one request that bears it
\* is the one the window waits for, and it is logged when that is answered.
Waited(w) ==
    /\ window[w].stage = "sent" =>
         \E r \in wire : r.of = window[w].sent /\ r.req = window[w].req /\ r.of.win = w
    /\ window[w].req \in logged => window[w].doubt \/ window[w].stage \in {"done", "reload"}
    /\ \A r \in wire : r.req = window[w].req /\ ~window[w].doubt =>
         /\ window[w].stage = "sent" /\ r.of = window[w].sent
         /\ \A s \in wire : s.req = r.req => s = r
    /\ window[w].stage = "done" => window[w].doubt \/ \E x \in rows : x.of = window[w].sent
    /\ window[w].stage = "reload" => \E t \in told : t.of = window[w].sent

\* The form holds the customer who was chosen, or will when the new one comes.
HoldsChosen(w) ==
    window[w].open /\ ~window[w].raced =>
      window[w].now.chosen = IF window[w].adding = None THEN window[w].now.cust
                                                         ELSE window[w].adding

Chosen ==
    /\ \A w \in Windows : HoldsChosen(w)
    /\ \A r \in wire : r.raced \/ r.of.cust = r.of.chosen

IInv ==
    /\ TypeOK /\ OneOpen /\ Sendable
    /\ OwnIds /\ OneIdPerFill /\ CreatedOnce
    /\ (\A w \in Windows : Waited(w)) /\ ToldIsCreated
    /\ Chosen /\ ForTheChosen

------------------------------------------------------------------------------
\* What the steps of a form do to its window.

\* The other windows stay as they are.
Alone(w) ==
    /\ window' \in [Windows -> Window]
    /\ \A v \in Windows \ {w} : window'[v] = window[v]

\* A step of the form: what was sent, and how it went, is left alone.
FormStep(w) ==
    /\ Alone(w)
    /\ UNCHANGED <<rows, logged, wire, active, told, presses>>
    /\ window'[w].sent = window[w].sent /\ window'[w].stage = window[w].stage
    /\ window'[w].doubt = window[w].doubt /\ window'[w].req = window[w].req
    /\ window'[w].now.win = w /\ window'[w].now.kind \in Kind(w)
    /\ \/ /\ \A v \in Windows : ~window[v].open
          /\ fills' = fills + 1
          /\ window'[w].open /\ window'[w].now.fill = fills + 1
       \/ /\ fills' = fills
          /\ \/ ~window'[w].open /\ window'[w].now.fill = 0
             \/ window'[w].open = window[w].open /\ window'[w].now.fill = window[w].now.fill
    /\ customers' \subseteq Customers

LEMMA KindOf ==
    ASSUME NEW w \in Windows
    PROVE  /\ Kind(w) \subseteq Test \cup Kind("certificate")
           /\ \A k \in Kind(w) : Nothing(w, k) \in Entry
           /\ Unused(w) \in Entry /\ Unused(w).win = w /\ Unused(w).kind \in Kind(w)
           /\ Unused(w).fill = 0
  <1>1. w \in Test \cup {"certificate"}  BY IntakeAssumption
  <1>2. Kind(w) \subseteq Test \cup Kind("certificate")  BY <1>1 DEF Kind
  <1>3. \E k \in Kind(w) : TRUE  BY DEF Kind
  <1>4. \A k \in Kind(w) : Nothing(w, k) \in Entry  BY <1>2 DEF Nothing, Entry
  <1>5. (CHOOSE k \in Kind(w) : TRUE) \in Kind(w)  BY <1>3
  <1>6. QED  BY <1>2, <1>4, <1>5 DEF Unused, Nothing

\* The actions on a form, and how each keeps the customer who was chosen in it.
LEMMA FormSteps ==
    ASSUME TypeOK, OneOpen, Chosen, NEW w \in Windows,
           \/ \E k \in Kind(w) : Open(w, k)
           \/ Hide(w)
           \/ \E c \in Customers : Choose(w, c)
           \/ \E i \in Items : AddSample(w, i) \/ RemoveSample(w, i)
           \/ \E c \in Customers : SaveNewCustomer(w, c)
           \/ NewCustomerComes(w) \/ NewCustomerFails(w)
    PROVE  FormStep(w) /\ HoldsChosen(w)'
  <1> USE DEF FormStep, Alone, HoldsChosen, Window, server
  <1>a. HoldsChosen(w) /\ window[w].now.win = w /\ window[w].now.kind \in Kind(w)
    BY DEF Chosen, OneOpen
  <1>b. window[w].now \in Entry /\ customers \subseteq Customers /\ None \notin Customers
    BY IntakeAssumption DEF TypeOK
  <1>c. window \in [Windows -> Window] /\ window[w] \in Window  BY DEF TypeOK
  <1>1. ASSUME NEW k \in Kind(w), Open(w, k)
        PROVE  FormStep(w) /\ HoldsChosen(w)'
    <2> DEFINE now == [Nothing(w, k) EXCEPT !.fill = fills + 1]
               new == [window[w] EXCEPT !.open = TRUE, !.raced = window[w].adding # None, !.now = now]
    <2>0. now \in Entry /\ now.fill = fills + 1 /\ now.win = w /\ now.kind = k
          /\ now.cust = None /\ now.chosen = None
      BY KindOf DEF TypeOK, Entry, Nothing
    <2> HIDE DEF now
    <2>1. new \in Window
      BY <1>c, <2>0
    <2>2. window' = [window EXCEPT ![w] = new]
      BY <1>1, <1>c DEF Open, now
    <2>3. Alone(w) /\ window'[w] = new
      BY <1>c, <2>1, <2>2
    <2>4. FormStep(w)
      BY <1>1, <1>b, <1>c, <2>0, <2>3 DEF Open
    <2>5. HoldsChosen(w)'
      BY <1>b, <1>c, <2>0, <2>3
    <2>6. QED  BY <2>4, <2>5
  <1>2. ASSUME Hide(w)
        PROVE  FormStep(w) /\ HoldsChosen(w)'
    <2> DEFINE new == [window[w] EXCEPT !.open = FALSE, !.now = Unused(w)]
    <2>1. new \in Window
      BY <1>2, <1>b, <1>c, KindOf DEF Hide, Entry
    <2>2. window' = [window EXCEPT ![w] = new]
      BY <1>2, <1>c DEF Hide
    <2>3. Alone(w) /\ window'[w] = new
      BY <1>c, <2>1, <2>2
    <2>4. FormStep(w)
      BY <1>2, <1>a, <1>b, <1>c, <2>3, KindOf DEF Hide, Entry
    <2>5. HoldsChosen(w)'
      BY <1>2, <1>a, <1>b, <1>c, <2>3, KindOf DEF Hide, Entry
    <2>6. QED  BY <2>4, <2>5
  <1>3. ASSUME NEW c \in Customers, Choose(w, c)
        PROVE  FormStep(w) /\ HoldsChosen(w)'
    <2> DEFINE new == [window[w] EXCEPT !.now.cust = c, !.now.chosen = c,
                                         !.raced = @ \/ window[w].adding # None]
    <2>1. new \in Window
      BY <1>3, <1>b, <1>c DEF Choose, Entry
    <2>2. window' = [window EXCEPT ![w] = new]
      BY <1>3, <1>c DEF Choose
    <2>3. Alone(w) /\ window'[w] = new
      BY <1>c, <2>1, <2>2
    <2>a. /\ new.sent = window[w].sent /\ new.stage = window[w].stage
          /\ new.doubt = window[w].doubt /\ new.req = window[w].req
          /\ new.open = window[w].open /\ new.now.chosen = c
          /\ new.now.win = window[w].now.win /\ new.now.kind = window[w].now.kind
          /\ new.now.fill = window[w].now.fill
          /\ new.adding = window[w].adding /\ new.now.cust = c
      BY <1>b, <1>c DEF Entry
    <2>b. new.raced = (window[w].raced \/ window[w].adding # None)
      BY <1>3, <1>c DEF Choose
    <2> HIDE DEF new
    <2>4. FormStep(w)
      BY <1>3, <1>a, <1>b, <2>3, <2>a DEF Choose
    <2>5. HoldsChosen(w)'
      BY <1>b, <1>c, <2>3, <2>a, <2>b
    <2>6. QED  BY <2>4, <2>5
  <1>4. ASSUME NEW e \in Entry, Enters(w, e),
               e.win = w, e.kind \in Kind(w), e.fill = window[w].now.fill,
               e.cust = window[w].now.cust, e.chosen = window[w].now.chosen
        PROVE  FormStep(w) /\ HoldsChosen(w)'
    <2> DEFINE new == [window[w] EXCEPT !.now = e]
    <2>1. new \in Window
      BY <1>4, <1>b, <1>c DEF Enters, Entry
    <2>2. window' = [window EXCEPT ![w] = new]
      BY <1>4, <1>c DEF Enters
    <2>3. Alone(w) /\ window'[w] = new
      BY <1>c, <2>1, <2>2
    <2>4. FormStep(w)
      BY <1>4, <1>a, <1>b, <1>c, <2>3 DEF Enters, Entry
    <2>5. HoldsChosen(w)'
      BY <1>4, <1>a, <1>b, <1>c, <2>3 DEF Enters, Entry
    <2>6. QED  BY <2>4, <2>5
  <1>5. ASSUME NEW c \in Customers, SaveNewCustomer(w, c)
        PROVE  FormStep(w) /\ HoldsChosen(w)'
    <2> DEFINE new == [window[w] EXCEPT !.adding = c, !.now.chosen = c]
    <2>1. new \in Window
      BY <1>5, <1>b, <1>c DEF SaveNewCustomer, Entry
    <2>2. window' = [window EXCEPT ![w] = new]
      BY <1>5, <1>c DEF SaveNewCustomer
    <2>3. Alone(w) /\ window'[w] = new
      BY <1>c, <2>1, <2>2
    <2>a. /\ new.sent = window[w].sent /\ new.stage = window[w].stage
          /\ new.doubt = window[w].doubt /\ new.req = window[w].req
          /\ new.open = window[w].open /\ new.now.chosen = c
          /\ new.now.win = window[w].now.win /\ new.now.kind = window[w].now.kind
          /\ new.now.fill = window[w].now.fill
          /\ new.adding = c
      BY <1>b, <1>c DEF Entry
    <2>b. c # None
      BY <1>5, <1>b
    <2> HIDE DEF new
    <2>4. FormStep(w)
      BY <1>5, <1>a, <1>b, <2>3, <2>a DEF SaveNewCustomer
    <2>5. HoldsChosen(w)'
      BY <1>b, <1>c, <2>3, <2>a, <2>b
    <2>6. QED  BY <2>4, <2>5
  <1>6. ASSUME NewCustomerComes(w)
        PROVE  FormStep(w) /\ HoldsChosen(w)'
    <2> DEFINE new == [window[w] EXCEPT !.adding = None,
                     !.now.cust = IF window[w].open THEN window[w].adding ELSE @]
    <2>1. new \in Window
      BY <1>6, <1>b, <1>c DEF NewCustomerComes, Entry
    <2>2. window' = [window EXCEPT ![w] = new]
      BY <1>6, <1>c DEF NewCustomerComes
    <2>3. Alone(w) /\ window'[w] = new
      BY <1>c, <2>1, <2>2
    <2>4. FormStep(w)
      BY <1>6, <1>a, <1>b, <1>c, <2>3 DEF NewCustomerComes, Entry
    <2>5. HoldsChosen(w)'
      BY <1>6, <1>a, <1>b, <1>c, <2>3 DEF NewCustomerComes, Entry
    <2>6. QED  BY <2>4, <2>5
  <1>7. ASSUME NewCustomerFails(w)
        PROVE  FormStep(w) /\ HoldsChosen(w)'
    <2> DEFINE new == [window[w] EXCEPT !.adding = None,
                     !.now.chosen = IF window[w].raced THEN @ ELSE window[w].now.cust]
    <2>1. new \in Window
      BY <1>7, <1>b, <1>c DEF NewCustomerFails, Entry
    <2>2. window' = [window EXCEPT ![w] = new]
      BY <1>7, <1>c DEF NewCustomerFails
    <2>3. Alone(w) /\ window'[w] = new
      BY <1>c, <2>1, <2>2
    <2>4. FormStep(w)
      BY <1>7, <1>a, <1>b, <1>c, <2>3 DEF NewCustomerFails, Entry
    <2>5. HoldsChosen(w)'
      BY <1>7, <1>a, <1>b, <1>c, <2>3 DEF NewCustomerFails, Entry
    <2>6. QED  BY <2>4, <2>5
  <1>8. ASSUME NEW i \in Items, AddSample(w, i) \/ RemoveSample(w, i)
        PROVE  FormStep(w) /\ HoldsChosen(w)'
    <2>1. \A S \in SUBSET Items :
            LET e == [window[w].now EXCEPT !.items = S]
            IN  /\ e \in Entry
                /\ e.win = w /\ e.kind \in Kind(w) /\ e.fill = window[w].now.fill
                /\ e.cust = window[w].now.cust /\ e.chosen = window[w].now.chosen
      BY <1>a, <1>b DEF Entry
    <2>2. window[w].now.items \cup {i} \in SUBSET Items /\ window[w].now.items \ {i} \in SUBSET Items
      BY <1>b DEF Entry
    <2>3. \/ Enters(w, [window[w].now EXCEPT !.items = window[w].now.items \cup {i}])
          \/ Enters(w, [window[w].now EXCEPT !.items = window[w].now.items \ {i}])
      BY <1>8 DEF AddSample, RemoveSample
    <2> HIDE DEF FormStep, HoldsChosen
    <2>4. QED  BY <1>4, <2>1, <2>2, <2>3
  <1>9. QED  BY <1>1, <1>2, <1>3, <1>5, <1>6, <1>7, <1>8

\* Such a step keeps everything.
LEMMA FormStepKeeps ==
    ASSUME IInv, NEW w \in Windows, FormStep(w), HoldsChosen(w)'
    PROVE  IInv'
  <1> USE DEF FormStep, Alone
  <1>0. fills \in Nat /\ fills' \in Nat /\ fills <= fills'
    BY DEF IInv, TypeOK
  <1>1. TypeOK'  BY <1>0 DEF IInv, TypeOK
  <1>2. OneOpen'  BY <1>0 DEF IInv, OneOpen
  <1>3. Sendable'  BY <1>0 DEF IInv, Sendable
  <1>4. OwnIds'  BY DEF IInv, OwnIds
  <1>5. OneIdPerFill'
    BY <1>0 DEF IInv, OneIdPerFill, Sendable
  <1>6. (\A v \in Windows : Waited(v))'
    BY DEF IInv, Waited
  <1>7. Chosen'  BY DEF IInv, Chosen, HoldsChosen
  <1>8. (CreatedOnce /\ ToldIsCreated /\ ForTheChosen)'
    BY DEF IInv, CreatedOnce, ToldIsCreated, ForTheChosen
  <1>9. QED  BY <1>1, <1>2, <1>3, <1>4, <1>5, <1>6, <1>7, <1>8 DEF IInv
------------------------------------------------------------------------------
\* The handlers that no request is needed for.

\* The form is kept with its identifier, or emptied.
HandlerStep(w) ==
    /\ Alone(w)
    /\ UNCHANGED <<customers, rows, logged, wire, fills, presses>>
    /\ \/ /\ window'[w].req = window[w].req /\ window'[w].now = window[w].now
          /\ window'[w].open = window[w].open /\ window'[w].raced = window[w].raced
          /\ window'[w].adding = window[w].adding
       \/ /\ window'[w].req \in {0, window[w].req}
          /\ ~window'[w].open /\ window'[w].now = Unused(w)
    /\ active' = active /\ told \subseteq told'
    /\ told' \in SUBSET [of : Entry, doubt : BOOLEAN]

LEMMA HandlerStepKeeps ==
    ASSUME IInv, NEW w \in Windows, HandlerStep(w), Waited(w)', ToldIsCreated'
    PROVE  IInv'
  <1> USE DEF HandlerStep, Alone
  <1>0. /\ window'[w].now.fill \in {0, window[w].now.fill}
        /\ window'[w].now.win = w /\ window'[w].now.kind \in Kind(w)
        /\ window'[w].open => window[w].open
        /\ window'[w].open <=> window'[w].now.fill # 0
    BY KindOf DEF IInv, OneOpen
  <1>1. TypeOK'  BY DEF IInv, TypeOK
  <1>2. OneOpen'  BY <1>0, 0 \in 0..fills DEF IInv, OneOpen, TypeOK
  <1>3. Sendable'  BY DEF IInv, Sendable, TypeOK
  <1>4. OwnIds'  BY DEF IInv, OwnIds, Sendable
  <1>5. OneIdPerFill'
    <2>1. \A v \in Windows : window'[v].now.fill # 0 =>
            window'[v].now.fill = window[v].now.fill /\ window'[v].req = window[v].req
      BY KindOf
    <2>2. (\A r \in wire : r.of.fill # 0) /\ (\A x \in rows : x.of.fill # 0)
      BY DEF IInv, Sendable
    <2>3. QED  BY <2>1, <2>2 DEF IInv, OneIdPerFill
  <1>6. (\A v \in Windows : Waited(v))'
    BY DEF IInv, Waited
  <1>7. Chosen'
    BY DEF IInv, Chosen, HoldsChosen
  <1>8. (CreatedOnce /\ ForTheChosen)'
    BY DEF IInv, CreatedOnce, ForTheChosen
  <1>9. QED  BY <1>1, <1>2, <1>3, <1>4, <1>5, <1>6, <1>7, <1>8 DEF IInv

LEMMA Handlers ==
    ASSUME IInv, NEW w \in Windows,
           Leave(w) \/ GiveUp(w) \/ Failure(w) \/ Success(w) \/ Close(w)
    PROVE  IInv'
  <1> USE DEF server
  <1>a. window \in [Windows -> Window] /\ window[w] \in Window /\ told \in SUBSET [of : Entry, doubt : BOOLEAN]
    BY DEF IInv, TypeOK
  <1>b. Waited(w) /\ ToldIsCreated  BY DEF IInv
  <1>c. /\ Unused(w) \in Entry
        /\ 0 \notin logged /\ \A r \in wire : r.req # 0
    BY KindOf DEF IInv, Sendable
  <1>1. ASSUME Leave(w)  PROVE  IInv'
    <2>1. Alone(w) /\ window'[w] = Blank(w)
      BY <1>1, <1>a, <1>c DEF Leave, Alone, Blank, Window
    <2>2. HandlerStep(w)
      BY <1>1, <1>a, <2>1 DEF HandlerStep, Leave, Blank
    <2>3. Waited(w)'
      BY <1>1, <1>c, <2>1 DEF Leave, Blank, Waited
    <2>4. ToldIsCreated'  BY <1>1, <1>b DEF Leave, ToldIsCreated
    <2>5. QED  BY <2>2, <2>3, <2>4, HandlerStepKeeps
  <1>2. ASSUME GiveUp(w)  PROVE  IInv'
    <2> DEFINE new == [window[w] EXCEPT !.stage = "failed", !.doubt = TRUE]
    <2>0. new \in Window  BY <1>a DEF Window
    <2>1. Alone(w) /\ window'[w] = new
      BY <1>2, <1>a, <2>0 DEF GiveUp, Alone
    <2>2. HandlerStep(w)
      BY <1>2, <1>a, <2>1 DEF HandlerStep, GiveUp, Window
    <2>3. Waited(w)'
      BY <1>2, <1>a, <2>1 DEF GiveUp, Waited, Window
    <2>4. ToldIsCreated'  BY <1>2, <1>b DEF GiveUp, ToldIsCreated
    <2>5. QED  BY <2>2, <2>3, <2>4, HandlerStepKeeps
  <1>3. ASSUME Failure(w)  PROVE  IInv'
    <2> DEFINE new == [window[w] EXCEPT !.stage = "idle", !.sent = Unused(w)]
    <2>0. new \in Window  BY <1>a, <1>c DEF Window
    <2>1. Alone(w) /\ window'[w] = new
      BY <1>3, <1>a, <2>0 DEF Failure, Alone
    <2>2. HandlerStep(w)
      BY <1>3, <1>a, <2>1 DEF HandlerStep, Failure, Window
    <2>3. Waited(w)'
      BY <1>3, <1>a, <1>b, <2>1 DEF Failure, Waited, Window
    <2>4. ToldIsCreated'  BY <1>3, <1>b DEF Failure, ToldIsCreated
    <2>5. QED  BY <2>2, <2>3, <2>4, HandlerStepKeeps
  <1>4. ASSUME Success(w)  PROVE  IInv'
    <2> DEFINE new == [window[w] EXCEPT !.stage = "reload"]
               t == [of |-> window[w].sent, doubt |-> window[w].doubt]
    <2>0. new \in Window /\ t \in [of : Entry, doubt : BOOLEAN]  BY <1>a DEF Window
    <2>1. Alone(w) /\ window'[w] = new
      BY <1>4, <1>a, <2>0 DEF Success, Alone
    <2>2. HandlerStep(w)
      BY <1>4, <1>a, <2>0, <2>1 DEF HandlerStep, Success, Window
    <2>a. t \in told' /\ t.of = window[w].sent /\ window[w].stage = "done"
          /\ UNCHANGED <<rows, logged, wire>>
      BY <1>4 DEF Success
    <2>b. /\ window'[w].sent = window[w].sent /\ window'[w].stage = "reload"
          /\ window'[w].doubt = window[w].doubt /\ window'[w].req = window[w].req
      BY <1>a, <2>1 DEF Window
    <2> HIDE DEF new, t
    <2>3. Waited(w)'
      BY <1>b, <2>a, <2>b DEF Waited
    <2>4. ToldIsCreated'  BY <1>4, <1>b DEF Success, ToldIsCreated, Waited
    <2>5. QED  BY <2>2, <2>3, <2>4, HandlerStepKeeps
  <1>5. ASSUME Close(w)  PROVE  IInv'
    <2> DEFINE new == [window[w] EXCEPT !.stage = "idle", !.open = FALSE, !.req = 0,
                         !.now = Unused(w), !.sent = Unused(w), !.doubt = FALSE]
    <2>0. new \in Window  BY <1>a, <1>c DEF Window
    <2>1. Alone(w) /\ window'[w] = new
      BY <1>5, <1>a, <2>0 DEF Close, Alone
    <2>2. HandlerStep(w)
      BY <1>5, <1>a, <2>1 DEF HandlerStep, Close, Window
    <2>3. Waited(w)'
      BY <1>5, <1>a, <1>c, <2>1 DEF Close, Waited, Window
    <2>4. ToldIsCreated'  BY <1>5, <1>b DEF Close, ToldIsCreated
    <2>5. QED  BY <2>2, <2>3, <2>4, HandlerStepKeeps
  <1>6. QED  BY <1>1, <1>2, <1>3, <1>4, <1>5
------------------------------------------------------------------------------
\* Save is pressed, and the server answers.

LEMMA PressKeeps ==
    ASSUME IInv, NEW w \in Windows, Press(w)
    PROVE  IInv'
  <1> DEFINE e == window[w].now
             q == IF window[w].req = 0 THEN presses + 1 ELSE window[w].req
             r == [req |-> q, of |-> e, raced |-> window[w].raced \/ window[w].adding # None]
             new == [window[w] EXCEPT !.stage = "sent", !.sent = e, !.req = q]
  <1>a. /\ window \in [Windows -> Window] /\ window[w] \in Window /\ e \in Entry
        /\ presses \in Nat /\ fills \in Nat
    BY DEF IInv, TypeOK, Window
  <1>b. /\ e.cust # None /\ e.items # {} /\ window[w].stage = "idle" /\ window[w].open
        /\ presses' = presses + 1 /\ fills' = fills
        /\ UNCHANGED <<customers, rows, logged, told>>
    BY DEF Press, server
  <1>c. window[w].req \in 0..presses /\ q \in 1..presses' /\ q \in Nat
    BY <1>a, <1>b DEF IInv, Sendable
  <1>d. new \in Window  BY <1>a, <1>c DEF Window
  <1>e. window' = [window EXCEPT ![w] = new]
    BY <1>a DEF Press
  <1>f. window'[w] = new /\ \A v \in Windows \ {w} : window'[v] = window[v]
    BY <1>a, <1>e
  <1>g. /\ new.open /\ new.now = e /\ new.req = q /\ new.sent = e /\ new.stage = "sent"
        /\ new.adding = window[w].adding /\ new.doubt = window[w].doubt
        /\ new.raced = window[w].raced
    BY <1>a, <1>b DEF Window
  <1>h. r \in [req : Nat, of : Entry, raced : BOOLEAN]
    BY <1>a, <1>c DEF Window
  <1>i. wire' = wire \cup {r}
    BY <1>f, <1>g DEF Press
  <1>j. e.win = w /\ e.kind \in Kind(w) /\ e.fill \in 1..fills
    BY <1>a, <1>b DEF IInv, OneOpen
  <1>k. active' \in SUBSET ((UNION {Kind(v) : v \in Windows}) \X Customers)
    <2>1. e.kind \in UNION {Kind(v) : v \in Windows}
      BY <1>j
    <2>2. e.cust \in Customers
      BY <1>a, <1>b DEF Entry
    <2>3. QED  BY <2>1, <2>2 DEF IInv, TypeOK, Press
  <1>l. r.req = q /\ r.of = e /\ (r.raced = (window[w].raced \/ window[w].adding # None))
    OBVIOUS
  <1>m. q = window[w].req \/ (q = presses + 1 /\ window[w].req = 0)
    OBVIOUS
  <1> HIDE DEF new, q, r
  <1>1. TypeOK'
    <2>1. window' \in [Windows -> Window]
      BY <1>a, <1>d, <1>e
    <2>2. wire' \in SUBSET [req : Nat, of : Entry, raced : BOOLEAN]
      BY <1>h, <1>i DEF IInv, TypeOK
    <2>3. QED  BY <1>a, <1>b, <1>k, <2>1, <2>2 DEF IInv, TypeOK
  <1>2. OneOpen'
    BY <1>a, <1>b, <1>f, <1>g DEF IInv, OneOpen
  <1>3. Sendable'
    BY <1>a, <1>b, <1>c, <1>f, <1>g, <1>i, <1>j, <1>l DEF IInv, Sendable
  <1>4. OwnIds'
    BY <1>a, <1>c, <1>f, <1>g, <1>i, <1>j, <1>l, <1>m DEF IInv, OwnIds, Sendable
  <1>5. OneIdPerFill'
    <2>1. \A s \in wire : s.of.fill = e.fill => s.req = q
      BY <1>a, <1>m DEF IInv, OneIdPerFill, Sendable
    <2>2. \A x \in rows : x.of.fill = e.fill => q \in logged
      BY <1>a, <1>m DEF IInv, OneIdPerFill, Sendable
    <2>3. \A v \in Windows : window[v].now.fill = e.fill => v = w
      BY <1>a, <1>b, <1>j DEF IInv, OneOpen
    <2>4. \A s, z \in wire' : s.of.fill = z.of.fill => s.req = z.req
      BY <1>i, <1>l, <2>1 DEF IInv, OneIdPerFill
    <2>5. \A s \in wire', v \in Windows :
            s.of.fill = window'[v].now.fill => s.req = window'[v].req
      BY <1>f, <1>g, <1>i, <1>l, <2>1, <2>3 DEF IInv, OneIdPerFill
    <2>6. \A x \in rows, s \in wire' : x.of.fill = s.of.fill => s.req \in logged
      BY <1>i, <1>l, <2>2 DEF IInv, OneIdPerFill
    <2>7. \A x \in rows, v \in Windows :
            x.of.fill = window'[v].now.fill => window'[v].req \in logged
      BY <1>f, <1>g, <2>2 DEF IInv, OneIdPerFill
    <2>8. QED  BY <1>b, <2>4, <2>5, <2>6, <2>7 DEF OneIdPerFill
  <1>6. ASSUME NEW v \in Windows  PROVE  Waited(v)'
    <2>1. CASE v = w
      <3>1. \A s \in wire : s.req = q => window[w].doubt
        BY <1>a, <1>b, <1>m DEF IInv, Waited, Sendable
      <3>2. q \in logged => window[w].doubt
        BY <1>a, <1>b, <1>m DEF IInv, Waited, Sendable
      <3>3. QED
        BY <1>b, <1>f, <1>g, <1>i, <1>j, <1>l, <2>1, <3>1, <3>2 DEF Waited
    <2>2. CASE v # w
      <3>1. window'[v] = window[v] /\ r.req # window[v].req
        BY <1>c, <1>f, <1>g, <1>l, <1>4, <2>2 DEF OwnIds
      <3>2. Waited(v)
        BY DEF IInv
      <3>3. QED
        BY <1>b, <1>i, <3>1, <3>2 DEF Waited
    <2>3. QED  BY <2>1, <2>2
  <1>7. Chosen'
    <2>1. \A v \in Windows : HoldsChosen(v)'
      <3>1. HoldsChosen(w)'
        BY <1>b, <1>f, <1>g DEF IInv, Chosen, HoldsChosen
      <3>2. ASSUME NEW v \in Windows \ {w}  PROVE  HoldsChosen(v)'
        BY <1>f DEF IInv, Chosen, HoldsChosen
      <3>3. QED  BY <3>1, <3>2
    <2>2. r.raced \/ r.of.cust = r.of.chosen
      BY <1>b, <1>l DEF IInv, Chosen, HoldsChosen
    <2>3. QED  BY <1>i, <2>1, <2>2 DEF IInv, Chosen
  <1>8. (CreatedOnce /\ ToldIsCreated /\ ForTheChosen)'
    BY <1>b DEF IInv, CreatedOnce, ToldIsCreated, ForTheChosen
  <1>9. QED  BY <1>1, <1>2, <1>3, <1>4, <1>5, <1>6, <1>7, <1>8 DEF IInv

\* The request leaves the wire; of the windows only how a save goes may change.
LEMMA Answered ==
    ASSUME IInv, NEW r \in wire, NEW how \in {"done", "failed"}, Answers(r, how)
    PROVE  /\ wire' = wire \ {r} /\ window' \in [Windows -> Window]
           /\ \A v \in Windows :
                /\ window'[v].open = window[v].open /\ window'[v].now = window[v].now
                /\ window'[v].req = window[v].req /\ window'[v].sent = window[v].sent
                /\ window'[v].adding = window[v].adding /\ window'[v].doubt = window[v].doubt
                /\ window'[v].raced = window[v].raced
                /\ window'[v].stage = IF /\ v = r.of.win /\ window[v].stage = "sent"
                                         /\ window[v].sent = r.of
                                      THEN how ELSE window[v].stage
  <1>1. window \in [Windows -> Window] /\ r.of.win \in Windows
    BY DEF IInv, TypeOK, Entry
  <1>2. wire' = wire \ {r}  BY DEF Answers
  <1>3. CASE window[r.of.win].stage = "sent" /\ window[r.of.win].sent = r.of
    <2> DEFINE new == [window[r.of.win] EXCEPT !.stage = how]
    <2>1. window' = [window EXCEPT ![r.of.win] = new]
      BY <1>1, <1>3 DEF Answers
    <2>2. new \in Window /\ window[r.of.win] \in Window
      BY <1>1 DEF Window
    <2>3. /\ new.open = window[r.of.win].open /\ new.now = window[r.of.win].now
          /\ new.req = window[r.of.win].req /\ new.sent = window[r.of.win].sent
          /\ new.adding = window[r.of.win].adding /\ new.doubt = window[r.of.win].doubt
          /\ new.raced = window[r.of.win].raced /\ new.stage = how
      BY <2>2 DEF Window
    <2> HIDE DEF new
    <2>4. window'[r.of.win] = new /\ \A v \in Windows \ {r.of.win} : window'[v] = window[v]
      BY <1>1, <2>1
    <2>5. QED  BY <1>1, <1>2, <1>3, <2>1, <2>2, <2>3, <2>4
  <1>4. CASE ~(window[r.of.win].stage = "sent" /\ window[r.of.win].sent = r.of)
    BY <1>1, <1>2, <1>4 DEF Answers
  <1>5. QED  BY <1>3, <1>4

\* Who waits for an entry that is answered waits for that request.
LEMMA WaitedFor ==
    ASSUME IInv, NEW r \in wire, NEW v \in Windows,
           window[v].stage = "sent", window[v].sent = r.of
    PROVE  r.req = window[v].req /\ r.of.win = v
  <1>1. PICK s \in wire : s.of = window[v].sent /\ s.req = window[v].req /\ s.of.win = v
    BY DEF IInv, Waited
  <1>2. QED  BY <1>1 DEF IInv, OneIdPerFill

LEMMA ServeKeeps ==
    ASSUME IInv, NEW r \in wire, Serve(r)
    PROVE  IInv'
  <1> DEFINE x == [n |-> Cardinality(rows) + 1, of |-> r.of, raced |-> r.raced]
  <1>a. Answers(r, "done")  BY DEF Serve
  <1>b. /\ logged' = logged \cup {r.req}
        /\ UNCHANGED <<customers, active, told, fills, presses>>
        /\ (r.req \in logged /\ rows' = rows) \/ (r.req \notin logged /\ rows' = rows \cup {x})
    BY DEF Serve
  <1>c. /\ r.req \in 1..presses /\ r.of.fill \in 1..fills /\ r.req \in Nat
        /\ r.of.cust # None /\ r.of.items # {} /\ r.of \in Entry /\ r.raced \in BOOLEAN
    BY DEF IInv, Sendable, TypeOK
  <1>d. x \in [n : Nat, of : Entry, raced : BOOLEAN] /\ x.of = r.of /\ x.raced = r.raced
    BY <1>c, FS_CardinalityType DEF IInv, Sendable
  <1>e. IsFiniteSet(rows \cup {x})
    BY FS_AddElement DEF IInv, Sendable
  <1> HIDE DEF x
  <1>1. TypeOK'
    BY <1>a, <1>b, <1>c, <1>d, Answered DEF IInv, TypeOK
  <1>2. OneOpen'
    BY <1>a, <1>b, Answered DEF IInv, OneOpen
  <1>3. Sendable'
    BY <1>a, <1>b, <1>c, <1>d, <1>e, Answered DEF IInv, Sendable
  <1>4. OwnIds'
    BY <1>a, Answered DEF IInv, OwnIds
  <1>5. OneIdPerFill'
    BY <1>a, <1>b, <1>d, Answered DEF IInv, OneIdPerFill
  <1>6. ASSUME NEW v \in Windows  PROVE  Waited(v)'
    <2> DEFINE hit == /\ v = r.of.win /\ window[v].stage = "sent" /\ window[v].sent = r.of
    <2>0. /\ wire' = wire \ {r}
          /\ window'[v].req = window[v].req /\ window'[v].sent = window[v].sent
          /\ window'[v].doubt = window[v].doubt
          /\ window'[v].stage = IF hit THEN "done" ELSE window[v].stage
      BY <1>a, Answered
    <2>1. Waited(v)  BY DEF IInv
    <2>2. hit => r.req = window[v].req  BY WaitedFor
    <2>3. r.req = window[v].req /\ ~window[v].doubt => hit
      BY <2>1 DEF IInv, OwnIds, Waited
    <2>4. \A s \in wire : s.of = r.of => s.of.win = r.of.win
      OBVIOUS
    <2> HIDE DEF hit
    <2>5. (window[v].stage = "sent" =>
            \E s \in wire : s.of = window[v].sent /\ s.req = window[v].req /\ s.of.win = v)'
      BY <2>0, <2>1 DEF Waited, hit
    <2>6. (window[v].req \in logged => window[v].doubt \/ window[v].stage \in {"done", "reload"})'
      BY <1>b, <2>0, <2>1, <2>3 DEF Waited, hit
    <2>7. (\A s \in wire : s.req = window[v].req /\ ~window[v].doubt =>
            /\ window[v].stage = "sent" /\ s.of = window[v].sent
            /\ \A z \in wire : z.req = s.req => z = s)'
      BY <2>0, <2>1, <2>2 DEF Waited
    <2>8. (window[v].stage = "done" =>
            window[v].doubt \/ \E y \in rows : y.of = window[v].sent)'
      <3>1. CASE hit
        <4>1. r.req \in logged => window[v].doubt
          BY <2>1, <2>2, <3>1 DEF Waited, hit
        <4>2. x.of = window[v].sent
          BY <1>d, <3>1 DEF hit
        <4>3. QED  BY <1>b, <2>0, <4>1, <4>2
      <3>2. CASE ~hit
        BY <1>b, <2>0, <2>1, <3>2 DEF Waited
      <3>3. QED  BY <3>1, <3>2
    <2>9. (window[v].stage = "reload" => \E t \in told : t.of = window[v].sent)'
      BY <1>b, <2>0, <2>1 DEF Waited
    <2>10. QED  BY <2>5, <2>6, <2>7, <2>8, <2>9 DEF Waited
  <1>7. Chosen' /\ ForTheChosen'
    <2>1. \A v \in Windows : HoldsChosen(v)'
      BY <1>a, Answered DEF IInv, Chosen, HoldsChosen
    <2>2. r.raced \/ r.of.cust = r.of.chosen
      BY DEF IInv, Chosen
    <2>3. QED  BY <1>a, <1>b, <1>d, <2>1, <2>2, Answered DEF IInv, Chosen, ForTheChosen
  <1>8. (CreatedOnce /\ ToldIsCreated)'
    <2>1. r.req \notin logged => \A y \in rows : y.of.fill # x.of.fill
      BY <1>d DEF IInv, OneIdPerFill
    <2>2. QED  BY <1>b, <2>1 DEF IInv, CreatedOnce, ToldIsCreated
  <1>9. QED  BY <1>1, <1>2, <1>3, <1>4, <1>5, <1>6, <1>7, <1>8 DEF IInv

LEMMA UnservedKeeps ==
    ASSUME IInv, NEW r \in wire, Refuse(r) \/ Drop(r)
    PROVE  IInv'
  <1> DEFINE hit(v) == /\ Refuse(r)
                       /\ v = r.of.win /\ window[v].stage = "sent" /\ window[v].sent = r.of
  <1>1. /\ UNCHANGED <<customers, rows, logged, active, told, fills, presses>>
        /\ wire' = wire \ {r} /\ window' \in [Windows -> Window]
        /\ \A v \in Windows :
             /\ window'[v].open = window[v].open /\ window'[v].now = window[v].now
             /\ window'[v].req = window[v].req /\ window'[v].sent = window[v].sent
             /\ window'[v].adding = window[v].adding /\ window'[v].doubt = window[v].doubt
             /\ window'[v].raced = window[v].raced
             /\ window'[v].stage = IF hit(v) THEN "failed" ELSE window[v].stage
    <2>1. CASE Refuse(r)
      <3>1. Answers(r, "failed")  BY <2>1 DEF Refuse
      <3>2. QED  BY <2>1, <3>1, Answered DEF Refuse, server
    <2>2. CASE Drop(r) /\ ~Refuse(r)
      BY <2>2 DEF Drop, server, IInv, TypeOK
    <2>3. QED  BY <2>1, <2>2
  <1> HIDE DEF hit
  <1>2. (TypeOK /\ OneOpen /\ Sendable /\ OwnIds /\ OneIdPerFill)'
    <2>1. TypeOK'  BY <1>1 DEF IInv, TypeOK
    <2>2. OneOpen'  BY <1>1 DEF IInv, OneOpen
    <2>3. Sendable'  BY <1>1 DEF IInv, Sendable
    <2>4. OwnIds'  BY <1>1 DEF IInv, OwnIds
    <2>5. OneIdPerFill'  BY <1>1 DEF IInv, OneIdPerFill
    <2>6. QED  BY <2>1, <2>2, <2>3, <2>4, <2>5
  <1>3. ASSUME NEW v \in Windows  PROVE  Waited(v)'
    <2>1. Waited(v)  BY DEF IInv
    <2>2. hit(v) => r.req = window[v].req /\ r.req \notin logged
      BY WaitedFor DEF hit, Refuse
    <2>3. window[v].stage = "sent" /\ window[v].sent = r.of => hit(v) \/ v # r.of.win
      BY DEF hit, Drop
    <2>4. hit(v) => window[v].stage = "sent"  BY DEF hit
    <2>5. (window[v].stage = "sent" =>
            \E s \in wire : s.of = window[v].sent /\ s.req = window[v].req /\ s.of.win = v)'
      BY <1>1, <2>1, <2>3 DEF Waited
    <2>6. (\A s \in wire : s.req = window[v].req /\ ~window[v].doubt =>
            /\ window[v].stage = "sent" /\ s.of = window[v].sent
            /\ \A z \in wire : z.req = s.req => z = s)'
      BY <1>1, <2>1, <2>2 DEF Waited
    <2>7. QED  BY <1>1, <2>1, <2>2, <2>4, <2>5, <2>6 DEF Waited
  <1>4. (Chosen /\ CreatedOnce /\ ToldIsCreated /\ ForTheChosen)'
    BY <1>1 DEF IInv, Chosen, HoldsChosen, CreatedOnce, ToldIsCreated, ForTheChosen
  <1>5. QED  BY <1>2, <1>3, <1>4 DEF IInv

------------------------------------------------------------------------------
LEMMA InitInv == Init => IInv
  <1> SUFFICES ASSUME Init PROVE IInv  OBVIOUS
  <1> USE DEF Init
  <1>1. \A w \in Windows : /\ Blank(w) \in Window /\ window[w] = Blank(w)
                           /\ Blank(w).now = Unused(w) /\ Blank(w).req = 0
                           /\ Blank(w).stage = "idle" /\ ~Blank(w).open
    BY KindOf DEF Blank, Window
  <1>2. TypeOK
    BY <1>1, IntakeAssumption DEF TypeOK
  <1>3. OneOpen
    BY <1>1, KindOf DEF OneOpen
  <1>4. Sendable
    BY <1>1, FS_EmptySet DEF Sendable
  <1>5. OwnIds /\ OneIdPerFill /\ CreatedOnce /\ ToldIsCreated /\ ForTheChosen
    BY <1>1 DEF OwnIds, OneIdPerFill, CreatedOnce, ToldIsCreated, ForTheChosen
  <1>6. (\A w \in Windows : Waited(w)) /\ Chosen
    BY <1>1 DEF Waited, Chosen, HoldsChosen
  <1>7. QED  BY <1>2, <1>3, <1>4, <1>5, <1>6 DEF IInv

LEMMA Step == IInv /\ [Next]_vars => IInv'
  <1> SUFFICES ASSUME IInv, [Next]_vars PROVE IInv'  OBVIOUS
  <1>1. ASSUME NEW w \in Windows,
               \/ \E k \in Kind(w) : Open(w, k)
               \/ Hide(w)
               \/ \E c \in Customers : Choose(w, c)
               \/ \E i \in Items : AddSample(w, i) \/ RemoveSample(w, i)
               \/ \E c \in Customers : SaveNewCustomer(w, c)
               \/ NewCustomerComes(w) \/ NewCustomerFails(w)
        PROVE  IInv'
    <2>1. FormStep(w) /\ HoldsChosen(w)'  BY <1>1, FormSteps DEF IInv
    <2>2. QED  BY <2>1, FormStepKeeps
  <1>2. ASSUME NEW w \in Windows,
               Leave(w) \/ GiveUp(w) \/ Failure(w) \/ Success(w) \/ Close(w)
        PROVE  IInv'
    BY <1>2, Handlers
  <1>3. ASSUME NEW w \in Windows, Press(w)  PROVE  IInv'
    BY <1>3, PressKeeps
  <1>4. ASSUME NEW r \in wire, Serve(r) \/ Refuse(r) \/ Drop(r)  PROVE  IInv'
    BY <1>4, ServeKeeps, UnservedKeeps
  <1>5. ASSUME UNCHANGED <<customers, rows, logged, wire, window, told, fills, presses>>,
               active' \subseteq active
        PROVE  IInv'
    BY <1>5 DEF IInv, TypeOK, OneOpen, Sendable, OwnIds, OneIdPerFill, CreatedOnce,
                Waited, ToldIsCreated, Chosen, HoldsChosen, ForTheChosen
  <1>6. CASE \E k \in active : Released(k)
    BY <1>5, <1>6 DEF Released, server
  <1>7. CASE UNCHANGED vars
    BY <1>5, <1>7 DEF vars
  <1>8. QED  BY <1>1, <1>2, <1>3, <1>4, <1>6, <1>7 DEF Next

LEMMA Invariance == Spec => []IInv
  BY InitInv, Step, PTL DEF Spec

\* Every variable keeps its type; a record has a customer and an item.
THEOREM TypeCorrect == Spec => []TypeOK
  <1>1. IInv => TypeOK  BY DEF IInv
  <1>2. QED  BY <1>1, Invariance, PTL

\* One test or certificate comes of one filling of a form, however often Save is
\* pressed and whatever answers are lost (submitReqRef, request_log).
THEOREM CreatedOnceCorrect == Spec => []CreatedOnce
  <1>1. IInv => CreatedOnce  BY DEF IInv
  <1>2. QED  BY <1>1, Invariance, PTL

\* A success is shown for what was created as it was entered, when no request of
\* that identifier was given up.
THEOREM ToldIsCreatedCorrect == Spec => []ToldIsCreated
  <1>1. IInv => ToldIsCreated  BY DEF IInv
  <1>2. QED  BY <1>1, Invariance, PTL

\* What is created is for the customer chosen last in the form.
THEOREM ForTheChosenCorrect == Spec => []ForTheChosen
  <1>1. IInv => ForTheChosen  BY DEF IInv
  <1>2. QED  BY <1>1, Invariance, PTL

\* Of the steps that end a save, only close hides the window, and it comes after
\* the success of what was sent was shown.
LEMMA OnlyCloseHides ==
    ASSUME IInv, [Next]_vars, NEW w \in Windows,
           window[w].open, ~window'[w].open, window'[w].stage # window[w].stage
    PROVE  Close(w)
  <1>a. window \in [Windows -> Window] /\ \A v \in Windows : window[v] \in Window
    BY DEF IInv, TypeOK
  <1>1. ASSUME NEW v \in Windows, FormStep(v)  PROVE  FALSE
    BY <1>1 DEF FormStep, Alone
  <1>2. ASSUME NEW v \in Windows,
               \/ \E k \in Kind(v) : Open(v, k)
               \/ Hide(v)
               \/ \E c \in Customers : Choose(v, c)
               \/ \E i \in Items : AddSample(v, i) \/ RemoveSample(v, i)
               \/ \E c \in Customers : SaveNewCustomer(v, c)
               \/ NewCustomerComes(v) \/ NewCustomerFails(v)
        PROVE  FALSE
    BY <1>1, <1>2, FormSteps DEF IInv
  <1>3. ASSUME NEW v \in Windows, GiveUp(v) \/ Failure(v) \/ Success(v) \/ Press(v)
        PROVE  FALSE
    BY <1>a, <1>3 DEF GiveUp, Failure, Success, Press, Window
  <1>4. ASSUME NEW v \in Windows, Leave(v)  PROVE  FALSE
    BY <1>a, <1>4 DEF Leave, Blank, Window
  <1>5. ASSUME NEW v \in Windows \ {w}, Close(v)  PROVE  FALSE
    BY <1>a, <1>5 DEF Close
  <1>6. ASSUME NEW r \in wire, Serve(r) \/ Refuse(r)  PROVE  FALSE
    <2>1. PICK how \in {"done", "failed"} : Answers(r, how)
      BY <1>6 DEF Serve, Refuse
    <2>2. QED  BY <2>1, Answered
  <1>7. ~UNCHANGED window
    OBVIOUS
  <1>8. QED  BY <1>2, <1>3, <1>4, <1>5, <1>6, <1>7 DEF Next, vars, Released, Drop

\* A form that the end of a save closes on the clerk is one whose success was
\* shown (Success and close of NewGoldTestModal.js).
THEOREM ClosedWhenToldCorrect == Spec => ClosedWhenTold
  <1> DEFINE Quiet ==
        \A w \in Windows :
          (window[w].open /\ ~window'[w].open /\ window'[w].stage # window[w].stage)
             => \E t \in told : t.of = window[w].sent
  <1>1. IInv /\ [Next]_vars => [Quiet]_vars
    <2> SUFFICES ASSUME IInv, [Next]_vars, NEW w \in Windows,
                        window[w].open, ~window'[w].open, window'[w].stage # window[w].stage
                 PROVE  \E t \in told : t.of = window[w].sent
      OBVIOUS
    <2>1. Close(w)  BY OnlyCloseHides
    <2>2. QED  BY <2>1 DEF Close, IInv, Waited
  <1>2. QED  BY <1>1, Invariance, PTL DEF Spec, ClosedWhenTold

------------------------------------------------------------------------------
\* The workflow board (module Desk).

LEMMA ViewIs ==
    ASSUME NEW v \in Board!View
    PROVE  /\ v.copy \in [Cards -> Board!Copy] /\ v.last \in [Cards -> Nat] /\ v.pend \subseteq Cards
           /\ v.calls \subseteq Board!Call /\ v.fetch \in Board!Fetch
           /\ v.drop \in [Board!Drops -> Board!Drop]
           /\ v.modal \in Board!Modal /\ v.after \in Cards \cup {None}
           /\ v.batch \in Board!Batch /\ v.on \in BOOLEAN
           /\ v.knew \in [Cards -> Nat] /\ v.excuse \subseteq Cards
           /\ v.raced \subseteq Board!Holders \X Cards
BY DEF Board!View

\* A drop is a hand and a card.
LEMMA DropIs ==
    ASSUME NEW k \in Board!Drops
    PROVE  /\ k[1] \in Hands /\ k[2] \in Cards /\ k = <<k[1], k[2]>>
           /\ k \in Board!Holders \X Cards /\ k[1] \in Board!Holders
BY DEF Board!Drops, Board!Holders

LEMMA OneDropIs ==
    ASSUME NEW v \in Board!View, NEW w, NEW k \in Board!Drops, NEW x, w.drop = [v.drop EXCEPT ![k] = x]
    PROVE  w.drop[k] = x /\ \A j \in Board!Drops \ {k} : w.drop[j] = v.drop[j]
BY ViewIs

\* What is done to a view, field by field.
LEMMA ExcusedView ==
    ASSUME NEW v \in Board!View, NEW S \in SUBSET Cards
    PROVE  LET w == Board!Excused(v, S)
           IN  /\ w \in Board!View /\ w.excuse = v.excuse \cup S
               /\ w.copy = v.copy /\ w.last = v.last /\ w.pend = v.pend /\ w.calls = v.calls
               /\ w.fetch = v.fetch /\ w.drop = v.drop /\ w.recent = v.recent /\ w.modal = v.modal
               /\ w.batch = v.batch /\ w.on = v.on /\ w.knew = v.knew /\ w.raced = v.raced
BY DEF Board!View, Board!Excused

LEMMA RefetchView ==
    ASSUME NEW v \in Board!View
    PROVE  LET w == Board!Refetch(v)
           IN  /\ w \in Board!View /\ w.fetch.stage = "asked"
               /\ w.copy = v.copy /\ w.last = v.last /\ w.pend = v.pend /\ w.calls = v.calls
               /\ w.drop = v.drop /\ w.recent = v.recent /\ w.modal = v.modal /\ w.batch = v.batch
               /\ w.on = v.on /\ w.knew = v.knew /\ w.excuse = v.excuse /\ w.raced = v.raced
<1>1. [Board!NoFetch EXCEPT !.stage = "asked"] \in Board!Fetch
  BY DEF Board!NoFetch, Board!Fetch, Board!NoAnswer, Board!Answer
<1>2. [Board!NoFetch EXCEPT !.stage = "asked"].stage = "asked"
  BY DEF Board!NoFetch
<1> QED BY <1>1, <1>2 DEF Board!View, Board!Refetch

LEMMA HiddenView ==
    ASSUME NEW v \in Board!View
    PROVE  LET w == Board!Hidden(v)
           IN  /\ w \in Board!View /\ ~w.modal.open
               /\ w.copy = v.copy /\ w.last = v.last /\ w.pend = v.pend /\ w.calls = v.calls
               /\ w.fetch = v.fetch /\ w.drop = v.drop /\ w.recent = v.recent /\ w.batch = v.batch
               /\ w.on = v.on /\ w.knew = v.knew /\ w.excuse = v.excuse /\ w.raced = v.raced
<1>1. [v.modal EXCEPT !.open = FALSE] \in Board!Modal /\ ~[v.modal EXCEPT !.open = FALSE].open
  BY ViewIs DEF Board!Modal
<1> QED BY <1>1 DEF Board!View, Board!Hidden

LEMMA NoDropIs ==
    /\ Board!NoDrop \in Board!Drop /\ Board!NoDrop.stage = "none" /\ Board!NoDrop.before = Board!Blank
    /\ Board!OverDrop \in Board!Drop /\ Board!OverDrop.stage = "over" /\ Board!OverDrop.before = Board!Blank
<1>1. Board!NoDrop \in Board!Drop
  BY DEF Board!NoDrop, Board!Drop, Board!Blank, Board!Copy, Board!NoAnswer, Board!Answer, Board!Columns
<1>2. Board!NoDrop.stage = "none" /\ Board!NoDrop.before = Board!Blank
  BY DEF Board!NoDrop
<1>3. Board!OverDrop \in Board!Drop
  BY <1>1 DEF Board!OverDrop, Board!Drop
<1>4. Board!OverDrop.stage = "over" /\ Board!OverDrop.before = Board!NoDrop.before
  BY <1>1 DEF Board!OverDrop, Board!Drop
<1> QED BY <1>1, <1>2, <1>3, <1>4

LEMMA DropOverView ==
    ASSUME NEW v \in Board!View, NEW k \in Board!Drops
    PROVE  LET w == Board!DropOver(v, k)
           IN  /\ w \in Board!View /\ w.drop = [v.drop EXCEPT ![k] = Board!OverDrop]
               /\ w.copy = v.copy /\ w.last = v.last /\ w.pend = v.pend /\ w.calls = v.calls
               /\ w.fetch = v.fetch /\ w.recent = v.recent /\ w.modal = v.modal /\ w.batch = v.batch
               /\ w.on = v.on /\ w.knew = v.knew /\ w.excuse = v.excuse /\ w.raced = v.raced
<1>1. [v.drop EXCEPT ![k] = Board!OverDrop] \in [Board!Drops -> Board!Drop]
  BY NoDropIs, ViewIs
<1> QED BY <1>1 DEF Board!View, Board!DropOver

LEMMA ReplacedView ==
    ASSUME NEW v \in Board!View, NEW c \in Cards, NEW a \in Board!Answer, a.st # "none"
    PROVE  LET w == Board!Replaced(v, c, a)
           IN  /\ w \in Board!View
               /\ w.copy = IF Board!Shown(v, c)
                             THEN [v.copy EXCEPT ![c] = [cols |-> v.copy[c].cols, st |-> a.st]]
                             ELSE v.copy
               /\ w.last = v.last /\ w.pend = v.pend /\ w.calls = v.calls
               /\ w.fetch = v.fetch /\ w.drop = v.drop /\ w.recent = v.recent /\ w.modal = v.modal
               /\ w.batch = v.batch /\ w.on = v.on /\ w.knew = v.knew /\ w.excuse = v.excuse
               /\ w.raced = v.raced
<1>1. [cols |-> v.copy[c].cols, st |-> a.st] \in Board!Copy
  BY ViewIs DEF Board!Copy, Board!Answer
<1>2. [v.copy EXCEPT ![c] = [cols |-> v.copy[c].cols, st |-> a.st]] \in [Cards -> Board!Copy]
  BY <1>1, ViewIs
<1>3. CASE Board!Shown(v, c)
  <2>1. Board!Replaced(v, c, a) = [v EXCEPT !.copy[c] = [cols |-> @.cols, st |-> a.st]]
    BY <1>3, Zenon DEF Board!Replaced
  <2> QED BY <1>2, <1>3, <2>1 DEF Board!View
<1>4. CASE ~Board!Shown(v, c)
  BY <1>4 DEF Board!Replaced
<1> QED BY <1>3, <1>4

LEMMA PrependedView ==
    ASSUME NEW v \in Board!View, NEW c \in Cards, NEW a \in Board!Answer, a.st # "none"
    PROVE  LET w == Board!Prepended(v, c, a)
           IN  /\ w \in Board!View
               /\ w.copy = [v.copy EXCEPT ![c] = [cols |-> {a.st}, st |-> a.st]]
               /\ w.last = v.last /\ w.pend = v.pend /\ w.calls = v.calls
               /\ w.fetch = v.fetch /\ w.drop = v.drop /\ w.recent = v.recent /\ w.modal = v.modal
               /\ w.batch = v.batch /\ w.on = v.on /\ w.knew = v.knew /\ w.excuse = v.excuse
               /\ w.raced = v.raced
<1>1. [cols |-> {a.st}, st |-> a.st] \in Board!Copy
  BY DEF Board!Copy, Board!Answer
<1>2. [v.copy EXCEPT ![c] = [cols |-> {a.st}, st |-> a.st]] \in [Cards -> Board!Copy]
  BY <1>1, ViewIs
<1> QED BY <1>2 DEF Board!View, Board!Prepended

Noted(v, w, c, a) ==
    /\ w \in Board!View
    /\ w.last = [v.last EXCEPT ![c] = a.ver]
    /\ w.knew = [v.knew EXCEPT ![c] = Board!Later(v.knew[c], a.ver)]
    /\ w.excuse = IF Board!Shown(v, c) /\ a.st = cards[c].st THEN v.excuse \ {c} ELSE v.excuse
    /\ w.copy = v.copy /\ w.pend = v.pend /\ w.calls = v.calls
    /\ w.fetch = v.fetch /\ w.drop = v.drop /\ w.recent = v.recent /\ w.modal = v.modal
    /\ w.batch = v.batch /\ w.on = v.on /\ w.raced = v.raced

LEMMA SeenView ==
    ASSUME NEW v \in Board!View, NEW c \in Cards, NEW a \in Board!Answer
    PROVE  Noted(v, Board!Seen(v, c, a), c, a)
<1>1. [v.last EXCEPT ![c] = a.ver] \in [Cards -> Nat]
  BY ViewIs DEF Board!Answer
<1>2. [v.knew EXCEPT ![c] = Board!Later(v.knew[c], a.ver)] \in [Cards -> Nat]
  BY ViewIs DEF Board!Answer, Board!Later
<1>3. v.excuse \ {c} \in SUBSET Cards /\ v.excuse \in SUBSET Cards
  BY ViewIs
<1>4. CASE Board!Shown(v, c) /\ a.st = cards[c].st
  BY <1>1, <1>2, <1>3, <1>4 DEF Board!View, Board!Seen, Noted
<1>5. CASE ~(Board!Shown(v, c) /\ a.st = cards[c].st)
  BY <1>1, <1>2, <1>3, <1>5 DEF Board!View, Board!Seen, Noted
<1> QED BY <1>4, <1>5

LEMMA IgnoredView ==
    ASSUME NEW v \in Board!View, NEW c \in Cards, cards[c].ver \in Nat
    PROVE  LET w == Board!Ignored(v, c)
           IN  /\ w \in Board!View
               /\ w.knew = [v.knew EXCEPT ![c] = cards[c].ver]
               /\ v.excuse \subseteq w.excuse /\ w.excuse \subseteq v.excuse \cup {c}
               /\ v.copy[c].st # cards[c].st => c \in w.excuse
               /\ w.copy = v.copy /\ w.last = v.last /\ w.pend = v.pend /\ w.calls = v.calls
               /\ w.fetch = v.fetch /\ w.drop = v.drop /\ w.recent = v.recent /\ w.modal = v.modal
               /\ w.batch = v.batch /\ w.on = v.on /\ w.raced = v.raced
<1> DEFINE e == v.excuse \cup {x \in {c} : v.copy[c].st # cards[c].st}
<1>1. [v.knew EXCEPT ![c] = cards[c].ver] \in [Cards -> Nat]
  BY ViewIs
<1>2. /\ e \subseteq Cards /\ v.excuse \subseteq e /\ e \subseteq v.excuse \cup {c}
      /\ v.copy[c].st # cards[c].st => c \in e
  BY ViewIs
<1>3. Board!Ignored(v, c) = [v EXCEPT !.knew[c] = cards[c].ver, !.excuse = e]
  BY Zenon DEF Board!Ignored
<1> HIDE DEF e
<1> DEFINE w == [v EXCEPT !.knew[c] = cards[c].ver, !.excuse = e]
<1>4. /\ w \in Board!View
      /\ w.knew = [v.knew EXCEPT ![c] = cards[c].ver] /\ w.excuse = e
      /\ w.copy = v.copy /\ w.last = v.last /\ w.pend = v.pend /\ w.calls = v.calls
      /\ w.fetch = v.fetch /\ w.drop = v.drop /\ w.recent = v.recent /\ w.modal = v.modal
      /\ w.batch = v.batch /\ w.on = v.on /\ w.raced = v.raced
  BY <1>1, <1>2 DEF Board!View
<1> HIDE DEF w
<1>5. Board!Ignored(v, c) = w
  BY <1>3 DEF w
<1> QED BY <1>2, <1>4, <1>5

\* Putting the board back leaves the card's handler over and excuses what is old.
LEMMA PutBackView ==
    ASSUME NEW v \in Board!View, NEW k \in Board!Drops
    PROVE  LET w == Board!PutBack(v, k)
               b == v.drop[k].before
           IN  /\ w \in Board!View
               /\ w.copy = b /\ w.drop = [v.drop EXCEPT ![k] = Board!OverDrop]
               /\ w.excuse = v.excuse \cup {x \in Cards : b[x].st # Board!About(x).st}
               /\ w.last = v.last /\ w.pend = v.pend /\ w.calls = v.calls
               /\ w.fetch = v.fetch /\ w.recent = v.recent /\ w.modal = v.modal
               /\ w.batch = v.batch /\ w.on = v.on /\ w.knew = v.knew /\ w.raced = v.raced
<1> DEFINE b == v.drop[k].before
           u == [v EXCEPT !.copy = b]
           S == {x \in Cards : b[x].st # Board!About(x).st}
<1>1. b \in [Cards -> Board!Copy]
  BY ViewIs DEF Board!Drop
<1> HIDE DEF b
<1>2. /\ u \in Board!View /\ u.copy = b
      /\ u.last = v.last /\ u.pend = v.pend /\ u.calls = v.calls /\ u.drop = v.drop
      /\ u.fetch = v.fetch /\ u.recent = v.recent /\ u.modal = v.modal /\ u.excuse = v.excuse
      /\ u.batch = v.batch /\ u.on = v.on /\ u.knew = v.knew /\ u.raced = v.raced
  BY <1>1 DEF Board!View
<1>3. Board!PutBack(v, k) = Board!DropOver(Board!Excused(u, S), k)
  BY DEF Board!PutBack, b
<1>4. S \in SUBSET Cards
  OBVIOUS
<1> HIDE DEF u, S
<1>5. LET w == Board!Excused(u, S)
      IN  /\ w \in Board!View /\ w.excuse = v.excuse \cup S
          /\ w.copy = b /\ w.last = v.last /\ w.pend = v.pend /\ w.calls = v.calls
          /\ w.fetch = v.fetch /\ w.drop = v.drop /\ w.recent = v.recent /\ w.modal = v.modal
          /\ w.batch = v.batch /\ w.on = v.on /\ w.knew = v.knew /\ w.raced = v.raced
  BY <1>2, <1>4, ExcusedView
<1>6. LET w == Board!DropOver(Board!Excused(u, S), k)
      IN  /\ w \in Board!View /\ w.drop = [v.drop EXCEPT ![k] = Board!OverDrop]
          /\ w.copy = b /\ w.last = v.last /\ w.pend = v.pend /\ w.calls = v.calls
          /\ w.fetch = v.fetch /\ w.recent = v.recent /\ w.modal = v.modal /\ w.batch = v.batch
          /\ w.on = v.on /\ w.knew = v.knew /\ w.excuse = v.excuse \cup S /\ w.raced = v.raced
  BY <1>5, DropOverView
<1> QED BY <1>3, <1>6, Zenon DEF b, S

\* What a drop or an answer makes of one drop.
LEMMA DropSetView ==
    ASSUME NEW v \in Board!View, NEW k \in Board!Drops, NEW x \in Board!Drop
    PROVE  LET w == [v EXCEPT !.drop[k] = x]
           IN  /\ w \in Board!View /\ w.drop = [v.drop EXCEPT ![k] = x]
               /\ w.copy = v.copy /\ w.last = v.last /\ w.pend = v.pend /\ w.calls = v.calls
               /\ w.fetch = v.fetch /\ w.recent = v.recent /\ w.modal = v.modal /\ w.batch = v.batch
               /\ w.on = v.on /\ w.knew = v.knew /\ w.excuse = v.excuse /\ w.raced = v.raced
<1>1. [v.drop EXCEPT ![k] = x] \in [Board!Drops -> Board!Drop]
  BY ViewIs
<1> QED BY <1>1 DEF Board!View

LEMMA NoBatchIs == Board!NoBatch \in Board!Batch /\ Board!NoBatch.card = None
BY DEF Board!NoBatch, Board!Batch

LEMMA BatchView ==
    ASSUME NEW v \in Board!View, NEW b \in Board!Batch
    PROVE  LET w == [v EXCEPT !.batch = b]
           IN  /\ w \in Board!View /\ w.batch = b
               /\ w.copy = v.copy /\ w.last = v.last /\ w.pend = v.pend /\ w.calls = v.calls
               /\ w.fetch = v.fetch /\ w.drop = v.drop /\ w.recent = v.recent /\ w.modal = v.modal
               /\ w.on = v.on /\ w.knew = v.knew /\ w.excuse = v.excuse /\ w.raced = v.raced
BY DEF Board!View

LEMMA BatchedOneView ==
    ASSUME NEW v \in Board!View, NEW c \in Cards
    PROVE  LET w == Board!BatchedOne(v, c)
           IN  /\ w \in Board!View /\ w.batch.card = None
               /\ w.fetch = v.fetch \/ w.fetch.stage = "asked"
               /\ w.copy = v.copy /\ w.last = v.last /\ w.pend = v.pend /\ w.calls = v.calls
               /\ w.drop = v.drop /\ w.recent = v.recent /\ w.modal = v.modal
               /\ w.on = v.on /\ w.knew = v.knew /\ w.excuse = v.excuse /\ w.raced = v.raced
<1> DEFINE b == [Board!NoBatch EXCEPT !.todo = v.batch.todo \ {c}]
           w == [v EXCEPT !.batch = b]
<1>1. b \in Board!Batch /\ b.card = None
  <2>1. v.batch \in Board!Batch
    BY ViewIs
  <2> QED BY <2>1, NoBatchIs DEF Board!Batch
<1>2. Board!BatchedOne(v, c) = IF w.batch.todo = {} THEN Board!Refetch(w) ELSE w
  BY DEF Board!BatchedOne
<1> HIDE DEF b
<1>3. /\ w \in Board!View /\ w.batch = b
      /\ w.copy = v.copy /\ w.last = v.last /\ w.pend = v.pend /\ w.calls = v.calls
      /\ w.fetch = v.fetch /\ w.drop = v.drop /\ w.recent = v.recent /\ w.modal = v.modal
      /\ w.on = v.on /\ w.knew = v.knew /\ w.excuse = v.excuse /\ w.raced = v.raced
  BY <1>1, BatchView
<1> HIDE DEF w
<1>4. CASE w.batch.todo = {}
  BY <1>1, <1>2, <1>3, <1>4, RefetchView
<1>5. CASE w.batch.todo # {}
  BY <1>1, <1>2, <1>3, <1>5
<1> QED BY <1>4, <1>5

LEMMA ConfirmingView ==
    ASSUME NEW v \in Board!View, NEW k \in Board!Drops
    PROVE  LET w == Board!Confirming(v, k)
           IN  /\ w \in Board!View
               /\ \/ w.drop = [v.drop EXCEPT ![k].stage = "ask"]
                  \/ w.drop = [v.drop EXCEPT ![k] = Board!OverDrop]
               /\ w.copy = v.copy /\ w.last = v.last /\ w.pend = v.pend /\ w.calls = v.calls
               /\ w.fetch = v.fetch /\ w.recent = v.recent /\ w.modal = v.modal /\ w.batch = v.batch
               /\ w.on = v.on /\ w.knew = v.knew /\ w.excuse = v.excuse /\ w.raced = v.raced
<1>1. CASE v.recent = k
  <2>1. [v.drop EXCEPT ![k].stage = "ask"] \in [Board!Drops -> Board!Drop]
    <3>1. [v.drop[k] EXCEPT !.stage = "ask"] \in Board!Drop
      BY ViewIs DEF Board!Drop
    <3> QED BY <3>1, ViewIs
  <2>2. Board!Confirming(v, k) = [v EXCEPT !.drop[k].stage = "ask"]
    BY <1>1 DEF Board!Confirming
  <2> QED BY <2>1, <2>2 DEF Board!View
<1>2. CASE v.recent # k
  BY <1>2, DropOverView DEF Board!Confirming
<1> QED BY <1>1, <1>2

\* A row: versions start with the row; a row that is gone was taken away unnoticed
\* by whoever was not told.
RowOK(r) ==
    /\ r.st = "absent" <=> r.ver = 0
    /\ r.st = "absent" => r.rd = 0
    /\ r.mute <= r.ver
    /\ r.st = "gone" => r.mute = r.ver

Face(r)  == IF r.st \in Board!Columns THEN r.st ELSE "none"
Level(s) == IF s = "TODO" THEN 1 ELSE IF s = "IN_PROGRESS" THEN 2
            ELSE IF s = "DONE" THEN 3 ELSE IF s = "gone" THEN 4 ELSE 0

\* An answer, however late, is what the row was at some version; and a change that
\* was told since made it another status.
TrueAnswer(a, r) ==
    /\ a.ver <= r.ver
    /\ a.ver = 0 => a.st = "none"
    /\ a.ver = r.ver => a.st = Face(r)
    /\ a.st = "none" /\ a.ver > 0 => r.st = "gone"
    /\ Level(a.st) <= Level(r.st)
    /\ a.ver < r.ver /\ r.ver > r.mute => a.st # r.st

\* A handler is on its way that has the newest of the card, will have it, or fails.
Coming(v, c, r) ==
    \E n \in v.calls : /\ n.card = c
                       /\ n.stage # "answered" \/ n.got.st = "none" \/ n.got.ver = r.ver

\* The versions the desk knows of are versions there were.
Aware(v, c, r) ==
    /\ v.last[c] <= v.knew[c] /\ v.knew[c] <= r.ver
    /\ \A n \in v.calls : n.card = c => n.prev <= v.knew[c] /\ TrueAnswer(n.got, r)
    /\ v.fetch.stage = "answered" => TrueAnswer(v.fetch.got[c], r)
    /\ \A k \in Board!Drops : k[2] = c /\ v.drop[k].stage = "show" => TrueAnswer(v.drop[k].got, r)

Matched(b) == b.cols = {} <=> b.st = "none"

\* A card that is dragged or shown is known of; one that is known of is shown, is
\* gone, or went missing for a reason that is named.
Seated(v, c, r) ==
    /\ Matched(v.copy[c])
    /\ v.copy[c].cols # {} => v.knew[c] > 0
    /\ \A k \in Board!Drops :
         /\ k[2] = c /\ v.drop[k].stage \in {"read", "post", "ask", "show"} => v.knew[c] > 0
         /\ Matched(v.drop[k].before[c])
         /\ v.drop[k].before[c].cols # {} => v.knew[c] > 0
    /\ v.copy[c].cols = {} /\ v.knew[c] > 0 => c \in v.excuse \/ r.st = "gone"

\* A change that was told and that the desk does not know of is on its way to it.
Expected(v, c, r) ==
    r.ver > v.knew[c] /\ r.ver > r.mute => c \in v.excuse \/ Coming(v, c, r)

Sound(v, c, r) == Aware(v, c, r) /\ Seated(v, c, r) /\ Expected(v, c, r)

\* The card is where a drop put it that the server has not answered.
Under(v, c) == \E k \in Board!Drops : k[2] = c /\ v.drop[k].stage \in {"read", "post"}

\* The copy is right, or will be made right, or there is a reason that is named.
Right(v, c, r) ==
    \/ v.copy[c].st = Face(r)
    \/ c \in v.excuse
    \/ r.ver > v.knew[c] /\ Coming(v, c, r)
    \/ Under(v, c)

\* What a step leaves alone of a card in a view.
Still(v, w, c) ==
    /\ w.last[c] = v.last[c] /\ w.knew[c] = v.knew[c] /\ w.copy[c] = v.copy[c]
    /\ \A n \in Board!Call : n.card = c => (n \in w.calls <=> n \in v.calls)
    /\ w.fetch = v.fetch \/ w.fetch.stage # "answered"
    /\ c \in v.excuse => c \in w.excuse
    /\ \A k \in Board!Drops : \/ w.drop[k].before = v.drop[k].before
                              \/ w.drop[k].before = Board!Blank
                              \/ w.drop[k].before = v.copy

\* The drops of the card too.
SameDrops(v, w, c) == \A k \in Board!Drops : k[2] = c => w.drop[k] = v.drop[k]

LEMMA BlankIs ==
    ASSUME NEW c \in Cards
    PROVE  Board!Blank[c].cols = {} /\ Matched(Board!Blank[c])
BY DEF Board!Blank, Matched

LEMMA StillComing ==
    ASSUME NEW v \in Board!View, NEW w \in Board!View, NEW c \in Cards, NEW r \in Board!Row,
           \A n \in Board!Call : n.card = c => (n \in w.calls <=> n \in v.calls)
    PROVE  Coming(v, c, r) <=> Coming(w, c, r)
<1>1. v.calls \subseteq Board!Call /\ w.calls \subseteq Board!Call
  BY ViewIs
<1> QED BY <1>1 DEF Coming

LEMMA StillSound ==
    ASSUME NEW v \in Board!View, NEW w \in Board!View, NEW c \in Cards, NEW r \in Board!Row,
           Still(v, w, c), Sound(v, c, r),
           \A k \in Board!Drops : k[2] = c =>
             \/ w.drop[k] = v.drop[k]
             \/ w.drop[k].stage \in {"none", "over"}
             \/ w.drop[k].stage \in {"post", "ask"} /\ v.drop[k].stage \in {"read", "post", "ask", "show"}
    PROVE  Sound(w, c, r)
<1>1. Aware(w, c, r)
  <2>1. \A n \in w.calls : n.card = c => n \in v.calls
    BY ViewIs DEF Still
  <2>2. \A k \in Board!Drops : k[2] = c /\ w.drop[k].stage = "show" => w.drop[k] = v.drop[k]
    OBVIOUS
  <2> QED BY <2>1, <2>2 DEF Still, Sound, Aware
<1>2. Seated(w, c, r)
  <2>1. ASSUME NEW k \in Board!Drops
        PROVE  /\ Matched(w.drop[k].before[c])
               /\ w.drop[k].before[c].cols # {} => w.knew[c] > 0
    BY BlankIs DEF Still, Sound, Seated
  <2>2. ASSUME NEW k \in Board!Drops, k[2] = c, w.drop[k].stage \in {"read", "post", "ask", "show"}
        PROVE  w.knew[c] > 0
    BY <2>2 DEF Still, Sound, Seated
  <2> QED BY <2>1, <2>2 DEF Still, Sound, Seated
<1>3. Expected(w, c, r)
  BY StillComing DEF Still, Sound, Expected
<1> QED BY <1>1, <1>2, <1>3 DEF Sound

LEMMA StillRight ==
    ASSUME NEW v \in Board!View, NEW w \in Board!View, NEW c \in Cards, NEW r \in Board!Row,
           Still(v, w, c), Right(v, c, r), c \in w.excuse \/ (Under(v, c) => Under(w, c))
    PROVE  Right(w, c, r)
BY StillComing DEF Still, Right

LEMMA SameDropsIs ==
    ASSUME NEW v, NEW w, NEW c, SameDrops(v, w, c)
    PROVE  Under(v, c) => Under(w, c)
BY DEF SameDrops, Under

\* A step of a row: told, to a later status; or untold, perhaps away.
RowStep(r, s) ==
    /\ s.ver = r.ver + 1 /\ r.st # "gone"
    /\ \/ s.mute = r.mute /\ Level(s.st) > Level(r.st) /\ s.st # "gone"
       \/ s.mute = s.ver /\ Level(s.st) >= Level(r.st) /\ s.st # "absent"

LEMMA RowIs ==
    ASSUME NEW r \in Board!Row
    PROVE  /\ r.st \in {"TODO", "IN_PROGRESS", "DONE", "absent", "gone"}
           /\ r.ver \in Nat /\ r.rd \in Nat /\ r.mute \in Nat
           /\ Face(r) = IF r.st \in {"absent", "gone"} THEN "none" ELSE r.st
BY DEF Board!Row, Board!Columns, Face

LEMMA AnswerIs ==
    ASSUME NEW a \in Board!Answer
    PROVE  a.st \in {"TODO", "IN_PROGRESS", "DONE", "none"} /\ a.ver \in Nat /\ a.rd \in Nat
BY DEF Board!Answer, Board!Columns

LEMMA AnswersAge ==
    ASSUME NEW r \in Board!Row, NEW s \in Board!Row, RowOK(r), RowStep(r, s),
           NEW a \in Board!Answer, TrueAnswer(a, r)
    PROVE  TrueAnswer(a, s)
<1>1. /\ a.ver <= r.ver /\ s.ver = r.ver + 1 /\ r.st # "gone"
      /\ a.ver \in Nat /\ r.ver \in Nat /\ s.ver \in Nat /\ s.mute \in Nat
      /\ Level(a.st) <= Level(r.st) /\ Level(r.st) <= Level(s.st)
  BY RowIs, AnswerIs DEF TrueAnswer, RowStep, Level
<1>2. a.ver < s.ver
  BY <1>1
<1>3. s.ver > s.mute => a.st # s.st
  BY <1>1, RowIs, AnswerIs DEF RowStep, Level
<1>4. Level(a.st) <= Level(s.st)
  BY <1>1, RowIs, AnswerIs DEF Level
<1> QED BY <1>1, <1>2, <1>3, <1>4 DEF TrueAnswer

LEMMA NoAnswerTrue ==
    ASSUME NEW r \in Board!Row, RowOK(r)
    PROVE  TrueAnswer(Board!NoAnswer, r) /\ Board!NoAnswer \in Board!Answer
BY RowIs DEF TrueAnswer, Board!NoAnswer, Board!Answer, RowOK, Level, Board!Columns

LEMMA AboutTrue ==
    ASSUME NEW c \in Cards, cards[c] \in Board!Row, RowOK(cards[c])
    PROVE  /\ TrueAnswer(Board!About(c), cards[c]) /\ Board!About(c) \in Board!Answer
           /\ Board!About(c).st = Face(cards[c]) /\ Board!About(c).ver = cards[c].ver
<1>1. CASE Board!Live(c)
  BY <1>1, RowIs DEF Board!About, Board!Live, TrueAnswer, Face, RowOK, Level, Board!Answer, Board!Columns
<1>2. CASE ~Board!Live(c)
  <2>1. Board!About(c) = [st |-> "none", ver |-> cards[c].ver, rd |-> 0]
    BY <1>2 DEF Board!About, Board!NoAnswer
  <2> QED BY <1>2, <2>1, RowIs DEF Board!Live, TrueAnswer, Face, RowOK, Level, Board!Answer, Board!Columns
<1> QED BY <1>1, <1>2

\* A step of the row of a card: whoever is told will ask, and whoever is not has a
\* reason that is named.
LEMMA RowMoves ==
    ASSUME NEW u \in Board!View, NEW w \in Board!View, NEW c \in Cards,
           NEW r \in Board!Row, NEW s \in Board!Row, RowOK(r), RowStep(r, s), Sound(u, c, r),
           w.last = u.last, w.knew = u.knew, w.copy = u.copy, w.fetch = u.fetch, w.drop = u.drop,
           u.excuse \subseteq w.excuse,
           \/ \E n \in Board!Call :
                /\ n.card = c /\ n.stage = "told" /\ n.prev = 0 /\ n.got = Board!NoAnswer
                /\ w.calls = u.calls \cup {n}
           \/ w.calls = u.calls /\ c \in w.excuse
    PROVE  Sound(w, c, s) /\ Right(w, c, s)
<1>0. /\ r.ver \in Nat /\ s.ver \in Nat /\ u.knew[c] \in Nat /\ u.last[c] \in Nat
      /\ s.ver = r.ver + 1 /\ r.st # "gone"
      /\ u.knew[c] <= r.ver /\ u.last[c] <= u.knew[c]
  BY RowIs, ViewIs DEF RowStep, Sound, Aware
<1>1. \A a \in Board!Answer : TrueAnswer(a, r) => TrueAnswer(a, s)
  BY AnswersAge
<1>2. \/ c \in w.excuse
      \/ Coming(w, c, s)
  BY DEF Coming
<1>3. Aware(w, c, s)
  <2>1. ASSUME NEW n \in w.calls, n.card = c
        PROVE  n.prev <= w.knew[c] /\ TrueAnswer(n.got, s)
    <3>1. CASE n \in u.calls
      <4>1. n.got \in Board!Answer
        BY <3>1, ViewIs DEF Board!Call
      <4> QED BY <1>1, <2>1, <3>1, <4>1 DEF Sound, Aware
    <3>2. CASE n \notin u.calls
      <4>1. n.prev = 0 /\ n.got = Board!NoAnswer
        BY <2>1, <3>2
      <4> QED BY <1>0, <1>1, <4>1, NoAnswerTrue
    <3> QED BY <3>1, <3>2
  <2>2. w.fetch.stage = "answered" => TrueAnswer(w.fetch.got[c], s)
    <3>1. u.fetch.got[c] \in Board!Answer
      BY ViewIs DEF Board!Fetch
    <3> QED BY <1>1, <3>1 DEF Sound, Aware
  <2>3. ASSUME NEW k \in Board!Drops, k[2] = c, w.drop[k].stage = "show"
        PROVE  TrueAnswer(w.drop[k].got, s)
    <3>1. u.drop[k].got \in Board!Answer
      BY ViewIs DEF Board!Drop
    <3> QED BY <1>1, <2>3, <3>1 DEF Sound, Aware
  <2>4. w.last[c] <= w.knew[c] /\ w.knew[c] <= s.ver
    BY <1>0
  <2> QED BY <2>1, <2>2, <2>3, <2>4 DEF Aware
<1>4. Seated(w, c, s)
  BY <1>0 DEF Sound, Seated
<1>5. Expected(w, c, s)
  BY <1>2 DEF Expected
<1>6. Right(w, c, s)
  <2>1. s.ver > w.knew[c]
    BY <1>0
  <2> QED BY <1>2, <2>1 DEF Right
<1> QED BY <1>3, <1>4, <1>5, <1>6 DEF Sound

\* A view in which every card is right or will be, all but perhaps c.
FineBut(v, table, c) ==
    /\ v \in Board!View
    /\ \A x \in Cards : Sound(v, x, table[x]) /\ (x # c => Right(v, x, table[x]))

Fine(v, table) ==
    /\ v \in Board!View
    /\ \A x \in Cards : Sound(v, x, table[x]) /\ Right(v, x, table[x])

RowsOK(table) == table \in [Cards -> Board!Row] /\ \A c \in Cards : RowOK(table[c])

\* So does a step of the server, for any desk.
LEMMA ServerMoves ==
    ASSUME NEW c \in Cards, NEW table, NEW next, RowsOK(table), RowsOK(next),
           RowStep(table[c], next[c]), \A x \in Cards \ {c} : next[x] = table[x],
           NEW u, FineBut(u, table, c), NEW w \in Board!View,
           w.last = u.last, w.knew = u.knew, w.copy = u.copy, w.fetch = u.fetch, w.drop = u.drop,
           u.excuse \subseteq w.excuse,
           \/ \E n \in Board!Call :
                /\ n.card = c /\ n.stage = "told" /\ n.prev = 0 /\ n.got = Board!NoAnswer
                /\ w.calls = u.calls \cup {n}
           \/ w.calls = u.calls /\ c \in w.excuse
    PROVE  Fine(w, next)
<1>0. u \in Board!View /\ \A x \in Cards : table[x] \in Board!Row /\ next[x] \in Board!Row /\ RowOK(table[x])
  BY DEF FineBut, RowsOK
<1>1. Sound(w, c, next[c]) /\ Right(w, c, next[c])
  BY <1>0, RowMoves DEF FineBut
<1>2. ASSUME NEW x \in Cards, x # c
      PROVE  Sound(w, x, next[x]) /\ Right(w, x, next[x])
  <2>1. Still(u, w, x) /\ SameDrops(u, w, x)
    BY <1>2 DEF Still, SameDrops
  <2>2. next[x] = table[x] /\ Sound(u, x, table[x]) /\ Right(u, x, table[x])
    BY <1>2 DEF FineBut
  <2>3. Sound(w, x, table[x])
    BY <1>0, <2>1, <2>2, StillSound DEF SameDrops
  <2>4. Right(w, x, table[x])
    BY <1>0, <2>1, <2>2, StillRight, SameDropsIs
  <2> QED BY <2>2, <2>3, <2>4
<1> QED BY <1>1, <1>2 DEF Fine

LEMMA NotifiedFine ==
    ASSUME NEW c \in Cards, NEW table, NEW next, RowsOK(table), RowsOK(next),
           RowStep(table[c], next[c]), \A x \in Cards \ {c} : next[x] = table[x],
           NEW vs, \A e \in Desks : FineBut(vs[e], table, c), NEW kind \in {"added", "updated", "done"}
    PROVE  LET ws == Board!Notified(vs, kind, c)
           IN  /\ ws \in [Desks -> Board!View]
               /\ \A e \in Desks : /\ Fine(ws[e], next) /\ ws[e].modal = vs[e].modal
                                   /\ ws[e].raced = vs[e].raced /\ ws[e].drop = vs[e].drop /\ ws[e].batch = vs[e].batch
<1> DEFINE ws == Board!Notified(vs, kind, c)
           n  == [kind |-> kind, card |-> c, stage |-> "told", prev |-> 0, got |-> Board!NoAnswer]
<1>0. n \in Board!Call
  BY DEF Board!Call, Board!NoAnswer, Board!Answer
<1>1. ASSUME NEW e \in Desks
      PROVE  /\ Fine(ws[e], next) /\ ws[e].modal = vs[e].modal
             /\ ws[e].raced = vs[e].raced /\ ws[e].drop = vs[e].drop /\ ws[e].batch = vs[e].batch
  <2> DEFINE u == vs[e]
  <2>0. u \in Board!View
    BY DEF FineBut
  <2>1. CASE u.on
    <3> DEFINE w == [u EXCEPT !.calls = @ \cup {n}]
    <3>1. ws[e] = w
      BY <2>1 DEF Board!Notified
    <3>2. /\ w \in Board!View /\ w.calls = u.calls \cup {n}
          /\ w.last = u.last /\ w.knew = u.knew /\ w.copy = u.copy /\ w.fetch = u.fetch
          /\ w.drop = u.drop /\ w.excuse = u.excuse /\ w.modal = u.modal /\ w.raced = u.raced
          /\ w.batch = u.batch
      <4> HIDE DEF n
      <4> QED BY <1>0, <2>0 DEF Board!View
    <3>3. n.card = c /\ n.stage = "told" /\ n.prev = 0 /\ n.got = Board!NoAnswer
      OBVIOUS
    <3> HIDE DEF w, n, ws, u
    <3>4. FineBut(u, table, c)
      BY DEF u
    <3>5. Fine(w, next)
      BY <1>0, <3>2, <3>3, <3>4, ServerMoves
    <3> QED BY <3>1, <3>2, <3>5 DEF u
  <2>2. CASE ~u.on
    <3> DEFINE w == Board!Excused(u, {c})
    <3>1. ws[e] = w
      BY <2>2 DEF Board!Notified
    <3>2. /\ w \in Board!View /\ w.excuse = u.excuse \cup {c} /\ w.calls = u.calls
          /\ w.last = u.last /\ w.knew = u.knew /\ w.copy = u.copy /\ w.fetch = u.fetch
          /\ w.drop = u.drop /\ w.modal = u.modal /\ w.raced = u.raced /\ w.batch = u.batch
      BY <2>0, ExcusedView
    <3> HIDE DEF w, ws, u
    <3>4. FineBut(u, table, c)
      BY DEF u
    <3>5. Fine(w, next)
      BY <3>2, <3>4, ServerMoves
    <3> QED BY <3>1, <3>2, <3>5 DEF u
  <2> QED BY <2>1, <2>2
<1>2. ws \in [Desks -> Board!View]
  <2>1. \A e \in Desks : ws[e] \in Board!View
    BY <1>1 DEF Fine
  <2>2. ws = [e \in Desks |-> ws[e]]
    BY DEF Board!Notified
  <2> HIDE DEF ws
  <2> QED BY <2>1, <2>2
<1> QED BY <1>1, <1>2

LEMMA UnnotifiedFine ==
    ASSUME NEW c \in Cards, NEW table, NEW next, RowsOK(table), RowsOK(next),
           RowStep(table[c], next[c]), \A x \in Cards \ {c} : next[x] = table[x],
           NEW vs, \A e \in Desks : FineBut(vs[e], table, c)
    PROVE  LET ws == Board!Unnotified(vs, c)
           IN  /\ ws \in [Desks -> Board!View]
               /\ \A e \in Desks : /\ Fine(ws[e], next) /\ ws[e].modal = vs[e].modal
                                   /\ ws[e].raced = vs[e].raced /\ ws[e].drop = vs[e].drop /\ ws[e].batch = vs[e].batch
<1> DEFINE ws == Board!Unnotified(vs, c)
<1>1. ASSUME NEW e \in Desks
      PROVE  /\ Fine(ws[e], next) /\ ws[e].modal = vs[e].modal
             /\ ws[e].raced = vs[e].raced /\ ws[e].drop = vs[e].drop /\ ws[e].batch = vs[e].batch
  <2> DEFINE u == vs[e]
             w == Board!Excused(u, {c})
  <2>0. u \in Board!View
    BY DEF FineBut
  <2>1. ws[e] = w
    BY DEF Board!Unnotified
  <2>2. /\ w \in Board!View /\ w.excuse = u.excuse \cup {c} /\ w.calls = u.calls
        /\ w.last = u.last /\ w.knew = u.knew /\ w.copy = u.copy /\ w.fetch = u.fetch
        /\ w.drop = u.drop /\ w.modal = u.modal /\ w.raced = u.raced /\ w.batch = u.batch
    BY <2>0, ExcusedView
  <2> HIDE DEF w, ws, u
  <2>4. FineBut(u, table, c)
    BY DEF u
  <2>5. Fine(w, next)
    BY <2>2, <2>4, ServerMoves
  <2> QED BY <2>1, <2>2, <2>5 DEF u
<1>2. ws \in [Desks -> Board!View]
  <2>1. \A e \in Desks : ws[e] \in Board!View
    BY <1>1 DEF Fine
  <2>2. ws = [e \in Desks |-> ws[e]]
    BY DEF Board!Unnotified
  <2> HIDE DEF ws
  <2> QED BY <2>1, <2>2
<1> QED BY <1>1, <1>2

LEMMA NewRowSteps ==
    ASSUME NEW c \in Cards, RowsOK(cards), NEW st \in Board!Columns, NEW rd \in Nat,
           Level(st) > Level(cards[c].st), Board!NewRow(c, st, rd)
    PROVE  /\ RowsOK(cards') /\ RowStep(cards[c], cards'[c])
           /\ \A x \in Cards \ {c} : cards'[x] = cards[x]
           /\ cards'[c].st = st /\ cards'[c].rd = rd
<1>0. cards[c] \in Board!Row /\ RowOK(cards[c]) /\ cards \in [Cards -> Board!Row]
  BY DEF RowsOK
<1>1. cards' = [cards EXCEPT ![c] =
                   [st |-> st, ver |-> cards[c].ver + 1, rd |-> rd, mute |-> cards[c].mute]]
  BY <1>0 DEF Board!NewRow
<1> DEFINE s == [st |-> st, ver |-> cards[c].ver + 1, rd |-> rd, mute |-> cards[c].mute]
<1>2. s \in Board!Row /\ s.st \in {"TODO", "IN_PROGRESS", "DONE"}
  BY <1>0, RowIs DEF Board!Row, Board!Columns
<1>3. RowOK(s) /\ RowStep(cards[c], s)
  BY <1>0, <1>2, RowIs DEF RowOK, RowStep, Level
<1>4. cards'[c] = s /\ \A x \in Cards \ {c} : cards'[x] = cards[x]
  BY <1>0, <1>1
<1>5. cards' \in [Cards -> Board!Row]
  BY <1>0, <1>1, <1>2
<1>6. s.st = st /\ s.rd = rd
  OBVIOUS
<1> HIDE DEF s
<1>7. \A x \in Cards : RowOK(cards'[x])
  BY <1>3, <1>4 DEF RowsOK
<1> QED BY <1>3, <1>4, <1>5, <1>6, <1>7 DEF RowsOK

LEMMA MuteRowSteps ==
    ASSUME NEW c \in Cards, RowsOK(cards), NEW st \in Board!Columns \cup {"gone"}, NEW rd \in Nat,
           Level(st) >= Level(cards[c].st), cards[c].st # "gone", Board!MuteRow(c, st, rd)
    PROVE  /\ RowsOK(cards') /\ RowStep(cards[c], cards'[c])
           /\ \A x \in Cards \ {c} : cards'[x] = cards[x]
           /\ cards'[c].st = st /\ cards'[c].rd = rd
<1>0. cards[c] \in Board!Row /\ RowOK(cards[c]) /\ cards \in [Cards -> Board!Row]
  BY DEF RowsOK
<1>1. cards' = [cards EXCEPT ![c] =
                   [st |-> st, ver |-> cards[c].ver + 1, rd |-> rd, mute |-> cards[c].ver + 1]]
  BY <1>0 DEF Board!MuteRow
<1> DEFINE s == [st |-> st, ver |-> cards[c].ver + 1, rd |-> rd, mute |-> cards[c].ver + 1]
<1>2. s \in Board!Row /\ s.st \in {"TODO", "IN_PROGRESS", "DONE", "gone"}
  BY <1>0, RowIs DEF Board!Row, Board!Columns
<1>3. RowOK(s) /\ RowStep(cards[c], s)
  BY <1>0, <1>2, RowIs DEF RowOK, RowStep, Level
<1>4. cards'[c] = s /\ \A x \in Cards \ {c} : cards'[x] = cards[x]
  BY <1>0, <1>1
<1>5. cards' \in [Cards -> Board!Row]
  BY <1>0, <1>1, <1>2
<1>6. s.st = st /\ s.rd = rd
  OBVIOUS
<1> HIDE DEF s
<1>7. \A x \in Cards : RowOK(cards'[x])
  BY <1>3, <1>4 DEF RowsOK
<1> QED BY <1>3, <1>4, <1>5, <1>6, <1>7 DEF RowsOK

\* What the server did, and what the desks make of it.
Done(vs, c) ==
    /\ RowsOK(cards')
    /\ \A x \in Cards \ {c} : cards'[x] = cards[x]
    /\ desk' \in [Desks -> Board!View]
    /\ \A e \in Desks : /\ Fine(desk'[e], cards') /\ desk'[e].modal = vs[e].modal
                        /\ desk'[e].raced = vs[e].raced /\ desk'[e].drop = vs[e].drop
                        /\ desk'[e].batch = vs[e].batch

LEMMA CreatedDone ==
    ASSUME NEW c \in Cards, RowsOK(cards), NEW vs, \A e \in Desks : FineBut(vs[e], cards, c),
           Board!Created(vs, c)
    PROVE  Done(vs, c) /\ cards[c].st = "absent" /\ cards'[c].rd = 0
<1>1. /\ cards[c].st = "absent" /\ Board!NewRow(c, "TODO", 0)
      /\ desk' = Board!Notified(vs, "added", c)
  BY DEF Board!Created
<1>2. Level("TODO") > Level(cards[c].st) /\ "TODO" \in Board!Columns /\ 0 \in Nat
  BY <1>1 DEF Level, Board!Columns
<1>3. /\ RowsOK(cards') /\ RowStep(cards[c], cards'[c])
      /\ \A x \in Cards \ {c} : cards'[x] = cards[x]
      /\ cards'[c].rd = 0
  BY <1>1, <1>2, NewRowSteps
<1> QED BY <1>1, <1>3, NotifiedFine DEF Done

LEMMA CreatedUntoldDone ==
    ASSUME NEW c \in Cards, RowsOK(cards), NEW vs, \A e \in Desks : FineBut(vs[e], cards, c),
           Board!CreatedUntold(vs, c)
    PROVE  Done(vs, c) /\ cards[c].st = "absent" /\ cards'[c].rd = 0
<1>1. /\ cards[c].st = "absent" /\ Board!MuteRow(c, "TODO", 0)
      /\ desk' = Board!Unnotified(vs, c)
  BY DEF Board!CreatedUntold
<1>2. Level("TODO") >= Level(cards[c].st) /\ "TODO" \in Board!Columns /\ 0 \in Nat
  BY <1>1 DEF Level, Board!Columns
<1>3. /\ RowsOK(cards') /\ RowStep(cards[c], cards'[c])
      /\ \A x \in Cards \ {c} : cards'[x] = cards[x]
      /\ cards'[c].rd = 0
  BY <1>1, <1>2, MuteRowSteps
<1> QED BY <1>1, <1>3, UnnotifiedFine DEF Done

LEMMA MovedOnDone ==
    ASSUME NEW c \in Cards, RowsOK(cards), NEW vs, \A e \in Desks : FineBut(vs[e], cards, c),
           Board!MovedOn(vs, c)
    PROVE  Done(vs, c) /\ cards[c].st = "TODO" /\ cards'[c].rd = cards[c].rd
<1>1. /\ cards[c].st = "TODO" /\ Board!NewRow(c, "IN_PROGRESS", cards[c].rd)
      /\ desk' = Board!Notified(vs, "updated", c)
  BY DEF Board!MovedOn
<1>2. /\ Level("IN_PROGRESS") > Level(cards[c].st) /\ "IN_PROGRESS" \in Board!Columns
      /\ cards[c].rd \in Nat
  BY <1>1 DEF Level, Board!Columns, RowsOK, Board!Row
<1>3. /\ RowsOK(cards') /\ RowStep(cards[c], cards'[c])
      /\ \A x \in Cards \ {c} : cards'[x] = cards[x]
      /\ cards'[c].rd = cards[c].rd
  BY <1>1, <1>2, NewRowSteps
<1> QED BY <1>1, <1>3, NotifiedFine DEF Done

LEMMA StatusUpdatedDone ==
    ASSUME NEW c \in Cards, RowsOK(cards), NEW vs, \A e \in Desks : FineBut(vs[e], cards, c),
           Board!StatusUpdated(vs, c)
    PROVE  Done(vs, c) /\ cards[c].st = "TODO" /\ cards'[c].rd = cards[c].rd
<1>1. /\ cards[c].st = "TODO" /\ Board!MuteRow(c, "IN_PROGRESS", cards[c].rd)
      /\ desk' = Board!Unnotified(vs, c)
  BY DEF Board!StatusUpdated
<1>2. /\ Level("IN_PROGRESS") >= Level(cards[c].st) /\ "IN_PROGRESS" \in Board!Columns
      /\ cards[c].rd \in Nat
  BY <1>1 DEF Level, Board!Columns, RowsOK, Board!Row
<1>3. /\ RowsOK(cards') /\ RowStep(cards[c], cards'[c])
      /\ \A x \in Cards \ {c} : cards'[x] = cards[x]
      /\ cards'[c].rd = cards[c].rd
  BY <1>1, <1>2, MuteRowSteps
<1> QED BY <1>1, <1>3, UnnotifiedFine DEF Done

LEMMA FinalizedDone ==
    ASSUME NEW c \in Cards, RowsOK(cards), NEW vs, \A e \in Desks : FineBut(vs[e], cards, c),
           NEW rd \in Nat, Board!Finalized(vs, c, rd)
    PROVE  /\ Done(vs, c) /\ cards[c].st = "IN_PROGRESS" /\ cards'[c].st \in {"DONE", "gone"}
           /\ cards'[c].rd = cards[c].rd \/ (c \in Tests /\ cards'[c].rd = rd)
<1>1. /\ cards[c].st = "IN_PROGRESS" /\ desk' = Board!Notified(vs, "done", c)
      /\ \/ Board!NewRow(c, "DONE", IF c \in Tests THEN rd ELSE cards[c].rd)
         \/ c \in Tests /\ Board!MuteRow(c, "gone", rd)
  BY DEF Board!Finalized
<1>2. /\ Level("DONE") > Level(cards[c].st) /\ Level("gone") >= Level(cards[c].st)
      /\ "DONE" \in Board!Columns /\ "gone" \in Board!Columns \cup {"gone"}
      /\ cards[c].st # "gone"
      /\ (IF c \in Tests THEN rd ELSE cards[c].rd) \in Nat
  BY <1>1 DEF Level, Board!Columns, RowsOK, Board!Row
<1>3. /\ RowsOK(cards') /\ RowStep(cards[c], cards'[c])
      /\ \A x \in Cards \ {c} : cards'[x] = cards[x]
      /\ cards'[c].st \in {"DONE", "gone"}
      /\ cards'[c].rd = cards[c].rd \/ (c \in Tests /\ cards'[c].rd = rd)
  BY <1>1, <1>2, NewRowSteps, MuteRowSteps
<1> QED BY <1>1, <1>3, NotifiedFine DEF Done

LEMMA DeletedDone ==
    ASSUME NEW c \in Cards, RowsOK(cards), NEW vs, \A e \in Desks : FineBut(vs[e], cards, c),
           cards[c].st = "TODO", Board!MuteRow(c, "gone", cards[c].rd),
           desk' = Board!Unnotified(vs, c)
    PROVE  Done(vs, c) /\ cards'[c].rd = cards[c].rd /\ cards'[c].st = "gone"
<1>1. /\ Level("gone") >= Level(cards[c].st) /\ "gone" \in Board!Columns \cup {"gone"}
      /\ cards[c].rd \in Nat
  BY DEF Level, RowsOK, Board!Row
<1>2. /\ RowsOK(cards') /\ RowStep(cards[c], cards'[c])
      /\ \A x \in Cards \ {c} : cards'[x] = cards[x]
      /\ cards'[c].rd = cards[c].rd /\ cards'[c].st = "gone"
  BY <1>1, MuteRowSteps
<1> QED BY <1>2, UnnotifiedFine DEF Done

\* The desks that hold readings of the card are marked; nothing else of them changes.
Marked(v, w, c, own) ==
    /\ w \in Board!View /\ v.raced \subseteq w.raced
    /\ ~own /\ v.modal.open /\ v.modal.card = c => <<"modal", c>> \in w.raced
    /\ v.batch.card = c => <<"batch", c>> \in w.raced
    /\ \A k \in Board!Drops : k[2] = c /\ v.drop[k].stage = "post" => k \in w.raced
    /\ w.copy = v.copy /\ w.last = v.last /\ w.pend = v.pend /\ w.calls = v.calls
    /\ w.fetch = v.fetch /\ w.drop = v.drop /\ w.recent = v.recent /\ w.modal = v.modal
    /\ w.batch = v.batch /\ w.on = v.on /\ w.knew = v.knew /\ w.excuse = v.excuse

LEMMA RacedView ==
    ASSUME NEW c \in Cards, NEW d \in Desks \cup {None}, NEW vs, NEW e \in Desks, vs[e] \in Board!View
    PROVE  Marked(vs[e], Board!Raced(vs, d, c)[e], c, e = d)
<1> DEFINE v == vs[e]
           new == {x \in Board!Holders \X {c} :
                     \/ x[1] = "modal" /\ e # d /\ v.modal.open /\ v.modal.card = c
                     \/ x[1] = "batch" /\ v.batch.card = c
                     \/ x[1] \in Hands /\ v.drop[x].stage = "post"}
           w == [v EXCEPT !.raced = @ \cup new]
<1>1. Board!Raced(vs, d, c)[e] = w
  BY DEF Board!Raced
<1>2. /\ new \subseteq Board!Holders \X Cards
      /\ e # d /\ v.modal.open /\ v.modal.card = c => <<"modal", c>> \in new
      /\ v.batch.card = c => <<"batch", c>> \in new
      /\ \A k \in Board!Drops : k[2] = c /\ v.drop[k].stage = "post" => k \in new
  <2>1. new \subseteq Board!Holders \X Cards
    OBVIOUS
  <2>2. <<"modal", c>> \in Board!Holders \X {c} /\ <<"batch", c>> \in Board!Holders \X {c}
    BY DEF Board!Holders
  <2>3. ASSUME NEW k \in Board!Drops, k[2] = c
        PROVE  k[1] \in Hands /\ k \in Board!Holders \X {c}
    BY <2>3 DEF Board!Drops, Board!Holders
  <2> QED BY <2>1, <2>2, <2>3
<1> HIDE DEF new
<1>3. /\ w \in Board!View /\ w.raced = v.raced \cup new
      /\ w.copy = v.copy /\ w.last = v.last /\ w.pend = v.pend /\ w.calls = v.calls
      /\ w.fetch = v.fetch /\ w.drop = v.drop /\ w.recent = v.recent /\ w.modal = v.modal
      /\ w.batch = v.batch /\ w.on = v.on /\ w.knew = v.knew /\ w.excuse = v.excuse
  BY <1>2 DEF Board!View
<1> HIDE DEF w
<1>4. Marked(v, w, c, e = d)
  BY <1>2, <1>3 DEF Marked
<1> QED BY <1>1, <1>4

LEMMA DraftedDone ==
    ASSUME NEW c \in Cards, RowsOK(cards), NEW vs, \A e \in Desks : FineBut(vs[e], cards, c),
           NEW d \in Desks \cup {None}, NEW rd \in Nat, Board!Drafted(vs, d, c, rd)
    PROVE  LET ws == Board!Raced(vs, d, c)
           IN  Done(ws, c) /\ cards[c].st \in {"TODO", "IN_PROGRESS"} /\ cards'[c].rd = rd
<1> DEFINE ws == Board!Raced(vs, d, c)
           st == IF c \in Tests THEN "IN_PROGRESS" ELSE cards[c].st
<1>1. /\ cards[c].st \in {"TODO", "IN_PROGRESS"} /\ Board!MuteRow(c, st, rd)
      /\ desk' = Board!Unnotified(ws, c)
  BY DEF Board!Drafted
<1>2. /\ Level(st) >= Level(cards[c].st) /\ st \in Board!Columns \cup {"gone"}
      /\ cards[c].st # "gone"
  BY <1>1 DEF Level, Board!Columns
<1> HIDE DEF st
<1>3. /\ RowsOK(cards') /\ RowStep(cards[c], cards'[c])
      /\ \A x \in Cards \ {c} : cards'[x] = cards[x]
      /\ cards'[c].rd = rd
  BY <1>1, <1>2, MuteRowSteps
<1>4. ASSUME NEW e \in Desks
      PROVE  FineBut(ws[e], cards, c)
  <2>1. /\ vs[e] \in Board!View
        /\ \A x \in Cards : Sound(vs[e], x, cards[x]) /\ (x # c => Right(vs[e], x, cards[x]))
        /\ \A x \in Cards : cards[x] \in Board!Row
    BY DEF FineBut, RowsOK
  <2> DEFINE u == ws[e]
  <2>2. /\ u \in Board!View /\ u.copy = vs[e].copy /\ u.last = vs[e].last /\ u.calls = vs[e].calls
        /\ u.fetch = vs[e].fetch /\ u.drop = vs[e].drop /\ u.knew = vs[e].knew
        /\ u.excuse = vs[e].excuse
    <3>1. vs[e] \in Board!View
      BY <2>1
    <3>2. Marked(vs[e], Board!Raced(vs, d, c)[e], c, e = d)
      BY <3>1, RacedView
    <3> QED BY <3>2 DEF Marked
  <2> HIDE DEF ws, u
  <2>3. \A x \in Cards : Still(vs[e], u, x) /\ SameDrops(vs[e], u, x)
    BY <2>2 DEF Still, SameDrops
  <2>4. \A x \in Cards : Sound(u, x, cards[x]) /\ (x # c => Right(u, x, cards[x]))
    BY <2>1, <2>2, <2>3, StillSound, StillRight, SameDropsIs DEF SameDrops
  <2> QED BY <2>2, <2>4 DEF FineBut, u
<1> HIDE DEF ws
<1>5. Done(ws, c)
  BY <1>1, <1>3, <1>4, UnnotifiedFine DEF Done
<1> QED BY <1>1, <1>3, <1>5 DEF ws

\* What is done to a view by its own handlers.
LEMMA StillFine ==
    ASSUME NEW table, RowsOK(table), NEW v, Fine(v, table), NEW w \in Board!View,
           \A x \in Cards : Still(v, w, x),
           \A k \in Board!Drops :
             \/ w.drop[k] = v.drop[k]
             \/ /\ w.drop[k].stage \in {"none", "over"}
                /\ k[2] \in w.excuse \/ v.drop[k].stage \notin {"read", "post"}
             \/ w.drop[k].stage = "post" /\ v.drop[k].stage = "read"
    PROVE  Fine(w, table)
<1> SUFFICES ASSUME NEW x \in Cards
             PROVE  Sound(w, x, table[x]) /\ Right(w, x, table[x])
  BY DEF Fine
<1>1. /\ v \in Board!View /\ table[x] \in Board!Row
      /\ Sound(v, x, table[x]) /\ Right(v, x, table[x]) /\ Still(v, w, x)
  BY DEF Fine, RowsOK
<1>2. Sound(w, x, table[x])
  BY <1>1, StillSound
<1>3. x \in w.excuse \/ (Under(v, x) => Under(w, x))
  BY DEF Under
<1>4. Right(w, x, table[x])
  BY <1>1, <1>3, StillRight
<1> QED BY <1>2, <1>4

LEMMA FineIsBut ==
    ASSUME NEW v, NEW table, NEW c, Fine(v, table)
    PROVE  FineBut(v, table, c)
BY DEF Fine, FineBut

LEMMA RefetchFine ==
    ASSUME RowsOK(cards), NEW v, Fine(v, cards)
    PROVE  Fine(Board!Refetch(v), cards)
<1> DEFINE w == Board!Refetch(v)
<1>1. /\ w \in Board!View /\ w.fetch.stage = "asked"
      /\ w.copy = v.copy /\ w.last = v.last /\ w.calls = v.calls
      /\ w.drop = v.drop /\ w.knew = v.knew /\ w.excuse = v.excuse
  BY RefetchView DEF Fine
<1> HIDE DEF w
<1>2. \A x \in Cards : Still(v, w, x)
  BY <1>1 DEF Still
<1>3. Fine(w, cards)
  BY <1>1, <1>2, StillFine
<1> QED BY <1>3 DEF w

\* What concerns the modal, the batch, the connection and the cards held back only.
LEMMA OtherFine ==
    ASSUME RowsOK(cards), NEW v, Fine(v, cards), NEW w \in Board!View,
           w.copy = v.copy, w.last = v.last, w.calls = v.calls, w.fetch = v.fetch,
           w.drop = v.drop, w.knew = v.knew, w.excuse = v.excuse
    PROVE  Fine(w, cards)
<1>1. \A x \in Cards : Still(v, w, x)
  BY DEF Still
<1> QED BY <1>1, StillFine

LEMMA PutBackFine ==
    ASSUME RowsOK(cards), NEW v, Fine(v, cards), NEW k \in Board!Drops
    PROVE  Fine(Board!PutBack(v, k), cards)
<1> DEFINE w == Board!PutBack(v, k)
           b == v.drop[k].before
<1>0. v \in Board!View /\ v.drop[k] \in Board!Drop
  BY ViewIs DEF Fine
<1>1. /\ w \in Board!View
      /\ w.copy = b /\ w.drop = [v.drop EXCEPT ![k] = Board!OverDrop]
      /\ w.excuse = v.excuse \cup {x \in Cards : b[x].st # Board!About(x).st}
      /\ w.last = v.last /\ w.calls = v.calls /\ w.fetch = v.fetch /\ w.knew = v.knew
  BY <1>0, PutBackView
<1> HIDE DEF w
<1> SUFFICES ASSUME NEW x \in Cards
             PROVE  Sound(w, x, cards[x]) /\ Right(w, x, cards[x])
  BY <1>1 DEF Fine, w
<1>2. /\ Sound(v, x, cards[x]) /\ Right(v, x, cards[x])
      /\ cards[x] \in Board!Row /\ RowOK(cards[x])
  BY DEF Fine, RowsOK
<1>3. Board!About(x).st = Face(cards[x])
  BY <1>2, AboutTrue
<1>4. v.drop \in [Board!Drops -> Board!Drop] /\ v.knew[x] \in Nat /\ cards[x].ver \in Nat
  BY <1>0, <1>2, ViewIs, RowIs
<1>5. \A j \in Board!Drops :
        w.drop[j] = v.drop[j] \/ (w.drop[j].stage = "over" /\ w.drop[j].before = Board!Blank)
  <2>1. w.drop[k] = Board!OverDrop /\ \A j \in Board!Drops \ {k} : w.drop[j] = v.drop[j]
    BY <1>0, <1>1, OneDropIs
  <2> QED BY <2>1, NoDropIs
<1>6. Coming(v, x, cards[x]) <=> Coming(w, x, cards[x])
  BY <1>1 DEF Coming
<1>7. Aware(w, x, cards[x])
  BY <1>1, <1>2, <1>4, <1>5 DEF Aware, Sound
<1>8. Seated(w, x, cards[x])
  <2>1. /\ Matched(b[x])
        /\ b[x].cols # {} => v.knew[x] > 0
    BY <1>2 DEF Sound, Seated
  <2>2. ASSUME NEW j \in Board!Drops
        PROVE  /\ j[2] = x /\ w.drop[j].stage \in {"read", "post", "ask", "show"} => w.knew[x] > 0
               /\ Matched(w.drop[j].before[x])
               /\ w.drop[j].before[x].cols # {} => w.knew[x] > 0
    BY <1>1, <1>2, <1>5, BlankIs DEF Sound, Seated
  <2>3. /\ Matched(w.copy[x])
        /\ w.copy[x].cols # {} => w.knew[x] > 0
    BY <1>1, <2>1
  <2>4. ASSUME b[x].cols = {}, v.knew[x] > 0
        PROVE  x \in w.excuse \/ cards[x].st = "gone"
    <3>1. b[x].st = "none"
      BY <2>1, <2>4 DEF Matched
    <3>2. CASE Board!About(x).st = "none"
      <4>1. cards[x].st \in {"absent", "gone"}
        BY <1>2, <1>3, <3>2, RowIs
      <4>2. cards[x].ver > 0
        BY <1>2, <1>4, <2>4 DEF Sound, Aware
      <4> QED BY <1>2, <4>1, <4>2 DEF RowOK
    <3>3. CASE Board!About(x).st # "none"
      BY <1>1, <3>1, <3>3
    <3> QED BY <3>2, <3>3
  <2>5. w.copy[x].cols = {} /\ w.knew[x] > 0 => x \in w.excuse \/ cards[x].st = "gone"
    BY <1>1, <2>4
  <2> QED BY <2>2, <2>3, <2>5 DEF Seated
<1>9. Expected(w, x, cards[x])
  BY <1>1, <1>2, <1>6 DEF Sound, Expected
<1>10. Right(w, x, cards[x])
  BY <1>1, <1>3 DEF Right
<1> QED BY <1>7, <1>8, <1>9, <1>10 DEF Sound

LEMMA ConfirmingFine ==
    ASSUME RowsOK(cards), NEW v, Fine(v, cards), NEW k \in Board!Drops, v.drop[k].stage = "post"
    PROVE  FineBut(Board!Confirming(v, k), cards, k[2])
<1> DEFINE w == Board!Confirming(v, k)
<1>1. v \in Board!View /\ v.drop \in [Board!Drops -> Board!Drop]
  BY ViewIs DEF Fine
<1>2. /\ w \in Board!View
      /\ \/ w.drop = [v.drop EXCEPT ![k].stage = "ask"]
         \/ w.drop = [v.drop EXCEPT ![k] = Board!OverDrop]
      /\ w.copy = v.copy /\ w.last = v.last /\ w.calls = v.calls
      /\ w.fetch = v.fetch /\ w.knew = v.knew /\ w.excuse = v.excuse
  BY <1>1, ConfirmingView
<1> HIDE DEF w
<1>3. \A j \in Board!Drops \ {k} : w.drop[j] = v.drop[j]
  BY <1>1, <1>2
<1>4. /\ w.drop[k].stage \in {"ask", "over"}
      /\ w.drop[k].before \in {v.drop[k].before, Board!Blank}
  <2>1. v.drop[k] \in Board!Drop
    BY <1>1
  <2>2. CASE w.drop = [v.drop EXCEPT ![k].stage = "ask"]
    <3>1. w.drop[k] = [v.drop[k] EXCEPT !.stage = "ask"]
      BY <1>1, <2>2
    <3> QED BY <2>1, <3>1 DEF Board!Drop
  <2>3. CASE w.drop = [v.drop EXCEPT ![k] = Board!OverDrop]
    BY <1>1, <2>3, NoDropIs
  <2> QED BY <1>2, <2>2, <2>3
<1>5. \A x \in Cards : Still(v, w, x)
  BY <1>2, <1>3, <1>4 DEF Still
<1>6. ASSUME NEW x \in Cards
      PROVE  Sound(w, x, cards[x]) /\ (x # k[2] => Right(w, x, cards[x]))
  <2>1. cards[x] \in Board!Row /\ Sound(v, x, cards[x]) /\ Right(v, x, cards[x])
    BY DEF Fine, RowsOK
  <2>2. Sound(w, x, cards[x])
    BY <1>1, <1>2, <1>3, <1>4, <1>5, <2>1, StillSound
  <2>3. x # k[2] => Right(w, x, cards[x])
    <3>1. x # k[2] => SameDrops(v, w, x)
      BY <1>3 DEF SameDrops
    <3> QED BY <1>1, <1>2, <1>5, <2>1, <3>1, StillRight, SameDropsIs
  <2> QED BY <2>2, <2>3
<1>7. FineBut(w, cards, k[2])
  BY <1>2, <1>6 DEF FineBut
<1> QED BY <1>7 DEF w

LEMMA BatchedOneFine ==
    ASSUME RowsOK(cards), NEW v, Fine(v, cards), NEW c \in Cards
    PROVE  Fine(Board!BatchedOne(v, c), cards)
<1> DEFINE w == Board!BatchedOne(v, c)
<1>1. v \in Board!View
  BY DEF Fine
<1>2. /\ w \in Board!View /\ w.drop = v.drop
      /\ w.fetch = v.fetch \/ w.fetch.stage = "asked"
      /\ w.copy = v.copy /\ w.last = v.last /\ w.calls = v.calls
      /\ w.knew = v.knew /\ w.excuse = v.excuse
  BY <1>1, BatchedOneView
<1> HIDE DEF w
<1>3. \A x \in Cards : Still(v, w, x)
  BY <1>2 DEF Still
<1>4. Fine(w, cards)
  BY <1>2, <1>3, StillFine
<1> QED BY <1>4 DEF w

\* An answer that is used: it is the newest, or a newer one is on its way, or the
\* board has its reason.
LEMMA UsedAnswer ==
    ASSUME NEW v \in Board!View, NEW w \in Board!View, NEW c \in Cards, NEW r \in Board!Row, RowOK(r),
           NEW a \in Board!Answer, a.st # "none", TrueAnswer(a, r),
           Aware(v, c, r), Seated(v, c, r),
           r.ver > v.knew[c] /\ r.ver > r.mute /\ a.ver < r.ver => c \in v.excuse \/ Coming(w, c, r),
           w.last[c] = a.ver, w.knew[c] = Board!Later(v.knew[c], a.ver),
           w.calls \subseteq v.calls, w.fetch = v.fetch,
           \A k \in Board!Drops :
             /\ w.drop[k] = v.drop[k] \/ w.drop[k].stage = "over"
             /\ w.drop[k].before = v.drop[k].before \/ w.drop[k].before = Board!Blank,
           \/ /\ w.copy[c].st = a.st /\ w.copy[c].cols # {}
              /\ (c \in v.excuse \/ a.ver < v.knew[c] \/ a.ver < r.mute) /\ a.st # r.st => c \in w.excuse
           \/ w.copy[c] = v.copy[c] /\ w.copy[c].cols = {} /\ c \in w.excuse
    PROVE  Sound(w, c, r) /\ Right(w, c, r)
<1>0. /\ v.knew[c] \in Nat /\ w.knew[c] \in Nat /\ a.ver \in Nat /\ r.ver \in Nat /\ r.mute \in Nat
      /\ a.ver <= r.ver /\ a.ver > 0 /\ r.mute <= r.ver
      /\ v.knew[c] <= w.knew[c] /\ a.ver <= w.knew[c] /\ w.knew[c] <= r.ver
      /\ w.knew[c] = v.knew[c] \/ w.knew[c] = a.ver
  BY ViewIs, RowIs, AnswerIs DEF Board!Later, Aware, TrueAnswer, RowOK
<1>1. Aware(w, c, r)
  <2>1. \A n \in w.calls : n.card = c => n.prev <= w.knew[c] /\ TrueAnswer(n.got, r)
    <3>1. \A n \in v.calls : n.prev \in Nat
      BY ViewIs DEF Board!Call
    <3> QED BY <1>0, <3>1 DEF Aware
  <2> QED BY <1>0, <2>1 DEF Aware
<1>2. Seated(w, c, r)
  <2>1. Matched(w.copy[c])
    BY DEF Seated, Matched
  <2>2. ASSUME NEW k \in Board!Drops
        PROVE  /\ Matched(w.drop[k].before[c])
               /\ w.drop[k].before[c].cols # {} => w.knew[c] > 0
    BY <1>0, BlankIs DEF Seated
  <2>3. ASSUME NEW k \in Board!Drops, k[2] = c, w.drop[k].stage \in {"read", "post", "ask", "show"}
        PROVE  w.knew[c] > 0
    BY <1>0, <2>3 DEF Seated
  <2> QED BY <1>0, <2>1, <2>2, <2>3 DEF Seated
<1>3. a.ver = r.ver => a.st = r.st
  BY RowIs DEF TrueAnswer
<1>4. Expected(w, c, r)
  <2> SUFFICES ASSUME r.ver > w.knew[c], r.ver > r.mute, c \notin w.excuse
               PROVE  Coming(w, c, r)
    BY DEF Expected
  <2>1. a.ver < r.ver /\ r.ver > v.knew[c]
    BY <1>0
  <2>2. a.st # r.st
    BY <2>1 DEF TrueAnswer
  <2> QED BY <2>1, <2>2
<1>5. Right(w, c, r)
  <2> SUFFICES ASSUME c \notin w.excuse, w.copy[c].st # Face(r)
               PROVE  r.ver > w.knew[c] /\ Coming(w, c, r)
    BY DEF Right
  <2>1. /\ w.copy[c].st = a.st
        /\ (c \in v.excuse \/ a.ver < v.knew[c] \/ a.ver < r.mute) => a.st = r.st
    OBVIOUS
  <2>2. a.st # r.st /\ a.ver # r.ver
    BY <1>3, <2>1, RowIs, AnswerIs DEF TrueAnswer
  <2>3. c \notin v.excuse /\ a.ver >= v.knew[c] /\ a.ver >= r.mute
    BY <1>0, <2>1, <2>2
  <2>4. a.ver < r.ver /\ r.ver > v.knew[c] /\ r.ver > r.mute /\ w.knew[c] < r.ver
    BY <1>0, <2>2, <2>3
  <2> QED BY <2>3, <2>4
<1> QED BY <1>1, <1>2, <1>4, <1>5 DEF Sound

\* The newest version, a used answer and the reasons of the board, put together.
NotedFor(v, w, c, a, more) ==
    /\ w \in Board!View
    /\ w.last = [v.last EXCEPT ![c] = a.ver]
    /\ w.knew = [v.knew EXCEPT ![c] = Board!Later(v.knew[c], a.ver)]
    /\ w.excuse = IF Board!Shown(v, c) /\ a.st = cards[c].st
                    THEN (v.excuse \cup more) \ {c} ELSE v.excuse \cup more
    /\ w.copy = v.copy /\ w.calls = v.calls /\ w.fetch = v.fetch /\ w.drop = v.drop
    /\ w.modal = v.modal /\ w.raced = v.raced /\ w.batch = v.batch

LEMMA SeenCard ==
    ASSUME NEW v \in Board!View, NEW c \in Cards, NEW a \in Board!Answer, NEW more \in SUBSET {c}
    PROVE  NotedFor(v, Board!Seen(IF more = {} THEN v ELSE Board!Excused(v, {c}), c, a), c, a, more)
<1> DEFINE e == IF more = {} THEN v ELSE Board!Excused(v, {c})
<1>1. /\ e \in Board!View /\ e.excuse = v.excuse \cup more
      /\ e.copy = v.copy /\ e.calls = v.calls /\ e.fetch = v.fetch /\ e.drop = v.drop
      /\ e.modal = v.modal /\ e.raced = v.raced /\ e.last = v.last /\ e.knew = v.knew
      /\ e.batch = v.batch
  <2>1. CASE more = {}
    BY <2>1
  <2>2. CASE more # {}
    <3>1. more = {c}
      BY <2>2
    <3> QED BY <2>2, <3>1, ExcusedView
  <2> QED BY <2>1, <2>2
<1> HIDE DEF e
<1>2. Board!Shown(e, c) <=> Board!Shown(v, c)
  BY <1>1 DEF Board!Shown
<1> DEFINE w == Board!Seen(e, c, a)
<1>3. Noted(e, w, c, a)
  BY <1>1, SeenView
<1> HIDE DEF w
<1>4. NotedFor(v, w, c, a, more)
  BY <1>1, <1>2, <1>3 DEF Noted, NotedFor
<1> QED BY <1>4 DEF w, e

LEMMA OneCardFine ==
    ASSUME RowsOK(cards), NEW v, Fine(v, cards), NEW w \in Board!View, NEW c \in Cards,
           Sound(w, c, cards[c]), Right(w, c, cards[c]),
           \A x \in Cards \ {c} : Still(v, w, x) /\ SameDrops(v, w, x)
    PROVE  Fine(w, cards)
<1> SUFFICES ASSUME NEW x \in Cards, x # c
             PROVE  Sound(w, x, cards[x]) /\ Right(w, x, cards[x])
  BY DEF Fine
<1>1. /\ v \in Board!View /\ cards[x] \in Board!Row
      /\ Sound(v, x, cards[x]) /\ Right(v, x, cards[x])
      /\ Still(v, w, x) /\ SameDrops(v, w, x)
  BY DEF Fine, RowsOK
<1>2. Sound(w, x, cards[x])
  BY <1>1, StillSound DEF SameDrops
<1>3. Right(w, x, cards[x])
  BY <1>1, StillRight, SameDropsIs
<1> QED BY <1>2, <1>3

\* A change of the calls of one card.
CallsOnly(v, w) ==
    /\ w \in Board!View /\ w.copy = v.copy /\ w.last = v.last /\ w.pend = v.pend
    /\ w.fetch = v.fetch /\ w.drop = v.drop /\ w.recent = v.recent /\ w.modal = v.modal
    /\ w.batch = v.batch /\ w.on = v.on /\ w.knew = v.knew /\ w.excuse = v.excuse /\ w.raced = v.raced

LEMMA CallsView ==
    ASSUME NEW v \in Board!View, NEW N \in SUBSET Board!Call
    PROVE  CallsOnly(v, [v EXCEPT !.calls = N]) /\ [v EXCEPT !.calls = N].calls = N
BY DEF Board!View, CallsOnly

Without(v, n) == [v EXCEPT !.calls = @ \ {n}]

Asking(v, n) ==
    LET u == Without(v, n)
        m == [n EXCEPT !.stage = "asked",
                       !.prev = IF n.kind = "updated" THEN u.last[n.card] ELSE 0]
    IN  [u EXCEPT !.calls = @ \cup {m}]

LEMMA HearFine ==
    ASSUME RowsOK(cards), NEW v, Fine(v, cards), NEW n \in v.calls, n.stage = "told"
    PROVE  /\ Fine(Board!Ignored(Without(v, n), n.card), cards)
           /\ Fine(Asking(v, n), cards)
<1> DEFINE c == n.card
           r == cards[c]
           u == [v EXCEPT !.calls = @ \ {n}]
           m == [n EXCEPT !.stage = "asked",
                          !.prev = IF n.kind = "updated" THEN u.last[n.card] ELSE 0]
           i == Board!Ignored(u, c)
           w == [u EXCEPT !.calls = @ \cup {m}]
<1>0. /\ v \in Board!View /\ n \in Board!Call /\ c \in Cards
      /\ v.calls \ {n} \in SUBSET Board!Call
  BY ViewIs DEF Fine, Board!Call
<1>1. CallsOnly(v, u) /\ u.calls = v.calls \ {n}
  BY <1>0, CallsView
<1>2. /\ r \in Board!Row /\ RowOK(r) /\ Sound(v, c, r) /\ Right(v, c, r)
      /\ r.ver \in Nat /\ v.knew[c] \in Nat /\ v.last[c] \in Nat
  BY <1>0, ViewIs, RowIs DEF Fine, RowsOK
<1>3. m \in Board!Call /\ m.card = c /\ m.stage = "asked" /\ m.got = n.got /\ m.prev <= v.knew[c]
  <2>1. (IF n.kind = "updated" THEN u.last[n.card] ELSE 0) \in Nat
    BY <1>1, <1>2 DEF CallsOnly
  <2>2. (IF n.kind = "updated" THEN u.last[n.card] ELSE 0) <= v.knew[c]
    BY <1>1, <1>2 DEF CallsOnly, Sound, Aware
  <2> DEFINE p == IF n.kind = "updated" THEN u.last[n.card] ELSE 0
  <2> HIDE DEF p
  <2>3. [n EXCEPT !.stage = "asked", !.prev = p] \in Board!Call
    BY <1>0, <2>1 DEF Board!Call, p
  <2>4. /\ [n EXCEPT !.stage = "asked", !.prev = p].card = n.card
        /\ [n EXCEPT !.stage = "asked", !.prev = p].stage = "asked"
        /\ [n EXCEPT !.stage = "asked", !.prev = p].got = n.got
        /\ [n EXCEPT !.stage = "asked", !.prev = p].prev = p
    BY <1>0 DEF Board!Call
  <2> QED BY <2>2, <2>3, <2>4 DEF p
<1> HIDE DEF c, r, u, m
<1>4. Fine(w, cards)
  <2>1. u.calls \cup {m} \in SUBSET Board!Call /\ u \in Board!View
    BY <1>0, <1>1, <1>3 DEF CallsOnly
  <2>2. CallsOnly(u, w) /\ w.calls = u.calls \cup {m}
    BY <2>1, CallsView
  <2> HIDE DEF w
  <2>3. /\ w \in Board!View /\ w.copy = v.copy /\ w.last = v.last /\ w.fetch = v.fetch
        /\ w.drop = v.drop /\ w.knew = v.knew /\ w.excuse = v.excuse
        /\ w.calls = (v.calls \ {n}) \cup {m}
    BY <1>1, <2>2 DEF CallsOnly
  <2>4. \A x \in Cards \ {c} : Still(v, w, x) /\ SameDrops(v, w, x)
    BY <1>3, <2>3 DEF Still, SameDrops, c
  <2>5. Coming(w, c, r)
    BY <1>3, <2>3 DEF Coming
  <2>6. Aware(w, c, r)
    BY <1>2, <1>3, <2>3 DEF Sound, Aware, c
  <2>7. Seated(w, c, r)
    BY <1>2, <2>3 DEF Sound, Seated
  <2>8. Expected(w, c, r)
    BY <2>5 DEF Expected
  <2>9. Right(w, c, r)
    BY <1>2, <2>3, <2>5 DEF Right, Under
  <2> QED BY <1>0, <2>3, <2>4, <2>6, <2>7, <2>8, <2>9, OneCardFine DEF Sound, r
<1>5. Fine(i, cards)
  <2>1. u \in Board!View /\ cards[c].ver \in Nat
    BY <1>1, <1>2 DEF CallsOnly, r
  <2>2. /\ i \in Board!View /\ i.knew = [u.knew EXCEPT ![c] = cards[c].ver]
        /\ u.excuse \subseteq i.excuse /\ i.excuse \subseteq u.excuse \cup {c}
        /\ u.copy[c].st # cards[c].st => c \in i.excuse
        /\ i.copy = u.copy /\ i.last = u.last /\ i.calls = u.calls
        /\ i.fetch = u.fetch /\ i.drop = u.drop
    BY <1>0, <2>1, IgnoredView
  <2> HIDE DEF i
  <2>3. /\ i.copy = v.copy /\ i.last = v.last /\ i.fetch = v.fetch /\ i.drop = v.drop
        /\ i.calls = v.calls \ {n} /\ v.excuse \subseteq i.excuse
        /\ i.knew[c] = r.ver /\ \A x \in Cards \ {c} : i.knew[x] = v.knew[x]
        /\ v.copy[c].st # r.st => c \in i.excuse
    BY <1>0, <1>1, <2>2, ViewIs DEF CallsOnly, r
  <2>4. \A x \in Cards \ {c} : Still(v, i, x) /\ SameDrops(v, i, x)
    BY <2>3 DEF Still, SameDrops, c
  <2>5. v.knew[c] <= r.ver /\ v.last[c] <= v.knew[c]
    BY <1>2 DEF Sound, Aware
  <2>6. Aware(i, c, r)
    <3>1. \A k \in v.calls : k.prev \in Nat
      BY <1>0, ViewIs DEF Board!Call
    <3> QED BY <1>2, <2>3, <2>5, <3>1 DEF Sound, Aware
  <2>7. Seated(i, c, r)
    <3>1. ASSUME v.copy[c].cols = {}
          PROVE  c \in i.excuse
      <4>1. v.copy[c].st = "none"
        BY <1>2, <3>1 DEF Sound, Seated, Matched
      <4> QED BY <1>2, <2>3, <4>1, RowIs
    <3> QED BY <1>2, <2>3, <2>5, <3>1 DEF Sound, Seated
  <2>8. Expected(i, c, r)
    BY <1>2, <2>3 DEF Expected
  <2>9. Right(i, c, r)
    <3>1. v.copy[c].st \in {"TODO", "IN_PROGRESS", "DONE", "none"}
      BY <1>0, ViewIs DEF Board!Copy, Board!Columns
    <3>2. v.copy[c].st = r.st => v.copy[c].st = Face(r)
      BY <1>2, <3>1, RowIs
    <3> QED BY <2>3, <3>2 DEF Right
  <2> QED BY <1>0, <2>2, <2>4, <2>6, <2>7, <2>8, <2>9, OneCardFine DEF Sound, r
<1> QED BY <1>4, <1>5 DEF Without, Asking, c, u, m

AnsweredCall(v, n, a) ==
    [v EXCEPT !.calls = (@ \ {n}) \cup {[n EXCEPT !.stage = "answered", !.got = a]}]

LEMMA AnswerCallFine ==
    ASSUME RowsOK(cards), NEW v, Fine(v, cards), NEW n \in v.calls, n.stage = "asked",
           NEW a \in {Board!About(n.card), Board!NoAnswer}
    PROVE  Fine(AnsweredCall(v, n, a), cards)
<1> DEFINE c == n.card
           r == cards[c]
           m == [n EXCEPT !.stage = "answered", !.got = a]
           N == (v.calls \ {n}) \cup {m}
           w == [v EXCEPT !.calls = N]
<1>0. v \in Board!View /\ n \in Board!Call /\ c \in Cards /\ v.calls \subseteq Board!Call
  BY ViewIs DEF Fine, Board!Call
<1>1. r \in Board!Row /\ RowOK(r) /\ Sound(v, c, r) /\ Right(v, c, r)
  BY <1>0 DEF Fine, RowsOK
<1>2. /\ a \in Board!Answer /\ TrueAnswer(a, r)
      /\ a.st = "none" \/ a.ver = r.ver
  BY <1>0, <1>1, AboutTrue, NoAnswerTrue DEF Board!NoAnswer
<1>3. m \in Board!Call /\ m.card = c /\ m.stage = "answered" /\ m.got = a /\ m.prev = n.prev
  BY <1>0, <1>2 DEF Board!Call
<1> HIDE DEF c, r, m
<1>4. N \in SUBSET Board!Call
  BY <1>0, <1>3
<1> HIDE DEF N
<1>5. CallsOnly(v, w) /\ w.calls = N
  BY <1>0, <1>4, CallsView
<1> HIDE DEF w
<1>6. /\ w \in Board!View /\ w.copy = v.copy /\ w.last = v.last /\ w.fetch = v.fetch
      /\ w.drop = v.drop /\ w.knew = v.knew /\ w.excuse = v.excuse
      /\ w.calls = (v.calls \ {n}) \cup {m}
  BY <1>5 DEF CallsOnly, N
<1>7. \A x \in Cards \ {c} : Still(v, w, x) /\ SameDrops(v, w, x)
  BY <1>3, <1>6 DEF Still, SameDrops, c
<1>8. Coming(w, c, r)
  BY <1>2, <1>3, <1>6 DEF Coming
<1>9. Aware(w, c, r)
  BY <1>1, <1>2, <1>3, <1>6 DEF Sound, Aware, c
<1>10. Seated(w, c, r)
  BY <1>1, <1>6 DEF Sound, Seated
<1>11. Expected(w, c, r) /\ Right(w, c, r)
  BY <1>1, <1>6, <1>8 DEF Expected, Right, Under
<1>12. Fine(w, cards)
  BY <1>0, <1>6, <1>7, <1>9, <1>10, <1>11, OneCardFine DEF Sound, r
<1> QED BY <1>12 DEF AnsweredCall, w, N, m

\* A handler that got its answer: a failure is a reason, a stale answer changes
\* nothing, and what is shown is used.
Heeding(v, n) ==
    LET u == Without(v, n)
        c == n.card
    IN  Board!Seen(IF Board!Older(u, c, n.got) \/ (n.kind # "added" /\ ~Board!Shown(u, c))
                   THEN Board!Excused(u, {c}) ELSE u, c, n.got)

\* What is held of readings stays.
Holds(v, w) == w.modal = v.modal /\ w.raced = v.raced /\ w.drop = v.drop /\ w.batch = v.batch

LEMMA HeedFine ==
    ASSUME RowsOK(cards), NEW v, Fine(v, cards), NEW n \in v.calls, n.stage = "answered"
    PROVE  LET u == Without(v, n)
               e == Board!Excused(u, {n.card})
               p == Board!Prepended(Heeding(v, n), n.card, n.got)
               q == Board!Replaced(Heeding(v, n), n.card, n.got)
           IN  /\ n.got.st = "none" => Fine(e, cards) /\ Holds(v, e)
               /\ n.got.st # "none" /\ Board!Stale(u, n) => Fine(u, cards) /\ Holds(v, u)
               /\ n.got.st # "none" /\ n.kind = "added" => Fine(p, cards) /\ Holds(v, p)
               /\ n.got.st # "none" /\ n.kind # "added" => Fine(q, cards) /\ Holds(v, q)
<1> DEFINE c == n.card
           a == n.got
           r == cards[c]
           u == [v EXCEPT !.calls = @ \ {n}]
           more == {x \in {c} : Board!Older(u, c, a) \/ (n.kind # "added" /\ ~Board!Shown(u, c))}
           w == Board!Seen(IF more = {} THEN u ELSE Board!Excused(u, {c}), c, a)
<1>0. /\ v \in Board!View /\ n \in Board!Call /\ c \in Cards /\ a \in Board!Answer
      /\ v.calls \ {n} \in SUBSET Board!Call
  BY ViewIs DEF Fine, Board!Call
<1>1. CallsOnly(v, u) /\ u.calls = v.calls \ {n}
  BY <1>0, CallsView
<1>2. /\ r \in Board!Row /\ RowOK(r) /\ Sound(v, c, r) /\ Right(v, c, r) /\ TrueAnswer(a, r)
      /\ n.prev <= v.knew[c]
  BY <1>0 DEF Fine, RowsOK, Sound, Aware
<1>3. /\ r.ver \in Nat /\ v.knew[c] \in Nat /\ v.last[c] \in Nat /\ a.ver \in Nat /\ n.prev \in Nat
      /\ v.last[c] <= v.knew[c]
  BY <1>0, <1>2, ViewIs, RowIs, AnswerIs DEF Sound, Aware, Board!Call
<1>4. Board!Seen(IF Board!Older(u, c, n.got) \/ (n.kind # "added" /\ ~Board!Shown(u, c))
                 THEN Board!Excused(u, {c}) ELSE u, c, n.got) = w
  <2>1. more = {} <=> ~(Board!Older(u, c, n.got) \/ (n.kind # "added" /\ ~Board!Shown(u, c)))
    OBVIOUS
  <2> HIDE DEF more, u
  <2>2. CASE more = {}
    BY <2>1, <2>2
  <2>3. CASE more # {}
    BY <2>1, <2>3
  <2> QED BY <2>2, <2>3
<1>5. /\ more \in SUBSET {c}
      /\ c \in more <=> Board!Older(u, c, a) \/ (n.kind # "added" /\ ~Board!Shown(u, c))
  OBVIOUS
<1> HIDE DEF c, a, r, u, more
<1>6. /\ u \in Board!View /\ u.copy = v.copy /\ u.last = v.last /\ u.fetch = v.fetch
      /\ u.drop = v.drop /\ u.knew = v.knew /\ u.excuse = v.excuse /\ u.calls = v.calls \ {n}
      /\ u.modal = v.modal /\ u.raced = v.raced /\ u.batch = v.batch
  BY <1>1 DEF CallsOnly
<1>7. Aware(u, c, r) /\ Seated(u, c, r)
  BY <1>2, <1>6 DEF Sound, Aware, Seated
<1>8. ASSUME Coming(v, c, r), a.st # "none", a.ver # r.ver
      PROVE  Coming(u, c, r)
  BY <1>6, <1>8 DEF Coming, a
<1>9. ASSUME a.st = "none"
      PROVE  Fine(Board!Excused(u, {c}), cards) /\ Holds(v, Board!Excused(u, {c}))
  <2> DEFINE z == Board!Excused(u, {c})
  <2>1. /\ z \in Board!View /\ z.excuse = u.excuse \cup {c}
        /\ z.copy = u.copy /\ z.last = u.last /\ z.calls = u.calls
        /\ z.fetch = u.fetch /\ z.drop = u.drop /\ z.knew = u.knew
        /\ z.modal = u.modal /\ z.raced = u.raced /\ z.batch = u.batch
    BY <1>0, <1>6, ExcusedView
  <2> HIDE DEF z
  <2>2. \A x \in Cards \ {c} : Still(v, z, x) /\ SameDrops(v, z, x)
    BY <1>6, <2>1 DEF Still, SameDrops, c
  <2>3. Aware(z, c, r) /\ Seated(z, c, r) /\ Expected(z, c, r) /\ Right(z, c, r)
    BY <1>7, <2>1 DEF Aware, Seated, Expected, Right
  <2>4. Fine(z, cards) /\ Holds(v, z)
    <3>1. Holds(v, z)
      BY <1>6, <2>1 DEF Holds
    <3> QED BY <1>0, <2>1, <2>2, <2>3, <3>1, OneCardFine DEF Sound, r
  <2> QED BY <2>4 DEF z
<1>10. ASSUME a.st # "none", Board!Stale(u, n)
       PROVE  Fine(u, cards) /\ Holds(v, u)
  <2>1. a.ver <= v.knew[c]
    BY <1>2, <1>3, <1>6, <1>10 DEF Board!Stale, a, c
  <2>2. \A x \in Cards \ {c} : Still(v, u, x) /\ SameDrops(v, u, x)
    BY <1>6 DEF Still, SameDrops, c
  <2>3. r.ver > v.knew[c] /\ Coming(v, c, r) => Coming(u, c, r)
    BY <1>3, <1>8, <1>10, <2>1
  <2>4. Expected(u, c, r)
    BY <1>2, <1>6, <2>3 DEF Sound, Expected
  <2>5. Right(u, c, r)
    BY <1>2, <1>6, <2>3 DEF Right, Under
  <2>6. Holds(v, u)
    BY <1>6 DEF Holds
  <2> QED BY <1>0, <1>6, <1>7, <2>2, <2>4, <2>5, <2>6, OneCardFine DEF Sound, r
<1>11. NotedFor(u, w, c, a, more)
  BY <1>0, <1>5, <1>6, SeenCard
<1> HIDE DEF w
<1>12. /\ w \in Board!View
       /\ w.last = [v.last EXCEPT ![c] = a.ver]
       /\ w.knew = [v.knew EXCEPT ![c] = Board!Later(v.knew[c], a.ver)]
       /\ w.excuse = IF Board!Shown(u, c) /\ a.st = cards[c].st
                       THEN (v.excuse \cup more) \ {c} ELSE v.excuse \cup more
       /\ w.copy = v.copy /\ w.calls = v.calls \ {n} /\ w.fetch = v.fetch /\ w.drop = v.drop
       /\ w.modal = v.modal /\ w.raced = v.raced /\ w.batch = v.batch
  BY <1>6, <1>11 DEF NotedFor
<1>13. /\ Board!Shown(u, c) <=> v.copy[c].cols # {}
       /\ Board!Older(u, c, a) <=> a.ver < v.knew[c] \/ a.ver < r.mute
       /\ Board!Shown(w, c) <=> v.copy[c].cols # {}
  BY <1>6, <1>12 DEF Board!Shown, Board!Older, r
<1>14. ASSUME NEW z \in Board!View, a.st # "none",
              z.last = w.last, z.knew = w.knew, z.excuse = w.excuse, z.calls = w.calls,
              z.fetch = w.fetch, z.drop = w.drop,
              \A x \in Cards \ {c} : z.copy[x] = v.copy[x],
              \/ z.copy[c].st = a.st /\ z.copy[c].cols # {}
              \/ z.copy[c] = v.copy[c] /\ v.copy[c].cols = {} /\ n.kind # "added"
       PROVE  Fine(z, cards)
  <2>1. \A x \in Cards \ {c} : z.last[x] = v.last[x] /\ z.knew[x] = v.knew[x]
    BY <1>0, <1>12, <1>14, ViewIs
  <2>2. \A x \in Cards \ {c} : x \in v.excuse => x \in z.excuse
    BY <1>12, <1>14
  <2>3. \A x \in Cards \ {c} : Still(v, z, x) /\ SameDrops(v, z, x)
    BY <1>12, <1>14, <2>1, <2>2 DEF Still, SameDrops, c
  <2>4. z.last[c] = a.ver /\ z.knew[c] = Board!Later(v.knew[c], a.ver)
    BY <1>0, <1>12, <1>14, ViewIs
  <2>5. r.ver > v.knew[c] /\ r.ver > r.mute /\ a.ver < r.ver => c \in v.excuse \/ Coming(z, c, r)
    <3>1. SUFFICES ASSUME r.ver > v.knew[c], r.ver > r.mute, a.ver < r.ver, c \notin v.excuse
                   PROVE  Coming(z, c, r)
      OBVIOUS
    <3>2. Coming(v, c, r)
      BY <1>2, <3>1 DEF Sound, Expected
    <3>3. Coming(u, c, r)
      BY <1>3, <1>8, <1>14, <3>1, <3>2
    <3> QED BY <1>6, <1>12, <1>14, <3>3 DEF Coming
  <2>6. \/ /\ z.copy[c].st = a.st /\ z.copy[c].cols # {}
           /\ (c \in v.excuse \/ a.ver < v.knew[c] \/ a.ver < r.mute) /\ a.st # r.st => c \in z.excuse
        \/ z.copy[c] = v.copy[c] /\ z.copy[c].cols = {} /\ c \in z.excuse
    <3>1. CASE z.copy[c].st = a.st /\ z.copy[c].cols # {}
      BY <1>5, <1>12, <1>13, <1>14, <3>1 DEF r
    <3>2. CASE z.copy[c] = v.copy[c] /\ v.copy[c].cols = {} /\ n.kind # "added"
      BY <1>5, <1>12, <1>13, <1>14, <3>2
    <3> QED BY <1>14, <3>1, <3>2
  <2>7. z.calls \subseteq v.calls /\ z.fetch = v.fetch /\ z.drop = v.drop
    BY <1>12, <1>14
  <2>8. Aware(v, c, r) /\ Seated(v, c, r)
    BY <1>2 DEF Sound
  <2>9. Sound(z, c, r) /\ Right(z, c, r)
    BY <1>0, <1>2, <1>14, <2>4, <2>5, <2>6, <2>7, <2>8, UsedAnswer
  <2> QED BY <1>0, <1>14, <2>3, <2>9, OneCardFine DEF r
<1>15. ASSUME a.st # "none", n.kind = "added"
       PROVE  Fine(Board!Prepended(w, c, a), cards) /\ Holds(v, Board!Prepended(w, c, a))
  <2> DEFINE z == Board!Prepended(w, c, a)
  <2>1. /\ z \in Board!View
        /\ z.copy = [w.copy EXCEPT ![c] = [cols |-> {a.st}, st |-> a.st]]
        /\ z.last = w.last /\ z.knew = w.knew /\ z.excuse = w.excuse /\ z.calls = w.calls
        /\ z.fetch = w.fetch /\ z.drop = w.drop /\ z.modal = w.modal /\ z.raced = w.raced /\ z.batch = w.batch
    BY <1>0, <1>12, <1>15, PrependedView
  <2> HIDE DEF z
  <2>2. /\ z.copy[c].st = a.st /\ z.copy[c].cols # {}
        /\ \A x \in Cards \ {c} : z.copy[x] = v.copy[x]
    BY <1>0, <1>12, <2>1, ViewIs
  <2>3. Fine(z, cards)
    BY <1>14, <1>15, <2>1, <2>2
  <2>4. Holds(v, z)
    BY <1>12, <2>1 DEF Holds
  <2> QED BY <2>3, <2>4 DEF z
<1>16. ASSUME a.st # "none", n.kind # "added"
       PROVE  Fine(Board!Replaced(w, c, a), cards) /\ Holds(v, Board!Replaced(w, c, a))
  <2> DEFINE z == Board!Replaced(w, c, a)
  <2>1. /\ z \in Board!View
        /\ z.copy = IF Board!Shown(w, c)
                      THEN [w.copy EXCEPT ![c] = [cols |-> w.copy[c].cols, st |-> a.st]]
                      ELSE w.copy
        /\ z.last = w.last /\ z.knew = w.knew /\ z.excuse = w.excuse /\ z.calls = w.calls
        /\ z.fetch = w.fetch /\ z.drop = w.drop /\ z.modal = w.modal /\ z.raced = w.raced /\ z.batch = w.batch
    BY <1>0, <1>12, <1>16, ReplacedView
  <2> HIDE DEF z
  <2>2. /\ \A x \in Cards \ {c} : z.copy[x] = v.copy[x]
        /\ \/ z.copy[c].st = a.st /\ z.copy[c].cols # {}
           \/ z.copy[c] = v.copy[c] /\ v.copy[c].cols = {} /\ n.kind # "added"
    <3>1. CASE Board!Shown(w, c)
      BY <1>0, <1>12, <1>13, <2>1, <3>1, ViewIs
    <3>2. CASE ~Board!Shown(w, c)
      BY <1>0, <1>12, <1>13, <1>16, <2>1, <3>2, ViewIs
    <3> QED BY <3>1, <3>2
  <2>3. Fine(z, cards)
    BY <1>14, <1>16, <2>1, <2>2
  <2>4. Holds(v, z)
    BY <1>12, <2>1 DEF Holds
  <2> QED BY <2>3, <2>4 DEF z
<1> QED BY <1>4, <1>9, <1>10, <1>15, <1>16 DEF Without, Heeding, c, a, u

\* The board as it is now: a true answer about every card.
LEMMA AnswerBoardFine ==
    ASSUME RowsOK(cards), NEW v, Fine(v, cards)
    PROVE  Fine([v EXCEPT !.fetch = [stage |-> "answered",
                                     got |-> [c \in Cards |-> Board!About(c)]]], cards)
<1> DEFINE f == [stage |-> "answered", got |-> [c \in Cards |-> Board!About(c)]]
           w == [v EXCEPT !.fetch = f]
<1>0. \A c \in Cards : cards[c] \in Board!Row /\ RowOK(cards[c])
  BY DEF RowsOK
<1>1. f \in Board!Fetch /\ \A c \in Cards : TrueAnswer(f.got[c], cards[c])
  BY <1>0, AboutTrue DEF Board!Fetch
<1> HIDE DEF f
<1>2. /\ w \in Board!View /\ w.fetch = f
      /\ w.copy = v.copy /\ w.last = v.last /\ w.calls = v.calls
      /\ w.drop = v.drop /\ w.knew = v.knew /\ w.excuse = v.excuse
  BY <1>1 DEF Fine, Board!View
<1> HIDE DEF w
<1>3. ASSUME NEW x \in Cards
      PROVE  Sound(w, x, cards[x]) /\ Right(w, x, cards[x])
  <2>1. Sound(v, x, cards[x]) /\ Right(v, x, cards[x])
    BY DEF Fine
  <2>2. Aware(w, x, cards[x])
    BY <1>1, <1>2, <2>1 DEF Sound, Aware
  <2>3. Seated(w, x, cards[x])
    BY <1>2, <2>1 DEF Sound, Seated
  <2>4. Expected(w, x, cards[x]) /\ Right(w, x, cards[x])
    BY <1>2, <2>1 DEF Sound, Expected, Right, Coming, Under
  <2> QED BY <2>2, <2>3, <2>4 DEF Sound
<1>4. Fine(w, cards)
  BY <1>2, <1>3 DEF Fine
<1> QED BY <1>4 DEF w, f

\* The board is shown as answered: what is older than the newest has its reason or
\* a newer one coming.  (Effects of the actions get names here.)
ShownBoard(v) ==
    LET got == v.fetch.got
    IN  [v EXCEPT
           !.copy = [c \in Cards |-> [cols |-> {got[c].st} \ {"none"}, st |-> got[c].st]],
           !.fetch = Board!NoFetch,
           !.knew = [c \in Cards |-> Board!Later(@[c], got[c].ver)],
           !.excuse = {c \in Cards : /\ got[c].st # Board!About(c).st
                                     /\ c \in v.excuse \/ Board!Older(v, c, got[c])}]

LEMMA ShowBoardFine ==
    ASSUME RowsOK(cards), NEW v, Fine(v, cards), v.fetch.stage = "answered"
    PROVE  Fine(ShownBoard(v), cards)
<1> DEFINE got == v.fetch.got
           copy == [c \in Cards |-> [cols |-> {got[c].st} \ {"none"}, st |-> got[c].st]]
           knew == [c \in Cards |-> Board!Later(v.knew[c], got[c].ver)]
           excuse == {c \in Cards : /\ got[c].st # Board!About(c).st
                                    /\ c \in v.excuse \/ Board!Older(v, c, got[c])}
           w == [v EXCEPT !.copy = copy, !.fetch = Board!NoFetch, !.knew = knew, !.excuse = excuse]
<1>0. v \in Board!View /\ got \in [Cards -> Board!Answer] /\ v.knew \in [Cards -> Nat]
  BY ViewIs DEF Fine, Board!Fetch
<1>1. copy \in [Cards -> Board!Copy]
  BY <1>0 DEF Board!Copy, Board!Answer
<1>2. knew \in [Cards -> Nat]
  BY <1>0 DEF Board!Later, Board!Answer
<1>3. excuse \in SUBSET Cards
  OBVIOUS
<1>4. Board!NoFetch \in Board!Fetch /\ Board!NoFetch.stage = "none"
  BY DEF Board!NoFetch, Board!Fetch, Board!NoAnswer, Board!Answer
<1>5. \A c \in Cards :
        /\ copy[c].cols = {got[c].st} \ {"none"} /\ copy[c].st = got[c].st
        /\ knew[c] = Board!Later(v.knew[c], got[c].ver)
        /\ c \in excuse <=> /\ got[c].st # Board!About(c).st
                            /\ c \in v.excuse \/ Board!Older(v, c, got[c])
  OBVIOUS
<1> HIDE DEF got, copy, knew, excuse
<1>6. /\ w \in Board!View /\ w.copy = copy /\ w.fetch = Board!NoFetch /\ w.knew = knew
      /\ w.excuse = excuse /\ w.last = v.last /\ w.calls = v.calls /\ w.drop = v.drop
  BY <1>0, <1>1, <1>2, <1>3, <1>4 DEF Board!View
<1>7. w = [v EXCEPT !.copy = copy, !.fetch = Board!NoFetch, !.knew = knew, !.excuse = excuse]
  OBVIOUS
<1> HIDE DEF w
<1>8. ASSUME NEW c \in Cards
      PROVE  Sound(w, c, cards[c]) /\ Right(w, c, cards[c])
  <2> DEFINE r == cards[c]
             a == got[c]
  <2>1. /\ r \in Board!Row /\ RowOK(r) /\ Sound(v, c, r) /\ Right(v, c, r)
        /\ a \in Board!Answer /\ TrueAnswer(a, r)
    BY <1>0 DEF Fine, RowsOK, Sound, Aware, got
  <2>2. Board!About(c).st = Face(r)
    BY <2>1, AboutTrue
  <2>3. /\ w.copy[c].cols = {a.st} \ {"none"} /\ w.copy[c].st = a.st
        /\ w.knew[c] = Board!Later(v.knew[c], a.ver)
        /\ c \in w.excuse <=> /\ a.st # Face(r)
                              /\ c \in v.excuse \/ a.ver < v.knew[c] \/ a.ver < r.mute
    BY <1>5, <1>6, <2>2 DEF Board!Older
  <2> HIDE DEF r, a
  <2>4. /\ v.knew[c] \in Nat /\ w.knew[c] \in Nat /\ a.ver \in Nat /\ r.ver \in Nat /\ r.mute \in Nat
        /\ v.last[c] \in Nat /\ v.last[c] <= v.knew[c]
        /\ a.ver <= r.ver /\ r.mute <= r.ver /\ v.knew[c] <= r.ver
        /\ v.knew[c] <= w.knew[c] /\ a.ver <= w.knew[c] /\ w.knew[c] <= r.ver
        /\ w.knew[c] = v.knew[c] \/ w.knew[c] = a.ver
    BY <1>0, <2>1, <2>3, ViewIs, RowIs, AnswerIs DEF Board!Later, Sound, Aware, TrueAnswer, RowOK
  <2>5. a.ver = r.ver => a.st = Face(r)
    BY <2>1 DEF TrueAnswer
  <2>6. a.ver < r.ver /\ r.ver > r.mute => a.st # Face(r) \/ a.st = "none"
    BY <2>1, RowIs, AnswerIs DEF TrueAnswer
  <2>7. Coming(w, c, r) <=> Coming(v, c, r)
    BY <1>6 DEF Coming
  <2>8. Aware(w, c, r)
    <3>1. \A n \in v.calls : n.prev \in Nat
      BY <1>0, ViewIs DEF Board!Call
    <3> QED BY <1>4, <1>6, <2>1, <2>4, <3>1 DEF Sound, Aware
  <2>9. Seated(w, c, r)
    <3>1. Matched(w.copy[c])
      BY <2>3 DEF Matched
    <3>2. a.st # "none" => a.ver > 0
      BY <2>1, <2>4 DEF TrueAnswer
    <3>3. ASSUME a.st = "none", w.knew[c] > 0
          PROVE  c \in w.excuse \/ r.st = "gone"
      <4>1. CASE a.ver > 0
        BY <2>1, <3>3, <4>1 DEF TrueAnswer
      <4>2. CASE a.ver = 0
        <5>1. v.knew[c] > 0 /\ r.ver > 0
          BY <2>4, <3>3, <4>2
        <5>2. r.st # "absent"
          BY <2>1, <5>1 DEF RowOK
        <5>3. a.st # Face(r) \/ r.st = "gone"
          BY <2>1, <3>3, <5>2, RowIs
        <5> QED BY <2>3, <2>4, <4>2, <5>1, <5>3
      <4> QED BY <2>4, <4>1, <4>2
    <3> QED BY <1>6, <2>1, <2>3, <2>4, <3>1, <3>2, <3>3 DEF Sound, Seated
  <2>10. ASSUME a.st # Face(r), c \notin w.excuse
         PROVE  r.ver > w.knew[c] /\ Coming(w, c, r)
    <3>1. c \notin v.excuse /\ a.ver >= v.knew[c] /\ a.ver >= r.mute /\ a.ver # r.ver
      BY <2>3, <2>4, <2>5, <2>10
    <3>2. r.ver > v.knew[c] /\ r.ver > r.mute /\ w.knew[c] < r.ver
      BY <2>4, <3>1
    <3> QED BY <2>1, <2>7, <3>1, <3>2 DEF Sound, Expected
  <2>11. Expected(w, c, r)
    <3> SUFFICES ASSUME r.ver > w.knew[c], r.ver > r.mute, c \notin w.excuse
                 PROVE  Coming(w, c, r)
      BY DEF Expected
    <3>1. a.ver < r.ver /\ r.ver > v.knew[c]
      BY <2>4
    <3>2. CASE a.st # Face(r)
      BY <2>10, <3>2
    <3>3. CASE a.st = Face(r)
      <4>1. a.st = "none"
        BY <2>6, <3>1, <3>3
      <4>2. r.st \in {"absent", "gone"}
        BY <2>1, <3>3, <4>1, RowIs
      <4> QED BY <2>1, <2>4, <3>1, <4>2 DEF RowOK
    <3> QED BY <3>2, <3>3
  <2>12. Right(w, c, r)
    BY <2>3, <2>10 DEF Right
  <2> QED BY <2>8, <2>9, <2>11, <2>12 DEF Sound, r
<1>9. Fine(w, cards)
  BY <1>6, <1>8 DEF Fine
<1> QED BY <1>7, <1>9 DEF ShownBoard, got, copy, knew, excuse

LEMMA DropPair ==
    ASSUME NEW k \in Board!Drops
    PROVE  /\ k[1] \in Hands /\ k[2] \in Cards /\ k = <<k[1], k[2]>>
           /\ k[1] \in Board!Holders /\ k[1] # "modal" /\ k[1] # "batch"
BY BoardAssumption DEF Board!Drops, Board!Holders, Board!DeskAssumption

\* A card that is dropped: dragged until the server answers, or left for a reason.
Dragged(v, k, to) == [Board!Moved(v, k[2], to) EXCEPT !.pend = @ \cup {k[2]}, !.recent = k]

Dragging(v, k, to, stage) ==
    [Dragged(v, k, to) EXCEPT !.drop[k] =
       [Board!NoDrop EXCEPT !.stage = stage, !.to = to, !.before = v.copy]]

LeftDropped(v, k, to) == Board!DropOver(Board!Excused(Dragged(v, k, to), {k[2]}), k)

\* One drop changes.
Dropped(v, w, k, x) ==
    /\ w.modal = v.modal /\ w.raced = v.raced /\ w.batch = v.batch
    /\ w.drop = [v.drop EXCEPT ![k] = x]

LEMMA DropCardFine ==
    ASSUME RowsOK(cards), NEW v, Fine(v, cards), NEW k \in Board!Drops, NEW to \in Board!Columns,
           Board!Shown(v, k[2]), NEW stage \in {"read", "post"}
    PROVE  LET e == LeftDropped(v, k, to)
               z == Dragging(v, k, to, stage)
           IN  /\ Fine(e, cards) /\ Dropped(v, e, k, Board!OverDrop)
               /\ Fine(z, cards) /\ \E x \in Board!Drop : x.stage = stage /\ Dropped(v, z, k, x)
<1> DEFINE c == k[2]
           m == Board!Moved(v, c, to)
           w == [m EXCEPT !.pend = @ \cup {c}, !.recent = k]
           drop == [Board!NoDrop EXCEPT !.stage = stage, !.to = to, !.before = v.copy]
           f == Board!Excused(w, {c})
           e == Board!DropOver(f, k)
           z == [w EXCEPT !.drop[k] = drop]
           r == cards[c]
           copy == [v.copy EXCEPT ![c] = [cols |-> {to}, st |-> to]]
<1>a. c \in Cards
  BY DropPair
<1>0. /\ v \in Board!View /\ r \in Board!Row /\ Sound(v, c, r)
      /\ v.copy \in [Cards -> Board!Copy] /\ v.drop \in [Board!Drops -> Board!Drop]
      /\ v.copy[c].cols # {}
  BY <1>a, ViewIs DEF Fine, RowsOK, Board!Shown
<1>b. Dragged(v, k, to) = w /\ LeftDropped(v, k, to) = e /\ Dragging(v, k, to, stage) = z
  BY DEF Dragged, LeftDropped, Dragging
<1> HIDE DEF c
<1>1. copy \in [Cards -> Board!Copy] /\ copy[c] = [cols |-> {to}, st |-> to]
  BY <1>a, <1>0 DEF Board!Copy
<1>2. \A x \in Cards \ {c} : copy[x] = v.copy[x]
  OBVIOUS
<1>3. m = [v EXCEPT !.copy = copy]
  BY <1>0 DEF Board!Moved, Board!View
<1> HIDE DEF copy, m
<1>4. /\ m \in Board!View /\ m.copy = copy
      /\ m.last = v.last /\ m.pend = v.pend /\ m.calls = v.calls /\ m.drop = v.drop
      /\ m.fetch = v.fetch /\ m.modal = v.modal /\ m.excuse = v.excuse
      /\ m.knew = v.knew /\ m.raced = v.raced /\ m.batch = v.batch
  BY <1>0, <1>1, <1>3 DEF Board!View
<1>5. /\ w \in Board!View /\ w.copy = copy
      /\ w.last = v.last /\ w.calls = v.calls /\ w.drop = v.drop
      /\ w.fetch = v.fetch /\ w.modal = v.modal /\ w.excuse = v.excuse
      /\ w.knew = v.knew /\ w.raced = v.raced /\ w.batch = v.batch
  BY <1>a, <1>4 DEF Board!View
<1> HIDE DEF w
<1>6. /\ f \in Board!View /\ f.copy = copy /\ f.excuse = v.excuse \cup {c}
      /\ f.last = v.last /\ f.calls = v.calls /\ f.drop = v.drop
      /\ f.fetch = v.fetch /\ f.modal = v.modal /\ f.knew = v.knew /\ f.raced = v.raced
      /\ f.batch = v.batch
  BY <1>a, <1>5, ExcusedView
<1> HIDE DEF f
<1>c. /\ e \in Board!View /\ e.copy = copy /\ e.excuse = v.excuse \cup {c}
      /\ e.drop = [v.drop EXCEPT ![k] = Board!OverDrop]
      /\ e.last = v.last /\ e.calls = v.calls
      /\ e.fetch = v.fetch /\ e.modal = v.modal /\ e.knew = v.knew /\ e.raced = v.raced
      /\ e.batch = v.batch
  BY <1>6, DropOverView
<1>7. drop \in Board!Drop /\ drop.stage = stage /\ drop.before = v.copy
  BY <1>0 DEF Board!NoDrop, Board!Drop, Board!Blank, Board!Copy, Board!NoAnswer, Board!Answer, Board!Columns
<1> HIDE DEF drop
<1>8. /\ z \in Board!View /\ z.drop = [v.drop EXCEPT ![k] = drop] /\ z.copy = copy
      /\ z.last = v.last /\ z.calls = v.calls /\ z.excuse = v.excuse
      /\ z.fetch = v.fetch /\ z.modal = v.modal /\ z.knew = v.knew /\ z.raced = v.raced
      /\ z.batch = v.batch
  BY <1>5, <1>7, DropSetView
<1> HIDE DEF e, z, r
<1>9. Matched(copy[c]) /\ copy[c].cols # {} /\ v.knew[c] > 0
  BY <1>0, <1>1 DEF Matched, Board!Columns, Sound, Seated
<1>d. \A j \in Board!Drops : j[2] # c => j # k
  BY DEF c
<1>10. Fine(e, cards)
  <2>0. \A j \in Board!Drops : \/ e.drop[j] = v.drop[j]
                               \/ j = k /\ e.drop[j].stage = "over" /\ e.drop[j].before = Board!Blank
    BY <1>0, <1>c, NoDropIs
  <2>1. \A x \in Cards \ {c} : Still(v, e, x) /\ SameDrops(v, e, x)
    BY <1>2, <1>c, <2>0, <1>d DEF Still, SameDrops
  <2>2. Aware(e, c, r)
    BY <1>0, <1>c, <2>0 DEF Sound, Aware
  <2>3. Seated(e, c, r)
    <3>1. ASSUME NEW j \in Board!Drops
          PROVE  /\ j[2] = c /\ e.drop[j].stage \in {"read", "post", "ask", "show"} => e.knew[c] > 0
                 /\ Matched(e.drop[j].before[c])
                 /\ e.drop[j].before[c].cols # {} => e.knew[c] > 0
      BY <1>a, <1>0, <1>c, <2>0, BlankIs DEF Sound, Seated
    <3> QED BY <1>c, <1>9, <3>1 DEF Seated
  <2>4. Expected(e, c, r) /\ Right(e, c, r)
    BY <1>c DEF Expected, Right
  <2> QED BY <1>a, <1>c, <2>1, <2>2, <2>3, <2>4, OneCardFine DEF Sound, r
<1>11. Fine(z, cards)
  <2>1. z.drop[k] = drop /\ \A j \in Board!Drops \ {k} : z.drop[j] = v.drop[j]
    BY <1>0, <1>8
  <2>2. \A x \in Cards \ {c} : Still(v, z, x) /\ SameDrops(v, z, x)
    BY <1>2, <1>7, <1>8, <2>1, <1>d DEF Still, SameDrops
  <2>3. Aware(z, c, r)
    BY <1>0, <1>7, <1>8, <2>1 DEF Sound, Aware
  <2>4. Seated(z, c, r)
    <3>1. ASSUME NEW j \in Board!Drops
          PROVE  /\ Matched(z.drop[j].before[c])
                 /\ z.drop[j].before[c].cols # {} => z.knew[c] > 0
      BY <1>0, <1>7, <1>8, <1>9, <2>1 DEF Sound, Seated
    <3> QED BY <1>8, <1>9, <3>1 DEF Seated
  <2>5. Expected(z, c, r)
    BY <1>0, <1>8 DEF Sound, Expected, Coming
  <2>6. Right(z, c, r)
    BY <1>7, <2>1 DEF Right, Under, c
  <2> QED BY <1>a, <1>8, <2>2, <2>3, <2>4, <2>5, <2>6, OneCardFine DEF Sound, r
<1>12. Dropped(v, e, k, Board!OverDrop) /\ Dropped(v, z, k, drop)
  BY <1>c, <1>8 DEF Dropped
<1>13. \E x \in Board!Drop : x.stage = stage /\ Dropped(v, z, k, x)
  BY <1>7, <1>12
<1> QED BY <1>b, <1>10, <1>11, <1>12, <1>13

\* The readings are read for a drop, or it is over for a reason.
ReadNow(v, k) ==
    [v EXCEPT !.drop[k] = [@ EXCEPT !.stage = "post", !.rd = cards[k[2]].rd],
              !.raced = @ \ {k}]

\* The readings of a card are held from now on.
Reads(v, w, k, x) ==
    /\ w.modal = v.modal /\ w.raced = v.raced \ {k} /\ w.batch = v.batch
    /\ w.drop = [v.drop EXCEPT ![k] = x] /\ x.rd = cards[k[2]].rd

LEMMA ReadForDropFine ==
    ASSUME RowsOK(cards), NEW v, Fine(v, cards), NEW k \in Board!Drops, v.drop[k].stage = "read"
    PROVE  LET e == Board!Excused(Board!DropOver(v, k), {k[2]})
               w == ReadNow(v, k)
           IN  /\ Fine(e, cards) /\ Dropped(v, e, k, Board!OverDrop)
               /\ Fine(w, cards) /\ \E x \in Board!Drop : Reads(v, w, k, x)
<1> DEFINE c == k[2]
           drop == [v.drop[k] EXCEPT !.stage = "post", !.rd = cards[c].rd]
           raced == v.raced \ {k}
           w == [v EXCEPT !.drop[k] = drop, !.raced = raced]
           o == Board!DropOver(v, k)
           e == Board!Excused(o, {c})
<1>a. c \in Cards
  BY DropPair
<1>0. v \in Board!View /\ v.drop \in [Board!Drops -> Board!Drop] /\ cards[c].rd \in Nat
  BY <1>a, ViewIs, RowIs DEF Fine, RowsOK
<1>1. o \in Board!View /\ o.drop = [v.drop EXCEPT ![k] = Board!OverDrop]
      /\ o.copy = v.copy /\ o.last = v.last /\ o.calls = v.calls
      /\ o.fetch = v.fetch /\ o.modal = v.modal /\ o.batch = v.batch
      /\ o.knew = v.knew /\ o.excuse = v.excuse /\ o.raced = v.raced
  BY <1>0, DropOverView
<1> HIDE DEF o
<1>2. e \in Board!View /\ e.drop = [v.drop EXCEPT ![k] = Board!OverDrop]
      /\ e.copy = v.copy /\ e.last = v.last /\ e.calls = v.calls
      /\ e.fetch = v.fetch /\ e.modal = v.modal /\ e.batch = v.batch
      /\ e.knew = v.knew /\ e.excuse = v.excuse \cup {c} /\ e.raced = v.raced
  BY <1>a, <1>1, ExcusedView
<1>3. /\ drop \in Board!Drop /\ drop.stage = "post" /\ drop.before = v.drop[k].before
      /\ drop.rd = cards[c].rd
  <2>1. v.drop[k] \in Board!Drop
    BY <1>0
  <2> QED BY <1>0, <2>1 DEF Board!Drop
<1>4. raced \subseteq Board!Holders \X Cards
  BY <1>0, ViewIs
<1> HIDE DEF drop, raced, e
<1>5. w \in Board!View /\ w.drop = [v.drop EXCEPT ![k] = drop] /\ w.raced = raced
      /\ w.copy = v.copy /\ w.last = v.last /\ w.calls = v.calls
      /\ w.fetch = v.fetch /\ w.modal = v.modal /\ w.batch = v.batch
      /\ w.knew = v.knew /\ w.excuse = v.excuse
  <2>1. [v.drop EXCEPT ![k] = drop] \in [Board!Drops -> Board!Drop]
    BY <1>0, <1>3
  <2> QED BY <1>0, <1>4, <2>1 DEF Board!View
<1> HIDE DEF w
<1>6. Fine(e, cards)
  <2>1. e.drop[k] = Board!OverDrop /\ \A j \in Board!Drops \ {k} : e.drop[j] = v.drop[j]
    BY <1>0, <1>2
  <2>2. \A x \in Cards : Still(v, e, x)
    BY <1>2, <2>1, NoDropIs DEF Still
  <2>3. \A j \in Board!Drops :
          \/ e.drop[j] = v.drop[j]
          \/ /\ e.drop[j].stage \in {"none", "over"}
             /\ j[2] \in e.excuse \/ v.drop[j].stage \notin {"read", "post"}
          \/ e.drop[j].stage = "post" /\ v.drop[j].stage = "read"
    BY <1>2, <2>1, NoDropIs
  <2> QED BY <1>2, <2>2, <2>3, StillFine
<1>7. Fine(w, cards)
  <2>1. w.drop[k] = drop /\ \A j \in Board!Drops \ {k} : w.drop[j] = v.drop[j]
    BY <1>0, <1>5
  <2>2. \A x \in Cards : Still(v, w, x)
    BY <1>3, <1>5, <2>1 DEF Still
  <2>3. \A j \in Board!Drops :
          \/ w.drop[j] = v.drop[j]
          \/ /\ w.drop[j].stage \in {"none", "over"}
             /\ j[2] \in w.excuse \/ v.drop[j].stage \notin {"read", "post"}
          \/ w.drop[j].stage = "post" /\ v.drop[j].stage = "read"
    BY <1>3, <2>1
  <2> QED BY <1>5, <2>2, <2>3, StillFine
<1>8. Dropped(v, e, k, Board!OverDrop) /\ Reads(v, w, k, drop)
  BY <1>2, <1>3, <1>5 DEF Dropped, Reads, raced
<1>9. \E x \in Board!Drop : Reads(v, w, k, x)
  BY <1>3, <1>8
<1> QED BY <1>6, <1>7, <1>8, <1>9 DEF ReadNow, e, o, w, drop, raced

\* After the move the card is asked for once more.
ToShow(v, k) == [v EXCEPT !.drop[k] = [@ EXCEPT !.stage = "show", !.got = Board!About(k[2])]]

LEMMA AnswerDropFine ==
    ASSUME RowsOK(cards), NEW v, Fine(v, cards), NEW k \in Board!Drops, v.drop[k].stage = "ask"
    PROVE  LET w == ToShow(v, k)
           IN  Fine(w, cards) /\ \E x \in Board!Drop : x.stage = "show" /\ Dropped(v, w, k, x)
<1> DEFINE c == k[2]
           drop == [v.drop[k] EXCEPT !.stage = "show", !.got = Board!About(c)]
           w == [v EXCEPT !.drop[k] = drop]
           r == cards[c]
<1>a. c \in Cards
  BY DropPair
<1>0. /\ v \in Board!View /\ v.drop \in [Board!Drops -> Board!Drop]
      /\ r \in Board!Row /\ RowOK(r) /\ Sound(v, c, r) /\ Right(v, c, r)
  BY <1>a, ViewIs DEF Fine, RowsOK
<1>1. Board!About(c) \in Board!Answer /\ TrueAnswer(Board!About(c), r)
  BY <1>a, <1>0, AboutTrue
<1>2. /\ drop \in Board!Drop /\ drop.stage = "show" /\ drop.before = v.drop[k].before
      /\ drop.got = Board!About(c)
  <2>1. v.drop[k] \in Board!Drop
    BY <1>0
  <2> QED BY <1>1, <2>1 DEF Board!Drop
<1> HIDE DEF drop, r
<1>3. w \in Board!View /\ w.drop = [v.drop EXCEPT ![k] = drop] /\ w.raced = v.raced /\ w.batch = v.batch
      /\ w.copy = v.copy /\ w.last = v.last /\ w.calls = v.calls
      /\ w.fetch = v.fetch /\ w.modal = v.modal
      /\ w.knew = v.knew /\ w.excuse = v.excuse
  BY <1>0, <1>2, DropSetView
<1> HIDE DEF w
<1>4. w.drop[k] = drop /\ \A j \in Board!Drops \ {k} : w.drop[j] = v.drop[j]
  BY <1>0, <1>3
<1>5. \A x \in Cards \ {c} : Still(v, w, x) /\ SameDrops(v, w, x)
  BY <1>2, <1>3, <1>4 DEF Still, SameDrops
<1>6. Aware(w, c, r)
  BY <1>0, <1>1, <1>2, <1>3, <1>4 DEF Sound, Aware
<1>7. Seated(w, c, r)
  BY <1>0, <1>2, <1>3, <1>4 DEF Sound, Seated
<1>8. Expected(w, c, r) /\ Right(w, c, r)
  <2>1. Under(v, c) => Under(w, c)
    BY <1>4 DEF Under
  <2> QED BY <1>0, <1>3, <2>1 DEF Sound, Expected, Right, Coming
<1>9. Fine(w, cards)
  BY <1>a, <1>3, <1>5, <1>6, <1>7, <1>8, OneCardFine DEF Sound, r
<1>10. \E x \in Board!Drop : x.stage = "show" /\ Dropped(v, w, k, x)
  BY <1>2, <1>3 DEF Dropped
<1> QED BY <1>9, <1>10 DEF ToShow, w, drop

LEMMA DropOverFine ==
    ASSUME RowsOK(cards), NEW v, Fine(v, cards), NEW k \in Board!Drops, v.drop[k].stage \notin {"read", "post"}
    PROVE  Fine(Board!DropOver(v, k), cards)
<1> DEFINE w == Board!DropOver(v, k)
<1>1. v \in Board!View /\ v.drop \in [Board!Drops -> Board!Drop]
  BY ViewIs DEF Fine
<1>2. /\ w \in Board!View /\ w.drop = [v.drop EXCEPT ![k] = Board!OverDrop]
      /\ w.copy = v.copy /\ w.last = v.last /\ w.calls = v.calls
      /\ w.fetch = v.fetch /\ w.knew = v.knew /\ w.excuse = v.excuse
  BY <1>1, DropOverView
<1> HIDE DEF w
<1>3. \A j \in Board!Drops : w.drop[j] = v.drop[j] \/ (j = k /\ w.drop[j] = Board!OverDrop)
  BY <1>1, <1>2
<1>4. \A x \in Cards : Still(v, w, x)
  BY <1>2, <1>3, NoDropIs DEF Still
<1>5. \A j \in Board!Drops :
        \/ w.drop[j] = v.drop[j]
        \/ /\ w.drop[j].stage \in {"none", "over"}
           /\ j[2] \in w.excuse \/ v.drop[j].stage \notin {"read", "post"}
        \/ w.drop[j].stage = "post" /\ v.drop[j].stage = "read"
  BY <1>3, NoDropIs
<1>6. Fine(w, cards)
  BY <1>2, <1>4, <1>5, StillFine
<1> QED BY <1>6 DEF w

\* The answer after the move is shown.
ShownDrop(v, k) ==
    LET c == k[2]
        a == v.drop[k].got
        w == Board!Seen(IF Board!Older(v, c, a) THEN Board!Excused(v, {c}) ELSE v, c, a)
    IN  Board!DropOver(Board!Replaced(w, c, a), k)

LEMMA ShowDropFine ==
    ASSUME RowsOK(cards), NEW v, Fine(v, cards), NEW k \in Board!Drops, v.drop[k].stage = "show",
           v.drop[k].got.st # "none"
    PROVE  LET z == ShownDrop(v, k)
           IN  Fine(z, cards) /\ Dropped(v, z, k, Board!OverDrop)
<1> DEFINE c == k[2]
           a == v.drop[k].got
           r == cards[c]
           more == {x \in {c} : Board!Older(v, c, a)}
           w == Board!Seen(IF more = {} THEN v ELSE Board!Excused(v, {c}), c, a)
           p == Board!Replaced(w, c, a)
           z == Board!DropOver(p, k)
<1>a. c \in Cards
  BY DropPair
<1>0. /\ v \in Board!View /\ v.drop \in [Board!Drops -> Board!Drop]
      /\ v.copy \in [Cards -> Board!Copy] /\ v.last \in [Cards -> Nat] /\ v.knew \in [Cards -> Nat]
      /\ r \in Board!Row /\ RowOK(r) /\ Sound(v, c, r) /\ a.st # "none"
  BY <1>a, ViewIs DEF Fine, RowsOK
<1>1. a \in Board!Answer /\ TrueAnswer(a, r)
  BY <1>0 DEF Board!Drop, Sound, Aware
<1>2. Board!Seen(IF Board!Older(v, c, a) THEN Board!Excused(v, {c}) ELSE v, c, a) = w
  <2>1. more = {} <=> ~Board!Older(v, c, a)
    OBVIOUS
  <2> HIDE DEF more, a
  <2>2. CASE more = {}
    BY <2>1, <2>2
  <2>3. CASE more # {}
    BY <2>1, <2>3
  <2> QED BY <2>2, <2>3
<1>3. more \in SUBSET {c} /\ (c \in more <=> a.ver < v.knew[c] \/ a.ver < r.mute)
  BY DEF Board!Older
<1> HIDE DEF a, r, more, c
<1>4. NotedFor(v, w, c, a, more)
  BY <1>a, <1>0, <1>1, <1>3, SeenCard
<1> HIDE DEF w
<1>5. /\ w \in Board!View
      /\ w.last = [v.last EXCEPT ![c] = a.ver]
      /\ w.knew = [v.knew EXCEPT ![c] = Board!Later(v.knew[c], a.ver)]
      /\ w.excuse = IF v.copy[c].cols # {} /\ a.st = r.st
                      THEN (v.excuse \cup more) \ {c} ELSE v.excuse \cup more
      /\ w.copy = v.copy /\ w.calls = v.calls /\ w.fetch = v.fetch /\ w.drop = v.drop
      /\ w.modal = v.modal /\ w.raced = v.raced /\ w.batch = v.batch
      /\ Board!Shown(w, c) <=> v.copy[c].cols # {}
  BY <1>4 DEF NotedFor, Board!Shown, r
<1>6. /\ p \in Board!View
      /\ p.copy = IF Board!Shown(w, c)
                    THEN [w.copy EXCEPT ![c] = [cols |-> w.copy[c].cols, st |-> a.st]]
                    ELSE w.copy
      /\ p.last = w.last /\ p.knew = w.knew /\ p.excuse = w.excuse /\ p.calls = w.calls
      /\ p.fetch = w.fetch /\ p.drop = w.drop /\ p.modal = w.modal /\ p.raced = w.raced
      /\ p.batch = w.batch
  BY <1>a, <1>0, <1>1, <1>5, ReplacedView
<1> HIDE DEF p
<1>7. /\ z \in Board!View /\ z.drop = [v.drop EXCEPT ![k] = Board!OverDrop]
      /\ z.copy = p.copy /\ z.last = w.last /\ z.knew = w.knew /\ z.excuse = w.excuse
      /\ z.calls = v.calls /\ z.fetch = v.fetch /\ z.modal = v.modal /\ z.raced = v.raced
      /\ z.batch = v.batch
  <2>1. p \in Board!View
    BY <1>6
  <2>2. /\ z \in Board!View /\ z.drop = [p.drop EXCEPT ![k] = Board!OverDrop]
        /\ z.copy = p.copy /\ z.last = p.last /\ z.knew = p.knew /\ z.excuse = p.excuse
        /\ z.calls = p.calls /\ z.fetch = p.fetch /\ z.modal = p.modal /\ z.raced = p.raced
        /\ z.batch = p.batch
    BY <2>1, DropOverView
  <2> HIDE DEF z
  <2> QED BY <1>5, <1>6, <2>2
<1> HIDE DEF z
<1>8. \A j \in Board!Drops : j[2] # c => j # k
  BY DEF c
<1>9. \A j \in Board!Drops :
        \/ z.drop[j] = v.drop[j]
        \/ j = k /\ z.drop[j].stage = "over" /\ z.drop[j].before = Board!Blank
  BY <1>0, <1>7, NoDropIs
<1>10. /\ \A x \in Cards \ {c} : z.copy[x] = v.copy[x]
       /\ \/ z.copy[c].st = a.st /\ z.copy[c].cols # {}
          \/ z.copy[c] = v.copy[c] /\ v.copy[c].cols = {}
  <2>1. CASE Board!Shown(w, c)
    BY <1>a, <1>0, <1>5, <1>6, <1>7, <2>1
  <2>2. CASE ~Board!Shown(w, c)
    BY <1>0, <1>5, <1>6, <1>7, <2>2
  <2> QED BY <2>1, <2>2
<1>11. \A x \in Cards \ {c} : Still(v, z, x) /\ SameDrops(v, z, x)
  <2>1. \A x \in Cards \ {c} : z.last[x] = v.last[x] /\ z.knew[x] = v.knew[x]
    BY <1>0, <1>5, <1>7
  <2>2. \A x \in Cards \ {c} : x \in v.excuse => x \in z.excuse
    BY <1>5, <1>7
  <2> QED BY <1>7, <1>8, <1>9, <1>10, <2>1, <2>2 DEF Still, SameDrops
<1>12. z.last[c] = a.ver /\ z.knew[c] = Board!Later(v.knew[c], a.ver)
  BY <1>a, <1>0, <1>5, <1>7
<1>13. r.ver > v.knew[c] /\ r.ver > r.mute /\ a.ver < r.ver => c \in v.excuse \/ Coming(z, c, r)
  BY <1>0, <1>7 DEF Sound, Expected, Coming
<1>14. \/ /\ z.copy[c].st = a.st /\ z.copy[c].cols # {}
          /\ (c \in v.excuse \/ a.ver < v.knew[c] \/ a.ver < r.mute) /\ a.st # r.st => c \in z.excuse
       \/ z.copy[c] = v.copy[c] /\ z.copy[c].cols = {} /\ c \in z.excuse
  <2>1. CASE z.copy[c].st = a.st /\ z.copy[c].cols # {}
    BY <1>3, <1>5, <1>7, <2>1
  <2>2. CASE z.copy[c] = v.copy[c] /\ v.copy[c].cols = {}
    <3>1. v.knew[c] > 0
      BY <1>0 DEF Sound, Seated, c
    <3>2. c \in v.excuse \/ r.st = "gone"
      BY <1>0, <2>2, <3>1 DEF Sound, Seated
    <3>3. r.st = "gone" => c \in more
      <4> SUFFICES ASSUME r.st = "gone"
                   PROVE  a.ver < r.mute
        BY <1>3
      <4>1. r.mute = r.ver /\ Face(r) = "none"
        BY <1>0, RowIs DEF RowOK
      <4>2. a.ver <= r.ver /\ a.ver # r.ver
        BY <1>0, <1>1, <4>1 DEF TrueAnswer
      <4> QED BY <1>0, <1>1, <4>1, <4>2, RowIs, AnswerIs
    <3> QED BY <1>5, <1>7, <2>2, <3>2, <3>3
  <2> QED BY <1>10, <2>1, <2>2
<1>15. Sound(z, c, r) /\ Right(z, c, r)
  <2>1. Aware(v, c, r) /\ Seated(v, c, r)
    BY <1>0 DEF Sound
  <2>2. /\ z.calls \subseteq v.calls /\ z.fetch = v.fetch
        /\ \A j \in Board!Drops :
             /\ z.drop[j] = v.drop[j] \/ z.drop[j].stage = "over"
             /\ z.drop[j].before = v.drop[j].before \/ z.drop[j].before = Board!Blank
    BY <1>7, <1>9
  <2> QED BY <1>a, <1>0, <1>1, <1>7, <1>12, <1>13, <1>14, <2>1, <2>2, UsedAnswer
<1>16. Fine(z, cards)
  BY <1>a, <1>7, <1>11, <1>15, OneCardFine DEF r
<1>17. Dropped(v, z, k, Board!OverDrop)
  BY <1>7 DEF Dropped
<1> QED BY <1>2, <1>16, <1>17 DEF ShownDrop, a, z, p, c

\* A batch has read the readings of a card.
ReadInBatch(v, c) ==
    [v EXCEPT !.batch = [todo |-> @.todo, card |-> c, rd |-> cards[c].rd],
              !.raced = @ \ {<<"batch", c>>}]

BatchReads(v, w, c) ==
    /\ w.modal = v.modal /\ w.drop = v.drop /\ w.raced = v.raced \ {<<"batch", c>>}
    /\ w.batch.card = c /\ w.batch.rd = cards[c].rd

LEMMA BatchReadFine ==
    ASSUME RowsOK(cards), NEW v, Fine(v, cards), NEW c \in Cards
    PROVE  LET w == ReadInBatch(v, c)
           IN  Fine(w, cards) /\ BatchReads(v, w, c)
<1> DEFINE b == [todo |-> v.batch.todo, card |-> c, rd |-> cards[c].rd]
           raced == v.raced \ {<<"batch", c>>}
           w == [v EXCEPT !.batch = b, !.raced = raced]
<1>0. v \in Board!View /\ v.batch \in Board!Batch /\ cards[c].rd \in Nat
  BY ViewIs, RowIs DEF Fine, RowsOK
<1>1. b \in Board!Batch /\ b.card = c /\ b.rd = cards[c].rd
  BY <1>0 DEF Board!Batch
<1>2. raced \subseteq Board!Holders \X Cards
  BY <1>0, ViewIs
<1> HIDE DEF b, raced
<1>3. w \in Board!View /\ w.batch = b /\ w.raced = raced
      /\ w.copy = v.copy /\ w.last = v.last /\ w.calls = v.calls
      /\ w.fetch = v.fetch /\ w.modal = v.modal /\ w.drop = v.drop
      /\ w.knew = v.knew /\ w.excuse = v.excuse
  BY <1>0, <1>1, <1>2 DEF Board!View
<1> HIDE DEF w
<1>4. Fine(w, cards)
  BY <1>3, OtherFine
<1>5. BatchReads(v, w, c)
  BY <1>1, <1>3 DEF BatchReads, raced
<1> QED BY <1>4, <1>5 DEF ReadInBatch, w, b, raced

\* Readings that are held to be posted are those of the server, or the desk is
\* marked: another one saved since.
Fed(v, c, r) ==
    r.st \notin {"DONE", "gone"} =>
      /\ v.modal.open /\ v.modal.card = c => v.modal.rd = r.rd \/ <<"modal", c>> \in v.raced
      /\ v.batch.card = c /\ c \in Tests => v.batch.rd = r.rd \/ <<"batch", c>> \in v.raced
      /\ \A k \in Board!Drops : k[2] = c /\ v.drop[k].stage = "post" /\ c \in Tests
           => v.drop[k].rd = r.rd \/ k \in v.raced

AllFed(v, table) ==
    /\ v.modal.open => v.modal.card \in Cards
    /\ \A x \in Cards : Fed(v, x, table[x])

Fit(v, table) == Fine(v, table) /\ AllFed(v, table)

DeskInv ==
    /\ RowsOK(cards)
    /\ desk \in [Desks -> Board!View]
    /\ \A e \in Desks : Fit(desk[e], cards)
    /\ acts \in Nat

LEMMA SetIs ==
    ASSUME NEW d \in Desks, desk \in [Desks -> Board!View], NEW w
    PROVE  /\ Board!Set(d, w)[d] = w
           /\ \A e \in Desks \ {d} : Board!Set(d, w)[e] = desk[e]
           /\ w \in Board!View => Board!Set(d, w) \in [Desks -> Board!View]
BY DEF Board!Set

\* Handlers that end, that hold no readings yet, or not of a test.
LEMMA StillFed ==
    ASSUME NEW v, NEW w, NEW table, AllFed(v, table),
           w.modal = v.modal \/ ~w.modal.open, w.raced = v.raced,
           w.batch = v.batch \/ w.batch.card = None,
           \A k \in Board!Drops : \/ w.drop[k] = v.drop[k]
                                  \/ w.drop[k].stage # "post"
                                  \/ k[2] \notin Tests
    PROVE  AllFed(w, table)
<1>1. None \notin Cards
  BY BoardAssumption DEF Board!DeskAssumption
<1> QED BY <1>1 DEF AllFed, Fed

LEMMA OwnStep ==
    ASSUME DeskInv, NEW d \in Desks, NEW w, Fit(w, cards), desk' = Board!Set(d, w),
           UNCHANGED cards, acts' \in Nat
    PROVE  DeskInv'
<1>1. w \in Board!View
  BY DEF Fit, Fine
<1>2. /\ desk' \in [Desks -> Board!View] /\ desk'[d] = w
      /\ \A e \in Desks \ {d} : desk'[e] = desk[e]
  BY <1>1, SetIs DEF DeskInv
<1>3. \A e \in Desks : Fit(desk'[e], cards)
  BY <1>2 DEF DeskInv
<1> QED BY <1>2, <1>3 DEF DeskInv

\* A step of the server that keeps the readings of the card, or ends it.
LEMMA ServerStep ==
    ASSUME DeskInv, NEW c \in Cards, NEW vs, Done(vs, c),
           \A e \in Desks : AllFed(vs[e], cards),
           cards[c].st \notin {"DONE", "gone"},
           cards'[c].rd = cards[c].rd \/ cards'[c].st \in {"DONE", "gone"}, acts' \in Nat
    PROVE  DeskInv'
<1>1. ASSUME NEW e \in Desks
      PROVE  AllFed(desk'[e], cards')
  <2>1. /\ desk'[e].modal = vs[e].modal /\ desk'[e].raced = vs[e].raced /\ desk'[e].drop = vs[e].drop
        /\ desk'[e].batch = vs[e].batch
        /\ AllFed(vs[e], cards)
    BY DEF Done
  <2>2. \A x \in Cards : Fed(desk'[e], x, cards'[x])
    <3>1. \A x \in Cards \ {c} : cards'[x] = cards[x]
      BY DEF Done
    <3>2. ASSUME NEW x \in Cards
          PROVE  Fed(desk'[e], x, cards'[x])
      <4>1. CASE x = c
        BY <2>1, <4>1 DEF AllFed, Fed
      <4>2. CASE x # c
        BY <2>1, <3>1, <4>2 DEF AllFed, Fed
      <4> QED BY <4>1, <4>2
    <3> QED BY <3>2
  <2> QED BY <2>1, <2>2 DEF AllFed
<1> QED BY <1>1 DEF Done, DeskInv, Fit

FedBut(v, table, c) ==
    /\ v.modal.open => v.modal.card \in Cards
    /\ \A x \in Cards \ {c} : Fed(v, x, table[x])

\* A draft: whoever else holds readings of the card is marked.
LEMMA DraftStep ==
    ASSUME DeskInv, NEW c \in Cards, NEW vs, NEW d \in Desks \cup {None}, NEW rd \in Nat,
           \A e \in Desks : vs[e] \in Board!View /\ FedBut(vs[e], cards, c),
           Done(Board!Raced(vs, d, c), c), cards'[c].rd = rd,
           d \in Desks => ~vs[d].modal.open \/ vs[d].modal.rd = rd, None \notin Desks, acts' \in Nat
    PROVE  DeskInv'
<1> DEFINE ws == Board!Raced(vs, d, c)
<1>1. ASSUME NEW e \in Desks
      PROVE  AllFed(desk'[e], cards')
  <2> DEFINE w == desk'[e]
             v == vs[e]
  <2>1. w.modal = ws[e].modal /\ w.raced = ws[e].raced /\ w.drop = ws[e].drop /\ w.batch = ws[e].batch
    BY DEF Done
  <2>2. v \in Board!View
    OBVIOUS
  <2>3. Marked(v, Board!Raced(vs, d, c)[e], c, e = d)
    BY <2>2, RacedView
  <2> HIDE DEF ws, w
  <2>4. /\ w.modal = v.modal /\ v.raced \subseteq w.raced /\ w.drop = v.drop /\ w.batch = v.batch
        /\ e # d /\ v.modal.open /\ v.modal.card = c => <<"modal", c>> \in w.raced
        /\ v.batch.card = c => <<"batch", c>> \in w.raced
        /\ \A k \in Board!Drops : k[2] = c /\ v.drop[k].stage = "post" => k \in w.raced
    BY <2>1, <2>3 DEF Marked, ws
  <2>5. FedBut(v, cards, c)
    OBVIOUS
  <2>6. \A x \in Cards \ {c} : cards'[x] = cards[x]
    BY DEF Done
  <2>7. ASSUME NEW x \in Cards, x # c
        PROVE  Fed(w, x, cards'[x])
    BY <2>4, <2>5, <2>6, <2>7 DEF FedBut, Fed
  <2>8. Fed(w, c, cards'[c])
    <3>1. e = d => ~v.modal.open \/ v.modal.rd = rd
      OBVIOUS
    <3> QED BY <2>4, <3>1 DEF Fed
  <2>9. AllFed(w, cards')
    BY <2>4, <2>5, <2>7, <2>8 DEF AllFed, FedBut
  <2> QED BY <2>9 DEF w
<1> QED BY <1>1 DEF Done, DeskInv, Fit

LEMMA DeskFit ==
    ASSUME DeskInv, NEW d \in Desks
    PROVE  /\ RowsOK(cards) /\ Fine(desk[d], cards) /\ AllFed(desk[d], cards)
           /\ desk[d] \in Board!View /\ acts \in Nat
BY DEF DeskInv, Fit, Fine

LEMMA LoadStep ==
    ASSUME DeskInv, NEW d \in Desks, Board!Load(d)
    PROVE  DeskInv'
<1> DEFINE v == desk[d]
           w == Board!Refetch(v)
<1>1. /\ RowsOK(cards) /\ Fine(v, cards) /\ AllFed(v, cards) /\ v \in Board!View
      /\ desk' = Board!Set(d, w) /\ cards' = cards /\ acts' \in Nat
  BY DeskFit DEF Board!Load, Board!Act
<1>2. Fine(w, cards) /\ w.modal = v.modal /\ w.raced = v.raced /\ w.drop = v.drop /\ w.batch = v.batch
  BY <1>1, RefetchFine, RefetchView
<1> HIDE DEF v, w
<1>3. AllFed(w, cards)
  BY <1>1, <1>2, StillFed
<1> QED BY <1>1, <1>2, <1>3, OwnStep DEF Fit

LEMMA AnswerBoardStep ==
    ASSUME DeskInv, NEW d \in Desks, Board!AnswerBoard(d)
    PROVE  DeskInv'
<1> DEFINE v == desk[d]
           f == [stage |-> "answered", got |-> [c \in Cards |-> Board!About(c)]]
           w == [v EXCEPT !.fetch = f]
<1>1. /\ RowsOK(cards) /\ Fine(v, cards) /\ AllFed(v, cards) /\ v \in Board!View
      /\ desk' = Board!Set(d, w) /\ cards' = cards /\ acts' \in Nat
  BY DeskFit DEF Board!AnswerBoard
<1>2. Fine(w, cards)
  BY <1>1, AnswerBoardFine
<1> HIDE DEF v, f
<1>3. w.modal = v.modal /\ w.raced = v.raced /\ w.drop = v.drop /\ w.batch = v.batch
  BY <1>1 DEF Board!View
<1> HIDE DEF w
<1>4. AllFed(w, cards)
  BY <1>1, <1>3, StillFed
<1> QED BY <1>1, <1>2, <1>4, OwnStep DEF Fit

LEMMA ShowBoardStep ==
    ASSUME DeskInv, NEW d \in Desks, Board!ShowBoard(d)
    PROVE  DeskInv'
<1> DEFINE v == desk[d]
           w == ShownBoard(v)
<1>1. /\ RowsOK(cards) /\ Fine(v, cards) /\ AllFed(v, cards) /\ v \in Board!View
      /\ v.fetch.stage = "answered" /\ cards' = cards /\ acts' \in Nat
  BY DeskFit DEF Board!ShowBoard
<1>2. desk' = Board!Set(d, w)
  BY DEF Board!ShowBoard, ShownBoard
<1> HIDE DEF v
<1>3. Fine(w, cards)
  BY <1>1, ShowBoardFine
<1>4. w.modal = v.modal /\ w.raced = v.raced /\ w.drop = v.drop /\ w.batch = v.batch
  BY <1>1 DEF Board!View, ShownBoard
<1> HIDE DEF w
<1>5. AllFed(w, cards)
  BY <1>1, <1>4, StillFed
<1> QED BY <1>1, <1>2, <1>3, <1>5, OwnStep DEF Fit

LEMMA ConnectionStep ==
    ASSUME DeskInv, NEW d \in Desks, Board!Disconnect(d) \/ Board!Reconnect(d)
    PROVE  DeskInv'
<1> DEFINE v == desk[d]
<1>1. /\ RowsOK(cards) /\ Fine(v, cards) /\ AllFed(v, cards) /\ v \in Board!View
      /\ cards' = cards /\ acts' \in Nat
  BY DeskFit DEF Board!Disconnect, Board!Reconnect, Board!Act
<1>2. PICK b \in BOOLEAN : desk' = Board!Set(d, [v EXCEPT !.on = b])
  BY DEF Board!Disconnect, Board!Reconnect
<1> DEFINE w == [v EXCEPT !.on = b]
<1> HIDE DEF v
<1>3. /\ w \in Board!View /\ w.modal = v.modal /\ w.raced = v.raced /\ w.drop = v.drop /\ w.batch = v.batch
      /\ w.copy = v.copy /\ w.last = v.last /\ w.calls = v.calls /\ w.fetch = v.fetch
      /\ w.knew = v.knew /\ w.excuse = v.excuse
  BY <1>1 DEF Board!View
<1>4. desk' = Board!Set(d, w)
  BY <1>2
<1> HIDE DEF w
<1>5. Fine(w, cards) /\ AllFed(w, cards)
  BY <1>1, <1>3, OtherFine, StillFed
<1> QED BY <1>1, <1>4, <1>5, OwnStep DEF Fit

LEMMA HearStep ==
    ASSUME DeskInv, NEW d \in Desks, NEW n \in desk[d].calls, Board!Hear(d, n)
    PROVE  DeskInv'
<1> DEFINE v == desk[d]
           u == Without(v, n)
           i == Board!Ignored(u, n.card)
           h == Asking(v, n)
<1>1. /\ RowsOK(cards) /\ Fine(v, cards) /\ AllFed(v, cards) /\ v \in Board!View
      /\ cards' = cards /\ acts' \in Nat /\ n.stage = "told" /\ n \in v.calls
  BY DeskFit DEF Board!Hear
<1>2. desk' = Board!Set(d, i) \/ desk' = Board!Set(d, h)
  BY DEF Board!Hear, Without, Asking
<1> HIDE DEF v
<1>3. Fine(i, cards) /\ Fine(h, cards)
  BY <1>1, HearFine
<1>4. u \in Board!View /\ u.modal = v.modal /\ u.raced = v.raced /\ u.drop = v.drop /\ u.batch = v.batch
  BY <1>1 DEF Board!View, Without
<1>5. i.modal = u.modal /\ i.raced = u.raced /\ i.drop = u.drop /\ i.batch = u.batch
  <2>1. v.calls \subseteq Board!Call
    BY <1>1, ViewIs
  <2>2. n.card \in Cards
    BY <1>1, <2>1 DEF Board!Call
  <2>3. cards[n.card].ver \in Nat
    BY <1>1, <2>2, RowIs DEF RowsOK
  <2> HIDE DEF u
  <2> QED BY <1>4, <2>2, <2>3, IgnoredView
<1>6. h.modal = u.modal /\ h.raced = u.raced /\ h.drop = u.drop /\ h.batch = u.batch
  <2> DEFINE m == [n EXCEPT !.stage = "asked",
                            !.prev = IF n.kind = "updated" THEN u.last[n.card] ELSE 0]
  <2>1. h = [u EXCEPT !.calls = @ \cup {m}]
    BY DEF Asking
  <2> HIDE DEF u, m, h
  <2> QED BY <1>4, <2>1 DEF Board!View
<1> HIDE DEF i, h, u
<1>7. AllFed(i, cards) /\ AllFed(h, cards)
  <2>1. i.modal = v.modal /\ i.raced = v.raced /\ i.drop = v.drop /\ i.batch = v.batch
    BY <1>4, <1>5
  <2>2. h.modal = v.modal /\ h.raced = v.raced /\ h.drop = v.drop /\ h.batch = v.batch
    BY <1>4, <1>6
  <2> QED BY <1>1, <2>1, <2>2, StillFed
<1> QED BY <1>1, <1>2, <1>3, <1>7, OwnStep DEF Fit

LEMMA AnswerCallStep ==
    ASSUME DeskInv, NEW d \in Desks, NEW n \in desk[d].calls, Board!AnswerCall(d, n)
    PROVE  DeskInv'
<1> DEFINE v == desk[d]
<1>1. /\ RowsOK(cards) /\ Fine(v, cards) /\ AllFed(v, cards) /\ v \in Board!View
      /\ cards' = cards /\ n.stage = "asked" /\ acts \in Nat /\ n \in v.calls
  BY DeskFit DEF Board!AnswerCall
<1>2. PICK a \in {Board!About(n.card), Board!NoAnswer} :
        (acts' = acts \/ Board!Act) /\ desk' = Board!Set(d, AnsweredCall(v, n, a))
  BY DEF Board!AnswerCall, AnsweredCall
<1> DEFINE w == AnsweredCall(v, n, a)
<1>3. acts' \in Nat
  BY <1>1, <1>2 DEF Board!Act
<1> HIDE DEF v
<1>4. Fine(w, cards)
  BY <1>1, AnswerCallFine
<1>5. w.modal = v.modal /\ w.raced = v.raced /\ w.drop = v.drop /\ w.batch = v.batch
  <2> DEFINE N == (v.calls \ {n}) \cup {[n EXCEPT !.stage = "answered", !.got = a]}
  <2>1. w = [v EXCEPT !.calls = N]
    BY DEF AnsweredCall
  <2> HIDE DEF N, w
  <2> QED BY <1>1, <2>1 DEF Board!View
<1>6. desk' = Board!Set(d, w)
  BY <1>2
<1> HIDE DEF w
<1>7. AllFed(w, cards)
  BY <1>1, <1>5, StillFed
<1> QED BY <1>1, <1>3, <1>4, <1>6, <1>7, OwnStep DEF Fit

LEMMA HeedStep ==
    ASSUME DeskInv, NEW d \in Desks, NEW n \in desk[d].calls, Board!Heed(d, n)
    PROVE  DeskInv'
<1> DEFINE v == desk[d]
           u == Without(v, n)
           e == Board!Excused(u, {n.card})
           p == Board!Prepended(Heeding(v, n), n.card, n.got)
           q == Board!Replaced(Heeding(v, n), n.card, n.got)
<1>1. /\ RowsOK(cards) /\ Fine(v, cards) /\ AllFed(v, cards) /\ v \in Board!View
      /\ cards' = cards /\ n.stage = "answered" /\ acts' \in Nat /\ n \in v.calls
  BY DeskFit DEF Board!Heed
<1>2. \/ n.got.st = "none" /\ desk' = Board!Set(d, e)
      \/ n.got.st # "none" /\ Board!Stale(u, n) /\ desk' = Board!Set(d, u)
      \/ n.got.st # "none" /\ n.kind = "added" /\ desk' = Board!Set(d, p)
      \/ n.got.st # "none" /\ n.kind # "added" /\ desk' = Board!Set(d, q)
  BY DEF Board!Heed, Without, Heeding
<1> HIDE DEF v
<1>3. /\ n.got.st = "none" => Fine(e, cards) /\ Holds(v, e)
      /\ n.got.st # "none" /\ Board!Stale(u, n) => Fine(u, cards) /\ Holds(v, u)
      /\ n.got.st # "none" /\ n.kind = "added" => Fine(p, cards) /\ Holds(v, p)
      /\ n.got.st # "none" /\ n.kind # "added" => Fine(q, cards) /\ Holds(v, q)
  BY <1>1, HeedFine
<1> HIDE DEF u, e, p, q
<1>4. PICK w \in {e, u, p, q} : desk' = Board!Set(d, w) /\ Fine(w, cards) /\ Holds(v, w)
  BY <1>2, <1>3
<1>5. AllFed(w, cards)
  BY <1>1, <1>4, StillFed DEF Holds
<1> QED BY <1>1, <1>4, <1>5, OwnStep DEF Fit

LEMMA DropsFed ==
    ASSUME NEW v \in Board!View, NEW w, NEW k \in Board!Drops, NEW x, AllFed(v, cards),
           Dropped(v, w, k, x), x.stage # "post" \/ k[2] \notin Tests
    PROVE  AllFed(w, cards)
<1>1. w.drop = [v.drop EXCEPT ![k] = x] /\ v.drop \in [Board!Drops -> Board!Drop]
  BY ViewIs DEF Dropped
<1>2. w.drop[k] = x /\ \A j \in Board!Drops \ {k} : w.drop[j] = v.drop[j]
  BY <1>1
<1>3. \A j \in Board!Drops : \/ w.drop[j] = v.drop[j]
                             \/ w.drop[j].stage # "post"
                             \/ j[2] \notin Tests
  BY <1>2
<1>4. w.modal = v.modal /\ w.raced = v.raced /\ w.batch = v.batch
  BY DEF Dropped
<1> QED BY <1>3, <1>4, StillFed

LEMMA ReadsFed ==
    ASSUME NEW v \in Board!View, NEW w, NEW k \in Board!Drops, NEW x, AllFed(v, cards), Reads(v, w, k, x)
    PROVE  AllFed(w, cards)
<1>1. w.drop = [v.drop EXCEPT ![k] = x] /\ v.drop \in [Board!Drops -> Board!Drop]
  BY ViewIs DEF Reads
<1>2. w.drop[k] = x /\ \A j \in Board!Drops \ {k} : w.drop[j] = v.drop[j]
  BY <1>1
<1>3. /\ \A y \in Cards : <<"modal", y>> # k /\ <<"batch", y>> # k
      /\ w.raced = v.raced \ {k}
      /\ w.modal = v.modal /\ w.batch = v.batch /\ x.rd = cards[k[2]].rd
  <2>1. k[1] # "modal" /\ k[1] # "batch" /\ k = <<k[1], k[2]>>
    BY DropPair
  <2> QED BY <2>1 DEF Reads
<1>4. ASSUME NEW y \in Cards
      PROVE  Fed(w, y, cards[y])
  <2>1. Fed(v, y, cards[y])
    BY DEF AllFed
  <2>2. ASSUME NEW j \in Board!Drops, j[2] = y, w.drop[j].stage = "post", y \in Tests,
               cards[y].st \notin {"DONE", "gone"}
        PROVE  w.drop[j].rd = cards[y].rd \/ j \in w.raced
    <3>1. CASE j = k
      BY <1>2, <1>3, <2>2, <3>1
    <3>2. CASE j # k
      BY <1>2, <1>3, <2>1, <2>2, <3>2 DEF Fed
    <3> QED BY <3>1, <3>2
  <2> QED BY <1>3, <2>1, <2>2 DEF Fed
<1> QED BY <1>3, <1>4 DEF AllFed

LEMMA BatchReadsFed ==
    ASSUME NEW v \in Board!View, NEW w, NEW c \in Cards, AllFed(v, cards), BatchReads(v, w, c)
    PROVE  AllFed(w, cards)
<1>1. /\ \A y \in Cards : <<"modal", y>> # <<"batch", c>>
      /\ \A k \in Board!Drops : k # <<"batch", c>>
  BY DropPair
<1>2. ASSUME NEW y \in Cards
      PROVE  Fed(w, y, cards[y])
  <2>1. Fed(v, y, cards[y])
    BY DEF AllFed
  <2> QED BY <1>1, <2>1 DEF Fed, BatchReads
<1> QED BY <1>2 DEF AllFed, BatchReads

LEMMA DropCardStep ==
    ASSUME DeskInv, NEW d \in Desks, NEW k \in Board!Drops, NEW to \in Board!Columns, Board!DropCard(d, k, to)
    PROVE  DeskInv'
<1> DEFINE v == desk[d]
           stage == IF k[2] \in Tests THEN "read" ELSE "post"
           e == LeftDropped(v, k, to)
           z == Dragging(v, k, to, stage)
<1>1. /\ RowsOK(cards) /\ Fine(v, cards) /\ AllFed(v, cards) /\ v \in Board!View
      /\ cards' = cards /\ acts' \in Nat /\ Board!Shown(v, k[2])
  BY DeskFit DEF Board!DropCard, Board!Act
<1>2. desk' = Board!Set(d, e) \/ desk' = Board!Set(d, z)
  BY DEF Board!DropCard, Dragged, Dragging, LeftDropped
<1>3. stage \in {"read", "post"} /\ (stage = "post" => k[2] \notin Tests)
  OBVIOUS
<1> HIDE DEF v, stage
<1>4. /\ Fine(e, cards) /\ Dropped(v, e, k, Board!OverDrop)
      /\ Fine(z, cards) /\ \E x \in Board!Drop : x.stage = stage /\ Dropped(v, z, k, x)
  BY <1>1, <1>3, DropCardFine
<1> HIDE DEF e, z
<1>5. AllFed(e, cards)
  BY <1>1, <1>4, NoDropIs, DropsFed
<1>6. AllFed(z, cards)
  BY <1>1, <1>3, <1>4, DropsFed
<1> QED BY <1>1, <1>2, <1>4, <1>5, <1>6, OwnStep DEF Fit

LEMMA PutBackFit ==
    ASSUME RowsOK(cards), NEW v, Fit(v, cards), NEW k \in Board!Drops
    PROVE  Fit(Board!PutBack(v, k), cards)
<1> DEFINE w == Board!PutBack(v, k)
<1>1. Fine(v, cards) /\ AllFed(v, cards) /\ v \in Board!View
  BY DEF Fit, Fine
<1>2. Fine(w, cards)
  BY <1>1, PutBackFine
<1>3. Dropped(v, w, k, Board!OverDrop)
  BY <1>1, PutBackView DEF Dropped
<1>4. AllFed(w, cards)
  BY <1>1, <1>3, NoDropIs, DropsFed
<1> QED BY <1>2, <1>4 DEF Fit

LEMMA ReadForDropStep ==
    ASSUME DeskInv, NEW d \in Desks, NEW k \in Board!Drops, Board!ReadForDrop(d, k)
    PROVE  DeskInv'
<1> DEFINE v == desk[d]
           p == Board!PutBack(v, k)
           e == Board!Excused(Board!DropOver(v, k), {k[2]})
           w == ReadNow(v, k)
<1>1. /\ RowsOK(cards) /\ Fine(v, cards) /\ AllFed(v, cards) /\ v \in Board!View
      /\ cards' = cards /\ acts' \in Nat /\ v.drop[k].stage = "read"
  BY DeskFit DEF Board!ReadForDrop
<1>2. desk' = Board!Set(d, p) \/ desk' = Board!Set(d, e) \/ desk' = Board!Set(d, w)
  BY DEF Board!ReadForDrop, ReadNow
<1> HIDE DEF v
<1>3. Fit(p, cards)
  BY <1>1, PutBackFit DEF Fit
<1>4. /\ Fine(e, cards) /\ Dropped(v, e, k, Board!OverDrop)
      /\ Fine(w, cards) /\ \E x \in Board!Drop : Reads(v, w, k, x)
  BY <1>1, ReadForDropFine
<1> HIDE DEF p, e, w
<1>5. AllFed(e, cards)
  BY <1>1, <1>4, NoDropIs, DropsFed
<1>6. AllFed(w, cards)
  BY <1>1, <1>4, ReadsFed
<1> QED BY <1>1, <1>2, <1>3, <1>4, <1>5, <1>6, OwnStep DEF Fit

LEMMA AnswerDropStep ==
    ASSUME DeskInv, NEW d \in Desks, NEW k \in Board!Drops, Board!AnswerDrop(d, k)
    PROVE  DeskInv'
<1> DEFINE v == desk[d]
           w == ToShow(v, k)
<1>1. /\ RowsOK(cards) /\ Fine(v, cards) /\ AllFed(v, cards) /\ v \in Board!View
      /\ cards' = cards /\ acts' \in Nat /\ v.drop[k].stage = "ask"
  BY DeskFit DEF Board!AnswerDrop
<1>2. desk' = Board!Set(d, w)
  BY DEF Board!AnswerDrop, ToShow
<1> HIDE DEF v
<1>3. Fine(w, cards) /\ \E x \in Board!Drop : x.stage = "show" /\ Dropped(v, w, k, x)
  BY <1>1, AnswerDropFine
<1> HIDE DEF w
<1>4. AllFed(w, cards)
  BY <1>1, <1>3, DropsFed
<1> QED BY <1>1, <1>2, <1>3, <1>4, OwnStep DEF Fit

LEMMA ShowDropStep ==
    ASSUME DeskInv, NEW d \in Desks, NEW k \in Board!Drops, Board!ShowDrop(d, k)
    PROVE  DeskInv'
<1> DEFINE v == desk[d]
           o == Board!DropOver(v, k)
           w == ShownDrop(v, k)
<1>1. /\ RowsOK(cards) /\ Fine(v, cards) /\ AllFed(v, cards) /\ v \in Board!View
      /\ cards' = cards /\ acts' \in Nat /\ v.drop[k].stage = "show"
  BY DeskFit DEF Board!ShowDrop
<1>2. desk' = Board!Set(d, o) \/ (v.drop[k].got.st # "none" /\ desk' = Board!Set(d, w))
  BY DEF Board!ShowDrop, ShownDrop
<1> HIDE DEF v
<1>3. Fine(o, cards) /\ Dropped(v, o, k, Board!OverDrop)
  BY <1>1, DropOverFine, DropOverView DEF Dropped
<1>4. v.drop[k].got.st # "none" => Fine(w, cards) /\ Dropped(v, w, k, Board!OverDrop)
  BY <1>1, ShowDropFine
<1> HIDE DEF o, w
<1>5. PICK z \in {o, w} : desk' = Board!Set(d, z) /\ Fine(z, cards) /\ Dropped(v, z, k, Board!OverDrop)
  BY <1>2, <1>3, <1>4
<1>6. AllFed(z, cards)
  BY <1>1, <1>5, NoDropIs, DropsFed
<1> QED BY <1>1, <1>5, <1>6, OwnStep DEF Fit

LEMMA BatchReadStep ==
    ASSUME DeskInv, NEW d \in Desks, NEW c \in Cards, Board!BatchRead(d, c)
    PROVE  DeskInv'
<1> DEFINE v == desk[d]
           o == Board!BatchedOne(v, c)
           w == ReadInBatch(v, c)
<1>1. /\ RowsOK(cards) /\ Fine(v, cards) /\ AllFed(v, cards) /\ v \in Board!View
      /\ cards' = cards /\ acts' \in Nat
  BY DeskFit DEF Board!BatchRead
<1>2. desk' = Board!Set(d, o) \/ desk' = Board!Set(d, w)
  BY DEF Board!BatchRead, ReadInBatch
<1> HIDE DEF v
<1>3. Fine(o, cards) /\ o.modal = v.modal /\ o.raced = v.raced /\ o.drop = v.drop /\ o.batch.card = None
  BY <1>1, BatchedOneFine, BatchedOneView
<1>4. Fine(w, cards) /\ BatchReads(v, w, c)
  BY <1>1, BatchReadFine
<1> HIDE DEF o, w
<1>5. AllFed(o, cards) /\ AllFed(w, cards)
  BY <1>1, <1>3, <1>4, StillFed, BatchReadsFed
<1> QED BY <1>1, <1>2, <1>3, <1>4, <1>5, OwnStep DEF Fit

LEMMA ReleaseStep ==
    ASSUME DeskInv, NEW d \in Desks, NEW k \in Board!Drops, Board!Release(d, k)
    PROVE  DeskInv'
<1> DEFINE v == desk[d]
           p == v.pend \ {k[2]}
           u == [v EXCEPT !.drop[k] = Board!NoDrop]
           w == [u EXCEPT !.pend = p]
<1>1. /\ RowsOK(cards) /\ Fine(v, cards) /\ AllFed(v, cards) /\ v \in Board!View
      /\ v.drop[k].stage = "over" /\ cards' = cards /\ acts' \in Nat
      /\ desk' = Board!Set(d, [v EXCEPT !.pend = @ \ {k[2]}, !.drop[k] = Board!NoDrop])
  BY DeskFit DEF Board!Release
<1> HIDE DEF v
<1>2. p \in SUBSET Cards
  BY <1>1, ViewIs
<1>3. desk' = Board!Set(d, w)
  BY <1>1 DEF Board!View
<1> HIDE DEF p
<1>4. /\ u \in Board!View /\ u.modal = v.modal /\ u.raced = v.raced /\ u.batch = v.batch
      /\ u.drop = [v.drop EXCEPT ![k] = Board!NoDrop]
      /\ u.copy = v.copy /\ u.last = v.last /\ u.calls = v.calls /\ u.fetch = v.fetch
      /\ u.knew = v.knew /\ u.excuse = v.excuse
  BY <1>1, NoDropIs, DropSetView
<1> HIDE DEF u
<1>5. /\ w \in Board!View /\ Dropped(v, w, k, Board!NoDrop)
      /\ w.drop = u.drop
      /\ w.copy = v.copy /\ w.last = v.last /\ w.calls = v.calls /\ w.fetch = v.fetch
      /\ w.knew = v.knew /\ w.excuse = v.excuse
  BY <1>2, <1>4 DEF Board!View, Dropped
<1> HIDE DEF w
<1>6. \A j \in Board!Drops : w.drop[j] = v.drop[j] \/ (j = k /\ w.drop[j] = Board!NoDrop)
  <2>1. v.drop \in [Board!Drops -> Board!Drop]
    BY <1>1, ViewIs
  <2> QED BY <1>4, <1>5, <2>1
<1>7. \A x \in Cards : Still(v, w, x)
  BY <1>5, <1>6, NoDropIs DEF Still
<1>8. \A j \in Board!Drops :
        \/ w.drop[j] = v.drop[j]
        \/ /\ w.drop[j].stage \in {"none", "over"}
           /\ j[2] \in w.excuse \/ v.drop[j].stage \notin {"read", "post"}
        \/ w.drop[j].stage = "post" /\ v.drop[j].stage = "read"
  BY <1>1, <1>6, NoDropIs
<1>9. Fine(w, cards)
  BY <1>1, <1>5, <1>7, <1>8, StillFine
<1>10. AllFed(w, cards)
  BY <1>1, <1>5, NoDropIs, DropsFed
<1> QED BY <1>1, <1>3, <1>9, <1>10, OwnStep DEF Fit

LEMMA StartBatchStep ==
    ASSUME DeskInv, NEW d \in Desks, Board!StartBatch(d)
    PROVE  DeskInv'
<1> DEFINE v == desk[d]
<1>1. /\ RowsOK(cards) /\ Fine(v, cards) /\ AllFed(v, cards) /\ v \in Board!View
      /\ cards' = cards /\ acts' \in Nat
  BY DeskFit DEF Board!StartBatch, Board!Act
<1>2. PICK B \in SUBSET Cards : desk' = Board!Set(d, [v EXCEPT !.batch = [Board!NoBatch EXCEPT !.todo = B]])
  BY DEF Board!StartBatch
<1> DEFINE b == [Board!NoBatch EXCEPT !.todo = B]
           w == [v EXCEPT !.batch = b]
<1> HIDE DEF v
<1>3. b \in Board!Batch /\ b.card = None
  BY NoBatchIs DEF Board!Batch
<1>4. desk' = Board!Set(d, w)
  BY <1>2
<1> HIDE DEF b
<1>5. /\ w \in Board!View /\ w.modal = v.modal /\ w.raced = v.raced /\ w.drop = v.drop /\ w.batch = b
      /\ w.copy = v.copy /\ w.last = v.last /\ w.calls = v.calls /\ w.fetch = v.fetch
      /\ w.knew = v.knew /\ w.excuse = v.excuse
  BY <1>1, <1>3, BatchView
<1> HIDE DEF w
<1>6. Fine(w, cards) /\ AllFed(w, cards)
  BY <1>1, <1>3, <1>5, OtherFine, StillFed
<1> QED BY <1>1, <1>4, <1>6, OwnStep DEF Fit

LEMMA OpenStep ==
    ASSUME DeskInv, NEW d \in Desks, NEW c \in Cards, Board!Open(d, c)
    PROVE  DeskInv'
<1> DEFINE v == desk[d]
           m == [open |-> TRUE, card |-> c, st |-> v.copy[c].st, rd |-> cards[c].rd]
           raced == v.raced \ {<<"modal", c>>}
           w == [v EXCEPT !.modal = m, !.raced = raced]
<1>1. /\ RowsOK(cards) /\ Fine(v, cards) /\ AllFed(v, cards) /\ v \in Board!View
      /\ cards' = cards /\ acts' \in Nat
  BY DeskFit DEF Board!Open
<1>2. desk' = Board!Set(d, w)
  BY Zenon DEF Board!Open
<1> HIDE DEF v
<1>3. m \in Board!Modal /\ m.card = c /\ m.rd = cards[c].rd
  <2>1. v.copy[c] \in Board!Copy /\ cards[c].rd \in Nat
    BY <1>1, ViewIs, RowIs DEF RowsOK
  <2> QED BY <2>1 DEF Board!Modal, Board!Copy
<1>4. /\ raced \subseteq Board!Holders \X Cards
      /\ \A x \in Cards : <<"batch", x>> \in v.raced => <<"batch", x>> \in raced
      /\ \A k \in Board!Drops : k \in v.raced => k \in raced
  BY <1>1, ViewIs, DropPair
<1> HIDE DEF m, raced
<1>5. /\ w \in Board!View /\ w.modal = m /\ w.raced = raced /\ w.drop = v.drop /\ w.batch = v.batch
      /\ w.copy = v.copy /\ w.last = v.last /\ w.calls = v.calls /\ w.fetch = v.fetch
      /\ w.knew = v.knew /\ w.excuse = v.excuse
  BY <1>1, <1>3, <1>4 DEF Board!View
<1> HIDE DEF w
<1>6. Fine(w, cards)
  BY <1>1, <1>5, OtherFine
<1>7. AllFed(w, cards)
  BY <1>1, <1>3, <1>4, <1>5 DEF AllFed, Fed
<1> QED BY <1>1, <1>2, <1>6, <1>7, OwnStep DEF Fit

LEMMA HiddenFit ==
    ASSUME RowsOK(cards), NEW v, Fit(v, cards)
    PROVE  Fit(Board!Hidden(v), cards)
<1> DEFINE w == Board!Hidden(v)
<1>1. Fine(v, cards) /\ AllFed(v, cards) /\ v \in Board!View
  BY DEF Fit, Fine
<1>2. /\ w \in Board!View /\ ~w.modal.open
      /\ w.copy = v.copy /\ w.last = v.last /\ w.calls = v.calls
      /\ w.fetch = v.fetch /\ w.drop = v.drop /\ w.batch = v.batch
      /\ w.knew = v.knew /\ w.excuse = v.excuse /\ w.raced = v.raced
  BY <1>1, HiddenView
<1> HIDE DEF w
<1>3. Fine(w, cards) /\ AllFed(w, cards)
  BY <1>1, <1>2, OtherFine, StillFed
<1> QED BY <1>3 DEF Fit, w

LEMMA RefetchFit ==
    ASSUME RowsOK(cards), NEW v, Fit(v, cards)
    PROVE  Fit(Board!Refetch(v), cards)
<1> DEFINE w == Board!Refetch(v)
<1>1. Fine(v, cards) /\ AllFed(v, cards) /\ v \in Board!View
  BY DEF Fit, Fine
<1>2. Fine(w, cards) /\ w.modal = v.modal /\ w.raced = v.raced /\ w.drop = v.drop /\ w.batch = v.batch
  BY <1>1, RefetchFine, RefetchView
<1> HIDE DEF w
<1>3. AllFed(w, cards)
  BY <1>1, <1>2, StillFed
<1> QED BY <1>2, <1>3 DEF Fit, w

LEMMA CloseStep ==
    ASSUME DeskInv, NEW d \in Desks, Board!Close(d)
    PROVE  DeskInv'
<1>1. /\ RowsOK(cards) /\ Fit(desk[d], cards) /\ cards' = cards /\ acts' \in Nat
      /\ desk' = Board!Set(d, Board!Hidden(desk[d]))
  BY DEF Board!Close, DeskInv
<1> QED BY <1>1, HiddenFit, OwnStep

\* A request to the server, from views that are fit but for the card it is about.
Ready(vs, c) == \A e \in Desks : FineBut(vs[e], cards, c) /\ AllFed(vs[e], cards)

LEMMA SetReady ==
    ASSUME DeskInv, NEW d \in Desks, NEW c \in Cards, NEW w, FineBut(w, cards, c), AllFed(w, cards)
    PROVE  Ready(Board!Set(d, w), c)
<1>1. desk \in [Desks -> Board!View]
  BY DEF DeskInv
<1>2. /\ Board!Set(d, w)[d] = w
      /\ \A e \in Desks \ {d} : Board!Set(d, w)[e] = desk[e]
  BY <1>1, SetIs
<1>3. \A e \in Desks : FineBut(desk[e], cards, c) /\ AllFed(desk[e], cards)
  BY FineIsBut DEF DeskInv, Fit
<1> QED BY <1>2, <1>3 DEF Ready

LEMMA FitReady ==
    ASSUME DeskInv, NEW d \in Desks, NEW c \in Cards, NEW w, Fit(w, cards)
    PROVE  Ready(Board!Set(d, w), c)
BY SetReady, FineIsBut DEF Fit

\* Readings that are the server's, that are entered now, or that were raced.
Owned(c, rd) ==
    \/ rd = cards[c].rd \/ rd = acts' + 1
    \/ \E d \in Desks, by \in Board!Holders : <<by, c>> \in desk[d].raced

Kept == \A c \in Cards : cards'[c].rd # cards[c].rd => Owned(c, cards'[c].rd)

LEMMA KeptIs ==
    ASSUME NEW c \in Cards, \A x \in Cards \ {c} : cards'[x] = cards[x],
           cards'[c].rd = cards[c].rd \/ Owned(c, cards'[c].rd)
    PROVE  Kept
BY DEF Kept

LEMMA ServeStep ==
    ASSUME DeskInv, NEW c \in Cards, NEW vs, Ready(vs, c), acts' \in Nat, NEW rd \in Nat,
           \/ Board!Created(vs, c) \/ Board!CreatedUntold(vs, c)
           \/ Board!MovedOn(vs, c) \/ Board!StatusUpdated(vs, c)
           \/ Board!Finalized(vs, c, rd) /\ (cards[c].st = "IN_PROGRESS" /\ c \in Tests => Owned(c, rd))
    PROVE  DeskInv' /\ Kept
<1>1. /\ RowsOK(cards)
      /\ \A e \in Desks : FineBut(vs[e], cards, c)
      /\ \A e \in Desks : AllFed(vs[e], cards)
  BY DEF DeskInv, Ready
<1>2. CASE Board!Created(vs, c)
  <2>1. Done(vs, c) /\ cards[c].st = "absent" /\ cards'[c].rd = 0
    BY <1>1, <1>2, CreatedDone
  <2>2. cards[c].rd = 0
    BY <1>1, <2>1 DEF RowsOK, RowOK
  <2>3. Kept
    BY <2>1, <2>2, KeptIs DEF Done
  <2> QED BY <1>1, <2>1, <2>2, <2>3, ServerStep
<1>3. CASE Board!CreatedUntold(vs, c)
  <2>1. Done(vs, c) /\ cards[c].st = "absent" /\ cards'[c].rd = 0
    BY <1>1, <1>3, CreatedUntoldDone
  <2>2. cards[c].rd = 0
    BY <1>1, <2>1 DEF RowsOK, RowOK
  <2>3. Kept
    BY <2>1, <2>2, KeptIs DEF Done
  <2> QED BY <1>1, <2>1, <2>2, <2>3, ServerStep
<1>4. CASE Board!MovedOn(vs, c) \/ Board!StatusUpdated(vs, c)
  <2>1. Done(vs, c) /\ cards[c].st = "TODO" /\ cards'[c].rd = cards[c].rd
    BY <1>1, <1>4, MovedOnDone, StatusUpdatedDone
  <2>2. Kept
    BY <2>1, KeptIs DEF Done
  <2> QED BY <1>1, <2>1, <2>2, ServerStep
<1>5. CASE /\ Board!Finalized(vs, c, rd)
           /\ cards[c].st = "IN_PROGRESS" /\ c \in Tests => Owned(c, rd)
  <2>1. /\ Done(vs, c) /\ cards[c].st = "IN_PROGRESS" /\ cards'[c].st \in {"DONE", "gone"}
        /\ cards'[c].rd = cards[c].rd \/ (c \in Tests /\ cards'[c].rd = rd)
    BY <1>1, <1>5, FinalizedDone
  <2>2. Kept
    BY <1>5, <2>1, KeptIs DEF Done
  <2> QED BY <1>1, <2>1, <2>2, ServerStep
<1> QED BY <1>2, <1>3, <1>4, <1>5

LEMMA DraftServe ==
    ASSUME DeskInv, NEW c \in Cards, NEW vs, acts' \in Nat, NEW rd \in Nat,
           \A e \in Desks : FineBut(vs[e], cards, c) /\ FedBut(vs[e], cards, c),
           NEW d \in Desks \cup {None}, None \notin Desks, Board!Drafted(vs, d, c, rd),
           d \in Desks => ~vs[d].modal.open \/ vs[d].modal.rd = rd,
           cards[c].st \in {"TODO", "IN_PROGRESS"} => Owned(c, rd)
    PROVE  DeskInv' /\ Kept
<1>1. /\ RowsOK(cards)
      /\ \A e \in Desks : FineBut(vs[e], cards, c)
      /\ \A e \in Desks : vs[e] \in Board!View /\ FedBut(vs[e], cards, c)
  BY DEF DeskInv, FineBut
<1>2. /\ Done(Board!Raced(vs, d, c), c) /\ cards[c].st \in {"TODO", "IN_PROGRESS"}
      /\ cards'[c].rd = rd
  BY <1>1, DraftedDone
<1>3. DeskInv'
  BY <1>1, <1>2, DraftStep
<1>4. Kept
  BY <1>2, KeptIs DEF Done
<1> QED BY <1>3, <1>4

LEMMA FedDrop ==
    ASSUME DeskInv, NEW d \in Desks, NEW k \in Board!Drops, desk[d].drop[k].stage = "post"
    PROVE  /\ desk[d].drop[k].rd \in Nat
           /\ cards[k[2]].st = "IN_PROGRESS" /\ k[2] \in Tests => Owned(k[2], desk[d].drop[k].rd)
<1>1. desk[d] \in Board!View /\ AllFed(desk[d], cards)
  BY DeskFit
<1>2. desk[d].drop[k] \in Board!Drop
  BY <1>1, ViewIs
<1>3. k[2] \in Cards /\ k[1] \in Board!Holders /\ k = <<k[1], k[2]>>
  BY DropPair
<1>4. Fed(desk[d], k[2], cards[k[2]])
  BY <1>1, <1>3 DEF AllFed
<1>5. k \in desk[d].raced => Owned(k[2], desk[d].drop[k].rd)
  BY <1>3 DEF Owned
<1> QED BY <1>2, <1>4, <1>5 DEF Board!Drop, Fed, Owned

LEMMA FedBatch ==
    ASSUME DeskInv, NEW d \in Desks, NEW c \in Cards, desk[d].batch.card = c
    PROVE  /\ desk[d].batch.rd \in Nat
           /\ cards[c].st = "IN_PROGRESS" /\ c \in Tests => Owned(c, desk[d].batch.rd)
<1>1. desk[d] \in Board!View /\ AllFed(desk[d], cards)
  BY DeskFit
<1>2. desk[d].batch \in Board!Batch /\ "batch" \in Board!Holders
  BY <1>1, ViewIs DEF Board!Holders
<1>3. Fed(desk[d], c, cards[c])
  BY <1>1 DEF AllFed
<1> QED BY <1>2, <1>3 DEF Board!Batch, Fed, Owned

LEMMA PostDropStep ==
    ASSUME DeskInv, NEW d \in Desks, NEW k \in Board!Drops, Board!PostDrop(d, k)
    PROVE  DeskInv' /\ Kept
<1> DEFINE v == desk[d]
           c == k[2]
           w == Board!Confirming(v, k)
           p == Board!PutBack(v, k)
           drop == v.drop[k]
<1>0. c \in Cards
  BY DropPair
<1>1. /\ RowsOK(cards) /\ Fine(v, cards) /\ AllFed(v, cards) /\ v \in Board!View /\ acts \in Nat
      /\ v.drop[k].stage = "post"
      /\ drop.rd \in Nat /\ (cards[c].st = "IN_PROGRESS" /\ c \in Tests => Owned(c, drop.rd))
  BY DeskFit, FedDrop DEF Board!PostDrop
<1>2. \/ Board!Posted(Board!Set(d, w), c, drop) /\ acts' = acts
      \/ desk' = Board!Set(d, p) /\ cards' = cards /\ acts' = acts
      \/ Board!Act /\ Board!Posted(Board!Set(d, p), c, drop)
  BY DEF Board!PostDrop
<1> HIDE DEF drop, c
<1>3. Ready(Board!Set(d, w), c)
  <2> HIDE DEF v
  <2>1. FineBut(w, cards, c)
    BY <1>1, ConfirmingFine DEF c
  <2>2. AllFed(w, cards)
    <3>1. /\ w.modal = v.modal /\ w.raced = v.raced /\ w.batch = v.batch
          /\ \/ w.drop = [v.drop EXCEPT ![k].stage = "ask"]
             \/ w.drop = [v.drop EXCEPT ![k] = Board!OverDrop]
      BY <1>1, ConfirmingView
    <3>2. v.drop \in [Board!Drops -> Board!Drop] /\ v.drop[k] \in Board!Drop
      BY <1>1, ViewIs
    <3>3. PICK x : x.stage # "post" /\ w.drop = [v.drop EXCEPT ![k] = x]
      <4>1. CASE w.drop = [v.drop EXCEPT ![k] = Board!OverDrop]
        BY <4>1, NoDropIs
      <4>2. CASE w.drop = [v.drop EXCEPT ![k].stage = "ask"]
        <5>1. [v.drop[k] EXCEPT !.stage = "ask"].stage = "ask"
          BY <3>2 DEF Board!Drop
        <5>2. w.drop = [v.drop EXCEPT ![k] = [v.drop[k] EXCEPT !.stage = "ask"]]
          BY <4>2
        <5> QED BY <5>1, <5>2
      <4> QED BY <3>1, <4>1, <4>2
    <3>4. Dropped(v, w, k, x)
      BY <3>1, <3>3 DEF Dropped
    <3> QED BY <1>1, <3>3, <3>4, DropsFed
  <2> QED BY <1>0, <2>1, <2>2, SetReady DEF v
<1>4. Fit(p, cards)
  BY <1>1, PutBackFit DEF Fit
<1>5. Ready(Board!Set(d, p), c)
  BY <1>0, <1>4, FitReady
<1> HIDE DEF v, w, p
<1>6. CASE Board!Posted(Board!Set(d, w), c, drop) /\ acts' = acts
  <2>1. \/ Board!MovedOn(Board!Set(d, w), c)
        \/ Board!Finalized(Board!Set(d, w), c, drop.rd)
    BY <1>6 DEF Board!Posted
  <2> QED BY <1>0, <1>1, <1>3, <1>6, <2>1, ServeStep
<1>7. CASE Board!Act /\ Board!Posted(Board!Set(d, p), c, drop)
  <2>1. \/ Board!MovedOn(Board!Set(d, p), c)
        \/ Board!Finalized(Board!Set(d, p), c, drop.rd)
    BY <1>7 DEF Board!Posted
  <2>2. acts' \in Nat
    BY <1>1, <1>7 DEF Board!Act
  <2> QED BY <1>0, <1>1, <1>5, <2>1, <2>2, ServeStep
<1>8. CASE desk' = Board!Set(d, p) /\ cards' = cards /\ acts' = acts
  <2>1. DeskInv'
    BY <1>1, <1>4, <1>8, OwnStep
  <2> QED BY <1>8, <2>1 DEF Kept
<1> QED BY <1>2, <1>6, <1>7, <1>8

LEMMA BatchPostStep ==
    ASSUME DeskInv, NEW d \in Desks, NEW c \in Cards, Board!BatchPost(d, c)
    PROVE  DeskInv' /\ Kept
<1> DEFINE v == desk[d]
           w == Board!BatchedOne(v, c)
           rd == v.batch.rd
<1>1. /\ RowsOK(cards) /\ Fine(v, cards) /\ AllFed(v, cards) /\ v \in Board!View
      /\ acts' \in Nat /\ v.batch.card = c
      /\ rd \in Nat /\ (cards[c].st = "IN_PROGRESS" /\ c \in Tests => Owned(c, rd))
  BY DeskFit, FedBatch DEF Board!BatchPost
<1>2. \/ Board!Finalized(Board!Set(d, w), c, rd)
      \/ desk' = Board!Set(d, w) /\ cards' = cards
  BY DEF Board!BatchPost
<1>3. Fit(w, cards)
  <2> HIDE DEF v
  <2>1. /\ Fine(w, cards) /\ w.modal = v.modal /\ w.raced = v.raced /\ w.drop = v.drop
        /\ w.batch.card = None
    BY <1>1, BatchedOneFine, BatchedOneView
  <2> HIDE DEF w
  <2>2. AllFed(w, cards)
    BY <1>1, <2>1, StillFed
  <2> QED BY <2>1, <2>2 DEF Fit
<1>4. Ready(Board!Set(d, w), c)
  BY <1>3, FitReady
<1> HIDE DEF v, w, rd
<1>5. CASE Board!Finalized(Board!Set(d, w), c, rd)
  BY <1>1, <1>4, <1>5, ServeStep
<1>6. CASE desk' = Board!Set(d, w) /\ cards' = cards
  <2>1. DeskInv'
    BY <1>1, <1>3, <1>6, OwnStep
  <2> QED BY <1>6, <2>1 DEF Kept
<1> QED BY <1>2, <1>5, <1>6

LEMMA BulkMoveStep ==
    ASSUME DeskInv, NEW d \in Desks, NEW c \in Cards, Board!BulkMove(d, c)
    PROVE  DeskInv' /\ Kept
<1> DEFINE w == Board!Refetch(desk[d])
<1>1. /\ Fit(w, cards) /\ acts' \in Nat
      /\ Board!StatusUpdated(Board!Set(d, w), c) \/ (desk' = Board!Set(d, w) /\ cards' = cards)
  BY RefetchFit DEF Board!BulkMove, Board!Act, DeskInv
<1>2. Ready(Board!Set(d, w), c)
  BY <1>1, FitReady
<1> HIDE DEF w
<1>3. CASE Board!StatusUpdated(Board!Set(d, w), c)
  <2>1. 0 \in Nat
    OBVIOUS
  <2> QED BY <1>1, <1>2, <1>3, <2>1, ServeStep
<1>4. CASE desk' = Board!Set(d, w) /\ cards' = cards
  <2>1. DeskInv'
    BY <1>1, <1>4, OwnStep
  <2> QED BY <1>4, <2>1 DEF Kept
<1> QED BY <1>1, <1>3, <1>4

LEMMA BulkDoneStep ==
    ASSUME DeskInv, NEW d \in Desks, NEW c \in Cards, Board!BulkDone(d, c)
    PROVE  DeskInv' /\ Kept
<1> DEFINE w == Board!Refetch(desk[d])
<1>1. /\ Fit(w, cards) /\ acts' \in Nat
      /\ Board!Finalized(Board!Set(d, w), c, cards[c].rd)
  BY RefetchFit DEF Board!BulkDone, Board!Act, DeskInv
<1>2. Ready(Board!Set(d, w), c)
  BY <1>1, FitReady
<1> HIDE DEF w
<1>3. cards[c].rd \in Nat /\ Owned(c, cards[c].rd)
  BY RowIs DEF DeskInv, RowsOK, Owned
<1> QED BY <1>1, <1>2, <1>3, ServeStep

LEMMA CreateStep ==
    ASSUME DeskInv, NEW d \in Desks, NEW c \in Cards, Board!Create(d, c)
    PROVE  DeskInv' /\ Kept
<1> DEFINE w == Board!Refetch(desk[d])
<1>1. /\ Fit(w, cards) /\ acts' \in Nat
      /\ Board!Created(Board!Set(d, w), c) \/ Board!CreatedUntold(Board!Set(d, w), c)
  BY RefetchFit DEF Board!Create, Board!Act, DeskInv
<1>2. Ready(Board!Set(d, w), c) /\ 0 \in Nat
  BY <1>1, FitReady
<1> HIDE DEF w
<1> QED BY <1>1, <1>2, ServeStep

LEMMA DeleteStep ==
    ASSUME DeskInv, NEW d \in Desks, NEW c \in Cards, Board!Delete(d, c)
    PROVE  DeskInv' /\ Kept
<1> DEFINE w == Board!Refetch(desk[d])
           vs == Board!Set(d, w)
<1>1. /\ RowsOK(cards) /\ Fit(w, cards) /\ acts' \in Nat /\ cards[c].st = "TODO"
      /\ Board!MuteRow(c, "gone", cards[c].rd) /\ desk' = Board!Unnotified(vs, c)
  BY RefetchFit DEF Board!Delete, Board!Act, DeskInv
<1>2. Ready(vs, c)
  BY <1>1, FitReady
<1> HIDE DEF w, vs
<1>3. /\ \A e \in Desks : FineBut(vs[e], cards, c)
      /\ \A e \in Desks : AllFed(vs[e], cards)
  BY <1>2 DEF Ready
<1>4. Done(vs, c) /\ cards'[c].rd = cards[c].rd /\ cards'[c].st = "gone"
  BY <1>1, <1>3, DeletedDone
<1>5. DeskInv'
  BY <1>1, <1>3, <1>4, ServerStep
<1>6. Kept
  BY <1>4, KeptIs DEF Done
<1> QED BY <1>5, <1>6

\* What a modal enters or leaves as it was.
LEMMA FedModal ==
    ASSUME DeskInv, NEW d \in Desks, desk[d].modal.open, Board!Act, NEW rd \in Board!Entered(d)
    PROVE  /\ desk[d].modal.card \in Cards /\ rd \in Nat /\ acts' \in Nat
           /\ cards[desk[d].modal.card].st \in {"TODO", "IN_PROGRESS"} => Owned(desk[d].modal.card, rd)
<1> DEFINE v == desk[d]
           c == v.modal.card
<1>1. /\ v \in Board!View /\ AllFed(v, cards) /\ acts \in Nat /\ acts' = acts + 1
  BY DeskFit DEF Board!Act
<1>2. v.modal \in Board!Modal
  BY <1>1, ViewIs
<1>3. rd = v.modal.rd \/ rd = acts + 2
  BY DEF Board!Entered
<1>4. c \in Cards /\ Fed(v, c, cards[c])
  BY <1>1 DEF AllFed
<1>5. rd \in Nat
  BY <1>1, <1>2, <1>3 DEF Board!Modal
<1>6. cards[c].st \in {"TODO", "IN_PROGRESS"} => Owned(c, rd)
  <2>1. CASE rd = v.modal.rd
    BY <1>4, <2>1 DEF Fed, Owned, Board!Holders
  <2>2. CASE rd = acts + 2
    <3>1. rd = acts' + 1
      BY <1>1, <2>2
    <3> QED BY <3>1 DEF Owned
  <2> QED BY <1>3, <2>1, <2>2
<1> QED BY <1>1, <1>4, <1>5, <1>6

LEMMA FitFedBut ==
    ASSUME NEW v, NEW c, AllFed(v, cards)
    PROVE  FedBut(v, cards, c)
BY DEF AllFed, FedBut

LEMMA ReadyDraft ==
    ASSUME NEW vs, NEW c, Ready(vs, c)
    PROVE  \A e \in Desks : FineBut(vs[e], cards, c) /\ FedBut(vs[e], cards, c)
BY FitFedBut DEF Ready

\* The modal saves what it holds and goes on.
LEMMA DraftHere ==
    ASSUME DeskInv, NEW d \in Desks, desk[d].modal.open, Board!Act, NEW rd \in Board!Entered(d),
           NEW w \in Board!View, w.modal = [desk[d].modal EXCEPT !.rd = rd],
           w.raced = desk[d].raced, w.drop = desk[d].drop, w.batch = desk[d].batch,
           w.copy = desk[d].copy, w.last = desk[d].last, w.calls = desk[d].calls,
           w.fetch = desk[d].fetch, w.knew = desk[d].knew, w.excuse = desk[d].excuse,
           Board!Drafted(Board!Set(d, w), d, desk[d].modal.card, rd)
    PROVE  DeskInv' /\ Kept
<1> DEFINE v == desk[d]
           c == v.modal.card
           vs == Board!Set(d, w)
<1>1. /\ c \in Cards /\ rd \in Nat /\ acts' \in Nat
      /\ cards[c].st \in {"TODO", "IN_PROGRESS"} => Owned(c, rd)
  BY FedModal
<1>2. RowsOK(cards) /\ Fine(v, cards) /\ AllFed(v, cards) /\ v \in Board!View
  BY DeskFit
<1>3. w.modal = [v.modal EXCEPT !.rd = rd] /\ Board!Drafted(vs, d, c, rd)
  OBVIOUS
<1>4. /\ w.raced = v.raced /\ w.drop = v.drop /\ w.batch = v.batch
      /\ w.copy = v.copy /\ w.last = v.last /\ w.calls = v.calls
      /\ w.fetch = v.fetch /\ w.knew = v.knew /\ w.excuse = v.excuse
  OBVIOUS
<1>5. vs[d] = w /\ \A e \in Desks \ {d} : vs[e] = desk[e]
  BY SetIs DEF DeskInv
<1> HIDE DEF v, vs
<1>6. v.modal \in Board!Modal
  BY <1>2, ViewIs
<1>7. w.modal.rd = rd /\ w.modal.card = c /\ w.modal.open = v.modal.open
  BY <1>1, <1>3, <1>6 DEF Board!Modal
<1> HIDE DEF c
<1>8. FineBut(w, cards, c)
  BY <1>2, <1>4, OtherFine, FineIsBut
<1>9. FedBut(w, cards, c)
  BY <1>1, <1>2, <1>4, <1>7 DEF AllFed, FedBut, Fed
<1>10. \A e \in Desks \ {d} : FineBut(desk[e], cards, c) /\ FedBut(desk[e], cards, c)
  BY FineIsBut, FitFedBut DEF DeskInv, Fit
<1>11. \A e \in Desks : FineBut(vs[e], cards, c) /\ FedBut(vs[e], cards, c)
  BY <1>5, <1>8, <1>9, <1>10
<1>12. vs[d].modal.rd = rd
  BY <1>5, <1>7
<1>13. None \notin Desks
  BY BoardAssumption DEF Board!DeskAssumption
<1> QED BY <1>1, <1>3, <1>11, <1>12, <1>13, DraftServe

LEMMA SaveDraftStep ==
    ASSUME DeskInv, NEW d \in Desks, Board!SaveDraft(d)
    PROVE  DeskInv' /\ Kept
<1> DEFINE v == desk[d]
<1>1. PICK rd \in Board!Entered(d) :
        /\ v.modal.open /\ Board!Act
        /\ Board!Drafted(Board!Set(d, [v EXCEPT !.modal.rd = rd]), d, v.modal.card, rd)
  BY DEF Board!SaveDraft
<1> DEFINE m == [v.modal EXCEPT !.rd = rd]
           w == [v EXCEPT !.modal = m]
<1>2. rd \in Nat
  BY <1>1, FedModal
<1>3. v \in Board!View /\ v.modal \in Board!Modal
  BY DeskFit, ViewIs
<1>4. Board!Drafted(Board!Set(d, w), d, v.modal.card, rd)
  <2>1. [v EXCEPT !.modal.rd = rd] = w
    BY <1>3 DEF Board!View
  <2> HIDE DEF w
  <2> QED BY <1>1, <2>1
<1>5. m \in Board!Modal
  BY <1>2, <1>3 DEF Board!Modal
<1> HIDE DEF m, v
<1>6. /\ w \in Board!View /\ w.modal = m /\ w.raced = v.raced /\ w.drop = v.drop /\ w.batch = v.batch
      /\ w.copy = v.copy /\ w.last = v.last /\ w.calls = v.calls /\ w.fetch = v.fetch
      /\ w.knew = v.knew /\ w.excuse = v.excuse
  BY <1>3, <1>5 DEF Board!View
<1> HIDE DEF w
<1> QED BY <1>1, <1>4, <1>6, DraftHere DEF v, m

LEMMA AfterFit ==
    ASSUME RowsOK(cards), NEW v, Fit(v, cards)
    PROVE  Fit([v EXCEPT !.after = None], cards)
<1> DEFINE w == [v EXCEPT !.after = None]
<1>1. Fine(v, cards) /\ AllFed(v, cards) /\ v \in Board!View
  BY DEF Fit, Fine
<1>2. /\ w \in Board!View /\ w.modal = v.modal /\ w.raced = v.raced /\ w.drop = v.drop
      /\ w.batch = v.batch
      /\ w.copy = v.copy /\ w.last = v.last /\ w.calls = v.calls /\ w.fetch = v.fetch
      /\ w.knew = v.knew /\ w.excuse = v.excuse
  BY <1>1 DEF Board!View
<1> HIDE DEF w
<1>3. Fine(w, cards) /\ AllFed(w, cards)
  BY <1>1, <1>2, OtherFine, StillFed
<1> QED BY <1>3 DEF Fit, w

LEMMA SubmitStep ==
    ASSUME DeskInv, NEW d \in Desks, Board!Submit(d)
    PROVE  DeskInv' /\ Kept
<1> DEFINE v == desk[d]
           c == v.modal.card
           h == Board!Hidden(v)
           w == Board!Refetch(h)
           vs == Board!Set(d, w)
<1>1. v.modal.open /\ Board!Act
  BY DEF Board!Submit
<1>2. PICK rd \in Board!Entered(d) :
        \/ Board!Drafted(vs, d, c, rd) \/ Board!Finalized(vs, c, rd)
        \/ Board!Drafted(Board!Set(d, [v EXCEPT !.modal.rd = rd, !.after = c]), d, c, rd)
  BY Zenon DEF Board!Submit
<1>3. /\ c \in Cards /\ rd \in Nat /\ acts' \in Nat
      /\ cards[c].st \in {"TODO", "IN_PROGRESS"} => Owned(c, rd)
  BY <1>1, FedModal
<1>4. RowsOK(cards) /\ Fit(v, cards) /\ v \in Board!View /\ v.modal \in Board!Modal
  BY DeskFit, ViewIs DEF Fit
<1>5. CASE Board!Drafted(Board!Set(d, [v EXCEPT !.modal.rd = rd, !.after = c]), d, c, rd)
  <2> DEFINE m == [v.modal EXCEPT !.rd = rd]
             x == [v EXCEPT !.modal = m, !.after = c]
  <2>1. Board!Drafted(Board!Set(d, x), d, v.modal.card, rd)
    <3>1. [v EXCEPT !.modal.rd = rd, !.after = c] = x
      BY <1>4 DEF Board!View
    <3> HIDE DEF x
    <3> QED BY <1>5, <3>1
  <2>2. m \in Board!Modal
    BY <1>3, <1>4 DEF Board!Modal
  <2> HIDE DEF m, v, c
  <2>3. /\ x \in Board!View /\ x.modal = m /\ x.raced = v.raced /\ x.drop = v.drop /\ x.batch = v.batch
        /\ x.copy = v.copy /\ x.last = v.last /\ x.calls = v.calls /\ x.fetch = v.fetch
        /\ x.knew = v.knew /\ x.excuse = v.excuse
    BY <1>3, <1>4, <2>2 DEF Board!View
  <2> HIDE DEF x
  <2> QED BY <1>1, <2>1, <2>3, DraftHere DEF v, m
<1> HIDE DEF v
<1>6. Fit(h, cards) /\ h \in Board!View /\ ~h.modal.open
  BY <1>4, HiddenFit, HiddenView
<1> HIDE DEF h
<1>7. Fit(w, cards) /\ ~w.modal.open
  BY <1>4, <1>6, RefetchFit, RefetchView
<1> HIDE DEF w, c
<1>8. Ready(vs, c)
  BY <1>3, <1>7, FitReady
<1>9. vs[d] = w
  BY SetIs DEF DeskInv
<1> HIDE DEF vs
<1>10. CASE Board!Drafted(vs, d, c, rd)
  <2>1. \A e \in Desks : FineBut(vs[e], cards, c) /\ FedBut(vs[e], cards, c)
    BY <1>8, ReadyDraft
  <2>2. ~vs[d].modal.open
    BY <1>7, <1>9
  <2>3. None \notin Desks
    BY BoardAssumption DEF Board!DeskAssumption
  <2> QED BY <1>3, <1>10, <2>1, <2>2, <2>3, DraftServe
<1>11. CASE Board!Finalized(vs, c, rd)
  <2>1. cards[c].st = "IN_PROGRESS" /\ c \in Tests => Owned(c, rd)
    BY <1>3
  <2> QED BY <1>3, <1>8, <1>11, <2>1, ServeStep
<1> QED BY <1>2, <1>5, <1>10, <1>11

LEMMA SubmitMoveStep ==
    ASSUME DeskInv, NEW d \in Desks, NEW c \in Cards, Board!SubmitMove(d, c)
    PROVE  DeskInv' /\ Kept
<1> DEFINE v == [desk[d] EXCEPT !.after = None]
           w == Board!Refetch(Board!Hidden(v))
<1>1. /\ \/ Board!StatusUpdated(Board!Set(d, w), c)
         \/ Board!StatusUpdated(Board!Set(d, v), c)
         \/ desk' = Board!Set(d, v) /\ cards' = cards
      /\ acts' \in Nat /\ RowsOK(cards)
  BY DEF Board!SubmitMove, Board!Act, DeskInv
<1>2. Fit(v, cards)
  BY AfterFit DEF DeskInv
<1> HIDE DEF v
<1>3. Fit(w, cards)
  BY <1>1, <1>2, HiddenFit, RefetchFit
<1>4. Ready(Board!Set(d, w), c) /\ Ready(Board!Set(d, v), c) /\ 0 \in Nat
  BY <1>2, <1>3, FitReady
<1> HIDE DEF w
<1>5. CASE Board!StatusUpdated(Board!Set(d, w), c) \/ Board!StatusUpdated(Board!Set(d, v), c)
  BY <1>1, <1>4, <1>5, ServeStep
<1>6. CASE desk' = Board!Set(d, v) /\ cards' = cards
  <2>1. DeskInv'
    BY <1>1, <1>2, <1>6, OwnStep
  <2> QED BY <1>6, <2>1 DEF Kept
<1> QED BY <1>1, <1>5, <1>6

LEMMA ElsewhereStep ==
    ASSUME DeskInv, None \notin Desks, NEW c \in Cards, Board!Elsewhere(c)
    PROVE  DeskInv' /\ Kept
<1>1. /\ acts \in Nat /\ acts' \in Nat /\ acts + 2 \in Nat /\ acts + 2 = acts' + 1
      /\ \/ Board!Created(desk, c) \/ Board!MovedOn(desk, c) \/ Board!StatusUpdated(desk, c)
         \/ Board!Drafted(desk, None, c, acts + 2) \/ Board!Finalized(desk, c, acts + 2)
  BY DEF Board!Elsewhere, Board!Act, DeskInv
<1>2. Ready(desk, c)
  BY FineIsBut DEF Ready, DeskInv, Fit
<1>3. Owned(c, acts + 2)
  BY <1>1 DEF Owned
<1>4. CASE Board!Drafted(desk, None, c, acts + 2)
  <2>1. \A e \in Desks : FineBut(desk[e], cards, c) /\ FedBut(desk[e], cards, c)
    BY <1>2, ReadyDraft
  <2>2. None \in Desks \cup {None} /\ (None \in Desks => ~desk[None].modal.open)
    OBVIOUS
  <2> QED BY <1>1, <1>3, <1>4, <2>1, <2>2, DraftServe
<1>5. CASE \/ Board!Created(desk, c) \/ Board!MovedOn(desk, c) \/ Board!StatusUpdated(desk, c)
           \/ Board!Finalized(desk, c, acts + 2)
  BY <1>1, <1>2, <1>3, <1>5, ServeStep
<1> QED BY <1>1, <1>4, <1>5

LEMMA DeskInit ==
    ASSUME Board!DeskAssumption, Board!Init
    PROVE  DeskInv
<1>1. RowsOK(cards)
  <2>1. \A c \in Cards : cards[c] \in Board!Row /\ RowOK(cards[c])
    BY DEF Board!Init, Board!Row, Board!Columns, RowOK
  <2>2. cards \in [Cards -> Board!Row]
    BY <2>1 DEF Board!Init
  <2> QED BY <2>1, <2>2 DEF RowsOK
<1>2. \A c \in Cards : cards[c].st \in {"absent", "TODO", "IN_PROGRESS"}
  BY DEF Board!Init
<1> DEFINE copy == [c \in Cards |-> [cols |-> {cards[c].st} \cap Board!Columns,
                                     st |-> IF cards[c].st = "absent" THEN "none" ELSE cards[c].st]]
           last == [c \in Cards |-> 0]
           drop == [k \in Board!Drops |-> Board!NoDrop]
           knew == [c \in Cards |-> cards[c].ver]
           w == [copy |-> copy, last |-> last, pend |-> {}, calls |-> {},
                 fetch |-> Board!NoFetch, drop |-> drop, recent |-> <<None, None>>,
                 modal |-> Board!NoModal, after |-> None, batch |-> Board!NoBatch, on |-> TRUE,
                 knew |-> knew, excuse |-> {}, raced |-> {}]
<1>3. copy \in [Cards -> Board!Copy]
  BY <1>2 DEF Board!Copy, Board!Columns
<1>4. last \in [Cards -> Nat] /\ knew \in [Cards -> Nat]
  BY <1>1, RowIs DEF RowsOK
<1>5. Board!NoBatch \in Board!Batch /\ Board!NoBatch.card = None /\ None \notin Cards
  BY NoBatchIs DEF Board!DeskAssumption
<1>6. drop \in [Board!Drops -> Board!Drop]
  BY NoDropIs
<1>7. Board!NoFetch \in Board!Fetch /\ Board!NoFetch.stage = "none"
  BY DEF Board!NoFetch, Board!Fetch, Board!NoAnswer, Board!Answer
<1>8. Board!NoModal \in Board!Modal /\ ~Board!NoModal.open
  BY DEF Board!NoModal, Board!Modal
<1>9. \A c \in Cards : /\ copy[c].cols = {cards[c].st} \cap Board!Columns
                       /\ copy[c].st = IF cards[c].st = "absent" THEN "none" ELSE cards[c].st
                       /\ last[c] = 0 /\ knew[c] = cards[c].ver
  OBVIOUS
<1>d. \A k \in Board!Drops : drop[k] = Board!NoDrop
  OBVIOUS
<1>10. desk = [d \in Desks |-> w] /\ acts = 0
  BY DEF Board!Init
<1> HIDE DEF copy, last, drop, knew
<1>11. w \in Board!View
  BY <1>3, <1>4, <1>5, <1>6, <1>7, <1>8 DEF Board!View
<1>12. /\ w.copy = copy /\ w.last = last /\ w.knew = knew /\ w.drop = drop /\ w.calls = {}
       /\ w.fetch = Board!NoFetch /\ w.modal = Board!NoModal /\ w.excuse = {}
       /\ w.batch = Board!NoBatch
  OBVIOUS
<1> HIDE DEF w
<1>13. ASSUME NEW c \in Cards
       PROVE  Sound(w, c, cards[c]) /\ Right(w, c, cards[c]) /\ Fed(w, c, cards[c])
  <2>1. /\ cards[c] \in Board!Row /\ RowOK(cards[c]) /\ cards[c].ver \in Nat
        /\ cards[c].st \in {"absent", "TODO", "IN_PROGRESS"}
    BY <1>1, <1>2, RowIs DEF RowsOK
  <2>2. Aware(w, c, cards[c])
    BY <1>7, <1>9, <1>d, <1>12, <2>1, NoDropIs DEF Aware
  <2>3. Matched(w.copy[c]) /\ (w.copy[c].cols # {} <=> cards[c].st # "absent")
    BY <1>9, <1>12, <2>1 DEF Matched, Board!Columns
  <2>4. cards[c].st # "absent" => cards[c].ver > 0
    BY <2>1 DEF RowOK
  <2>5. Seated(w, c, cards[c])
    BY <1>9, <1>d, <1>12, <2>1, <2>3, <2>4, NoDropIs, BlankIs DEF Seated, RowOK
  <2>6. Expected(w, c, cards[c])
    BY <1>9, <1>12, <2>1 DEF Expected
  <2>7. Right(w, c, cards[c])
    BY <1>9, <1>12, <2>1, RowIs DEF Right
  <2>8. Fed(w, c, cards[c])
    BY <1>5, <1>8, <1>d, <1>12, NoDropIs DEF Fed
  <2> QED BY <2>2, <2>5, <2>6, <2>7, <2>8 DEF Sound
<1>14. Fit(w, cards)
  BY <1>8, <1>11, <1>12, <1>13 DEF Fit, Fine, AllFed
<1>15. desk \in [Desks -> Board!View] /\ \A d \in Desks : desk[d] = w
  BY <1>10, <1>11
<1> QED BY <1>1, <1>10, <1>14, <1>15 DEF DeskInv

\* Every step keeps the invariant, and the readings.
LEMMA DeskStep ==
    ASSUME DeskInv, [Board!Next]_(Board!vars)
    PROVE  DeskInv' /\ Kept
<1>1. CASE UNCHANGED Board!vars
  <2>1. cards' = cards /\ desk' = desk /\ acts' = acts
    BY <1>1 DEF Board!vars
  <2> QED BY <2>1 DEF DeskInv, Kept
<1>2. CASE Board!Next
  <2>1. ASSUME NEW c \in Cards, Board!Elsewhere(c)
        PROVE  DeskInv' /\ Kept
    BY <2>1, ElsewhereStep, BoardAssumption DEF Board!DeskAssumption
  <2>2. ASSUME NEW d \in Desks,
               \/ Board!Load(d) \/ Board!AnswerBoard(d) \/ Board!ShowBoard(d)
               \/ Board!Disconnect(d) \/ Board!Reconnect(d)
               \/ Board!StartBatch(d) \/ Board!Close(d)
        PROVE  DeskInv' /\ Kept
    <3>1. DeskInv'
      BY <2>2, LoadStep, AnswerBoardStep, ShowBoardStep, ConnectionStep, StartBatchStep, CloseStep
    <3>2. cards' = cards
      BY <2>2 DEF Board!Load, Board!AnswerBoard, Board!ShowBoard, Board!Disconnect, Board!Reconnect,
                  Board!StartBatch, Board!Close
    <3> QED BY <3>1, <3>2 DEF Kept
  <2>3. ASSUME NEW d \in Desks, NEW n \in desk[d].calls,
               Board!Hear(d, n) \/ Board!AnswerCall(d, n) \/ Board!Heed(d, n)
        PROVE  DeskInv' /\ Kept
    <3>1. DeskInv'
      BY <2>3, HearStep, AnswerCallStep, HeedStep
    <3>2. cards' = cards
      BY <2>3 DEF Board!Hear, Board!AnswerCall, Board!Heed
    <3> QED BY <3>1, <3>2 DEF Kept
  <2>4. ASSUME NEW d \in Desks, NEW k \in Board!Drops,
               \/ \E to \in Board!Columns : Board!DropCard(d, k, to)
               \/ Board!ReadForDrop(d, k) \/ Board!AnswerDrop(d, k) \/ Board!ShowDrop(d, k)
               \/ Board!Release(d, k)
        PROVE  DeskInv' /\ Kept
    <3>1. DeskInv'
      BY <2>4, DropCardStep, ReadForDropStep, AnswerDropStep, ShowDropStep, ReleaseStep
    <3>2. cards' = cards
      <4>1. (\E to \in Board!Columns : Board!DropCard(d, k, to)) => cards' = cards
        BY Zenon DEF Board!DropCard
      <4>2. Board!ReadForDrop(d, k) \/ Board!AnswerDrop(d, k) \/ Board!ShowDrop(d, k) => cards' = cards
        BY Zenon DEF Board!ReadForDrop, Board!AnswerDrop, Board!ShowDrop
      <4>3. Board!Release(d, k) => cards' = cards
        BY Zenon DEF Board!Release
      <4> QED BY <2>4, <4>1, <4>2, <4>3
    <3> QED BY <3>1, <3>2 DEF Kept
  <2>5. ASSUME NEW d \in Desks, NEW c \in Cards, Board!BatchRead(d, c) \/ Board!Open(d, c)
        PROVE  DeskInv' /\ Kept
    <3>1. DeskInv'
      BY <2>5, BatchReadStep, OpenStep
    <3>2. cards' = cards
      BY <2>5, Zenon DEF Board!BatchRead, Board!Open
    <3> QED BY <3>1, <3>2 DEF Kept
  <2>7. ASSUME NEW d \in Desks, NEW k \in Board!Drops, Board!PostDrop(d, k)
        PROVE  DeskInv' /\ Kept
    BY <2>7, PostDropStep
  <2>8. ASSUME NEW d \in Desks, NEW c \in Cards,
               \/ Board!BatchPost(d, c) \/ Board!BulkMove(d, c) \/ Board!BulkDone(d, c)
               \/ Board!Create(d, c) \/ Board!Delete(d, c) \/ Board!SubmitMove(d, c)
        PROVE  DeskInv' /\ Kept
    BY <2>8, BatchPostStep, BulkMoveStep, BulkDoneStep, CreateStep, DeleteStep, SubmitMoveStep
  <2>6. ASSUME NEW d \in Desks, Board!SaveDraft(d) \/ Board!Submit(d)
        PROVE  DeskInv' /\ Kept
    BY <2>6, SaveDraftStep, SubmitStep
  <2> QED BY <1>2, <2>1, <2>2, <2>3, <2>4, <2>5, <2>6, <2>7, <2>8 DEF Board!Next
<1> QED BY <1>1, <1>2

\* A board at rest shows what the server has, or there is one of the reasons that
\* are named: for any number of desks and cards, of drops of one card whose timers
\* run, batches, lost connections and answers that overtake one another.
THEOREM BoardsSettleCorrect == Board!Spec => []BoardsSettle
<1>1. Board!Init => DeskInv
  BY DeskInit, BoardAssumption
<1>2. DeskInv /\ [Board!Next]_(Board!vars) => DeskInv'
  BY DeskStep
<1>3. DeskInv => BoardsSettle
  <2> SUFFICES ASSUME DeskInv, NEW d \in Desks, Board!Quiet(desk[d]), NEW c \in Cards
               PROVE  desk[d].copy[c].st = Board!About(c).st \/ c \in desk[d].excuse
    BY DEF BoardsSettle, Board!BoardsSettle
  <2>1. /\ cards[c] \in Board!Row /\ RowOK(cards[c]) /\ Right(desk[d], c, cards[c])
    BY DEF DeskInv, Fit, Fine, RowsOK
  <2>2. ~Coming(desk[d], c, cards[c]) /\ ~Under(desk[d], c)
    BY DEF Board!Quiet, Coming, Under
  <2>3. Board!About(c).st = Face(cards[c])
    BY <2>1, AboutTrue
  <2> QED BY <2>1, <2>2, <2>3 DEF Right
<1> QED BY <1>1, <1>2, <1>3, PTL DEF Board!Spec

\* No drop, batch or modal, the modal that moves a certificate on among them, posts
\* back readings that somebody replaced meanwhile, unless its desk had read them
\* before that: for any number of desks, cards and drops.
THEOREM ReadingsKeptCorrect == Board!Spec => ReadingsKept
<1> DEFINE Keeps ==
      \A c \in Cards : cards'[c].rd # cards[c].rd
          => cards'[c].rd = acts' + 1 \/ \E d \in Desks, by \in Board!Holders : <<by, c>> \in desk[d].raced
<1>1. Board!Init => DeskInv
  BY DeskInit, BoardAssumption
<1>2. DeskInv /\ [Board!Next]_(Board!vars) => DeskInv'
  BY DeskStep
<1>3. DeskInv /\ [Board!Next]_(Board!vars) => [Keeps]_(Board!vars)
  <2> SUFFICES ASSUME DeskInv, [Board!Next]_(Board!vars)
               PROVE  Keeps
    OBVIOUS
  <2>1. Kept
    BY DeskStep
  <2> QED BY <2>1, Zenon DEF Kept, Owned
<1> QED BY <1>1, <1>2, <1>3, PTL DEF Board!Spec, ReadingsKept, Board!ReadingsKept
==============================================================================
