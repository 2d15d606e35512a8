------------------------------ MODULE Accounts ------------------------------
(***************************************************************************)
(* Accounts and sessions: the users table with its handlers                *)
(* (authService.js, authRoutes.js, authMiddleware.js), and the browsers'   *)
(* side of it: the token that the tabs of a browser share, the user a tab  *)
(* shows (AuthContext.js, LoginPage.js, ProtectedRoute.js, api.js), the    *)
(* window for one's own password and the page of the administrator.        *)
(*                                                                         *)
(* Every answer may be late or lost.  A handler that awaits the hashing of *)
(* a password is two steps.  Nobody registers: no page calls that route,   *)
(* users come from the seeding and import scripts, with one password.      *)
(***************************************************************************)
EXTENDS Integers

CONSTANTS
    Users, Admin,       \* rows of users; the one named 'admin'
    NoOne,
    Tabs, Browsers,
    MaxActs             \* bound of the runs: what people do

ASSUME AccountsAssumption ==
    /\ Admin \in Users /\ NoOne \notin Users
    /\ MaxActs \in Nat

VARIABLES
    account,    \* users: password and role
    home,       \* the browser of a tab
    token,      \* localStorage: whose token a browser keeps
    tab,        \* per tab: what it shows and its sign-in under way
    call,       \* per tab: a change of an account under way
    said,       \* for the properties: the password a person was told last
    unsure,     \* for the properties: whose password may be another
    acts        \* counter

vars == <<account, home, token, tab, call, said, unsure, acts>>

\* ProtectedRoute lets the roles of App.jsx in; the page of the administrator
\* gives out "staff" as well, which no route lists.
Role    == {"admin", "manager", "staff", "front_desk"}
Offered == {"admin", "manager", "staff"}
Lands   == {"admin", "manager", "front_desk"}

Somebody == Users \cup {NoOne}

\* check: the token sent with GET /profile; login: a sign-in under way and what
\* the server found.  mixed is for the properties: somebody signed in, in this or
\* in another tab of the browser, while this tab showed or asked for a user.
Tab == [page : {"login", "app"}, user : Somebody, role : Role, loading : BOOLEAN,
        check : Somebody, login : [who : Somebody, ok : BOOLEAN, role : Role], mixed : BOOLEAN]

\* by: whose token was sent; shown: who was shown; of: whose row is meant.
Call == [kind : {"none", "change", "reset", "role"}, by : Somebody, shown : Somebody,
         of : Somebody, entered : Nat, word : Nat, role : Role,
         stage : {"sent", "hashing", "done", "refused", "unknown"}, heard : BOOLEAN]

NoLogin == [who |-> NoOne, ok |-> FALSE, role |-> "staff"]
NoCall  == [kind |-> "none", by |-> NoOne, shown |-> NoOne, of |-> NoOne, entered |-> 0,
            word |-> 0, role |-> "staff", stage |-> "done", heard |-> FALSE]

TypeOK ==
    /\ account \in [Users -> [password : Nat, role : Role]]
    /\ home \in [Tabs -> Browsers]
    /\ token \in [Browsers -> Somebody]
    /\ tab \in [Tabs -> Tab]
    /\ call \in [Tabs -> Call]
    /\ said \in [Users -> Nat] /\ unsure \in SUBSET Users
    /\ acts \in 0..MaxActs

\* ProtectedRoute: nobody, or a role no page is for, is sent to the sign-in.
Gate(b) == IF b.page = "app" /\ ~b.loading /\ (b.user = NoOne \/ b.role \notin Lands)
              THEN [b EXCEPT !.page = "login"] ELSE b

\* AuthProvider is mounted: it asks who the token belongs to, if there is one.
Opened(owner, page) ==
    Gate([page |-> page, user |-> NoOne, role |-> "staff", loading |-> owner # NoOne,
          check |-> owner, login |-> NoLogin, mixed |-> FALSE])

\* Imported users are administrators, those registered by hand are at the desk; the
\* browsers may have been used before.
Init ==
    /\ account \in [Users -> [password : {0}, role : {"admin", "front_desk"}]]
    /\ account[Admin].role = "admin"
    /\ home \in [Tabs -> Browsers]
    /\ token \in [Browsers -> Somebody]
    /\ tab = [t \in Tabs |-> Opened(token[home[t]], "app")]
    /\ call = [t \in Tabs |-> NoCall]
    /\ said = [u \in Users |-> 0] /\ unsure = {}
    /\ acts = 0

Act == acts < MaxActs /\ acts' = acts + 1

\* Those whose password is in doubt when the answer to c is not heard.
About(c) == {c.shown, c.of, c.by} \cap Users

------------------------------------------------------------------------------
\* Sessions

\* The application is opened anew, at any page or at the sign-in.
Load(t, page) ==
    /\ Act
    /\ tab' = [tab EXCEPT ![t] = Opened(token[home[t]], page)]
    /\ call' = [call EXCEPT ![t].heard = FALSE]
    /\ unsure' = IF call[t].heard THEN unsure \cup About(call[t]) ELSE unsure
    /\ UNCHANGED <<account, home, token, said>>

\* checkAuth: the answer is shown whatever happened since.
CheckAnswered(t) ==
    LET u == tab[t].check IN
    /\ u # NoOne
    /\ tab' = [tab EXCEPT ![t] = Gate([@ EXCEPT !.user = u, !.role = account[u].role,
                                                !.loading = FALSE, !.check = NoOne])]
    /\ UNCHANGED <<account, home, token, call, said, unsure, acts>>

\* A failure of any kind removes the token that is there by then.
CheckFailed(t) ==
    /\ tab[t].check # NoOne
    /\ token' = [token EXCEPT ![home[t]] = NoOne]
    /\ tab' = [tab EXCEPT ![t] = Gate([@ EXCEPT !.loading = FALSE, !.check = NoOne])]
    /\ UNCHANGED <<account, home, call, said, unsure, acts>>

\* handleLogin, login: the row is read and compared; loading disables the form.
SignIn(t, u, w) ==
    /\ tab[t].page = "login" /\ tab[t].login = NoLogin
    /\ Act
    /\ tab' = [tab EXCEPT ![t].login = [who |-> u, ok |-> account[u].password = w, role |-> account[u].role]]
    /\ UNCHANGED <<account, home, token, call, said, unsure>>

\* Mutant: the token is kept in sessionStorage, and read where localStorage has none.
StoredBehind(b, u) == [token EXCEPT ![b] = IF @ = NoOne THEN u ELSE @]

Stored(b, u) == [token EXCEPT ![b] = u]

Asking(s) == tab[s].user # NoOne \/ tab[s].check # NoOne \/ tab[s].login # NoLogin

SignInAnswered(t) ==
    LET l == tab[t].login IN
    /\ l # NoLogin /\ l.ok
    /\ token' = Stored(home[t], l.who)
    /\ tab' = [s \in Tabs |->
                 IF s = t THEN Gate([tab[t] EXCEPT !.user = l.who, !.role = l.role, !.page = "app",
                                       !.login = NoLogin, !.mixed = tab[t].check # NoOne])
                 ELSE [tab[s] EXCEPT !.mixed = @ \/ (home[s] = home[t] /\ Asking(s))]]
    /\ UNCHANGED <<account, home, call, said, unsure, acts>>

\* A refusal and a lost answer look alike.
SignInFails(t) ==
    /\ tab[t].login # NoLogin
    /\ tab' = [tab EXCEPT ![t].login = NoLogin]
    /\ UNCHANGED <<account, home, token, call, said, unsure, acts>>

\* logout
SignOut(t) ==
    /\ tab[t].page = "app" /\ tab[t].user # NoOne
    /\ Act
    /\ token' = [token EXCEPT ![home[t]] = NoOne]
    /\ tab' = [tab EXCEPT ![t] = Gate([@ EXCEPT !.user = NoOne])]
    /\ UNCHANGED <<account, home, call, said, unsure>>

------------------------------------------------------------------------------
\* Changes of accounts

\* A page sends what its buttons ask for with the token that is there.  One who
\* knows of no other call about the same people may rely on the answer.
Send(t, c) ==
    LET d == [c EXCEPT !.by = token[home[t]], !.shown = tab[t].user, !.stage = "sent", !.heard = TRUE]
        others == UNION {About(call[s]) : s \in {s \in Tabs : call[s].kind # "none"}}
    IN
    /\ tab[t].page = "app" /\ tab[t].user # NoOne /\ call[t].kind = "none"
    /\ Act
    /\ call' = [call EXCEPT ![t] = d]
    /\ unsure' = unsure \cup (IF tab[t].mixed THEN About(d) ELSE About(d) \cap others)
    /\ UNCHANGED <<account, home, token, tab, said>>

\* ChangePasswordModal
ChangePassword(t, entered) ==
    Send(t, [NoCall EXCEPT !.kind = "change", !.entered = entered, !.word = acts + 1])

\* handlePasswordReset
ResetPassword(t, u) ==
    /\ tab[t].role = "admin"
    /\ Send(t, [NoCall EXCEPT !.kind = "reset", !.of = u, !.word = acts + 1])

\* handleRoleChange: the select of 'admin' is disabled.
ChangeRole(t, u, r) ==
    /\ tab[t].role = "admin" /\ u # Admin /\ r # account[u].role
    /\ Send(t, [NoCall EXCEPT !.kind = "role", !.of = u, !.role = r])

Moves(t, stage) == call' = [call EXCEPT ![t].stage = stage]

\* authMiddleware refuses who sends no token; isAdmin looks at the role of the
\* row, not of the token.  changePassword compares with the hash it read, and
\* writes when the new one was computed, as does resetPassword.
Handle(t) ==
    LET c == call[t] IN
    /\ c.kind # "none" /\ c.stage = "sent"
    /\ \/ /\ c.by = NoOne
          /\ Moves(t, "unknown") /\ UNCHANGED account
       \/ /\ c.by # NoOne /\ c.kind = "change"
          /\ Moves(t, IF c.entered = account[c.by].password THEN "hashing" ELSE "refused")
          /\ UNCHANGED account
       \/ /\ c.by # NoOne /\ c.kind # "change" /\ account[c.by].role # "admin"
          /\ Moves(t, "refused") /\ UNCHANGED account
       \/ /\ c.by # NoOne /\ c.kind = "reset" /\ account[c.by].role = "admin"
          /\ Moves(t, "hashing") /\ UNCHANGED account
       \/ /\ c.by # NoOne /\ c.kind = "role" /\ account[c.by].role = "admin"
          /\ Moves(t, "done")
          /\ account' = [account EXCEPT ![c.of].role = c.role]
    /\ UNCHANGED <<home, token, tab, said, unsure, acts>>

\* Mutant: both routes write the row of the one who calls.
RowOfCaller(c) == c.by

\* Whose row is written: one's own is the row of the token.
Row(c) == IF c.kind = "change" THEN c.by ELSE c.of

Write(t) ==
    LET c == call[t] IN
    /\ c.kind # "none" /\ c.stage = "hashing"
    /\ account' = [account EXCEPT ![Row(c)].password = c.word]
    /\ Moves(t, "done")
    /\ UNCHANGED <<home, token, tab, said, unsure, acts>>

\* The success is shown to the one who pressed the button.
Answered(t) ==
    LET c == call[t] IN
    /\ c.heard /\ c.stage \in {"done", "refused"}
    /\ call' = [call EXCEPT ![t] = NoCall]
    /\ said' = IF c.stage = "done" /\ c.kind # "role"
                  THEN [said EXCEPT ![IF c.kind = "change" THEN c.shown ELSE c.of] = c.word]
                  ELSE said
    /\ UNCHANGED <<account, home, token, tab, unsure, acts>>

\* The interceptor of api.js: a 401 removes the token that is there by then, and
\* the sign-in is loaded.
TurnedAway(t) ==
    /\ call[t].heard /\ call[t].stage = "unknown"
    /\ token' = [token EXCEPT ![home[t]] = NoOne]
    /\ tab' = [tab EXCEPT ![t] = Opened(NoOne, "login")]
    /\ call' = [call EXCEPT ![t] = NoCall]
    /\ UNCHANGED <<account, home, said, unsure, acts>>

\* The browser gives the call up; the server does not.
Lost(t) ==
    /\ call[t].heard
    /\ call' = [call EXCEPT ![t].heard = FALSE]
    /\ unsure' = unsure \cup About(call[t])
    /\ UNCHANGED <<account, home, token, tab, said, acts>>

\* A call nobody listens to is over.
Over(t) ==
    /\ call[t].kind # "none" /\ ~call[t].heard
    /\ call[t].stage \in {"done", "refused", "unknown"}
    /\ call' = [call EXCEPT ![t] = NoCall]
    /\ UNCHANGED <<account, home, token, tab, said, unsure, acts>>

Next == \E t \in Tabs :
    \/ \E p \in {"login", "app"} : Load(t, p)
    \/ CheckAnswered(t) \/ CheckFailed(t)
    \/ \E u \in Users : SignIn(t, u, said[u])
    \/ SignInAnswered(t) \/ SignInFails(t) \/ SignOut(t)
    \/ \E u \in Users : ChangePassword(t, said[u]) \/ ResetPassword(t, u)
    \/ \E u \in Users, r \in Offered : ChangeRole(t, u, r)
    \/ Handle(t) \/ Write(t)
    \/ Answered(t) \/ TurnedAway(t) \/ Lost(t) \/ Over(t)

Spec == Init /\ [][Next]_vars

------------------------------------------------------------------------------
\* Properties

\* The server takes what a tab sends as coming from the user it shows (or refuses
\* it), unless somebody signed in elsewhere in the browser, or while the tab was
\* still asking who its token belongs to.
ShownIsOwner ==
    \A t \in Tabs : tab[t].user # NoOne
        => tab[t].mixed \/ token[home[t]] \in {tab[t].user, NoOne}

\* The password a person was told last opens the account, as long as the answers
\* about it came, no two calls about it overlapped, and none was sent from a tab
\* that had been signed in elsewhere: equal temporary passwords, lost tokens and
\* roles taken away in between do not change that.
PasswordAsTold ==
    \A u \in Users :
        \/ u \in unsure
        \/ \E t \in Tabs : u \in About(call[t])
        \/ account[u].password = said[u]

\* Without the exceptions: changePassword overwrites what was reset meanwhile.
ToldOpens ==
    \A u \in Users : (\A t \in Tabs : call[t].kind = "none") => account[u].password = said[u]

\* The tabs of one browser show the owner of its token.
OneUserPerBrowser ==
    \A t \in Tabs : tab[t].user # NoOne => token[home[t]] \in {tab[t].user, NoOne}
=============================================================================
