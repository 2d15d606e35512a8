------------------------------- MODULE MCPages -------------------------------
(***************************************************************************)
(* Two parts of the front end in one run: the sessions with the accounts,  *)
(* and the page of readings.  Neither reads a variable of the other, so    *)
(* that whatever one of them can do, it can do while the other rests: the  *)
(* run looks at the behaviours in which one of them moves.                 *)
(***************************************************************************)
EXTENDS Accounts, TLC

CONSTANTS Tests, Gold, NoTest, Rows,
    MaxEntries  \* bound: what people do on the page of readings

ASSUME ReadingsAssumption == NoTest \notin Tests /\ MaxEntries \in Nat

VARIABLES stored, closed, logged, page, lists, details, wire, typed, written, entries, moves

reading == <<stored, closed, logged, page, lists, details, wire, typed, written, entries>>

Readings == INSTANCE ItemPage WITH acts <- entries, MaxActs <- MaxEntries

\* Sessions that rest: nobody has signed in, and all tabs are of one browser.
Resting ==
    /\ token = [b \in Browsers |-> NoOne]
    /\ \E b \in Browsers : home = [t \in Tabs |-> b]

PagesInit ==
    /\ Init /\ Readings!Init
    /\ moves \in {"sessions", "readings"}
    /\ moves = "readings" => Resting

PagesNext ==
    \/ moves = "sessions" /\ Next /\ UNCHANGED <<reading, moves>>
    \/ moves = "readings" /\ Readings!Next /\ UNCHANGED <<vars, moves>>

PagesSpec == PagesInit /\ [][PagesNext]_<<vars, reading, moves>>

\* Tabs and browsers differ in nothing.
Symmetry == Permutations(Tabs) \cup Permutations(Browsers)

\* A draft that is reported as saved is in the tables (ItemPage).
ToldIsSaved == Readings!ToldIsSaved

\* A reading that was entered is kept until it is stored (ItemPage).
TypedKept == Readings!TypedKept
=============================================================================
