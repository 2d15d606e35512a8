------------------------------ MODULE MCOffice ------------------------------
(***************************************************************************)
(* Two parts of the front end that staff keep on the screen: the windows   *)
(* of the registration (Intake) and the boards of the workflow (Desk).     *)
(* Neither reads a variable of the other.  Intake has a run of its own;    *)
(* here the windows rest, and the boards move.                             *)
(***************************************************************************)
EXTENDS Intake

CONSTANTS Desks, Cards, Tests,
    Hands,      \* bound: drops of one card at a board whose timers run
    MaxActs     \* bound: what users of the boards do, and what fails

VARIABLES cards, desk, acts

Board == INSTANCE Desk WITH server <- cards

ASSUME BoardAssumption == Board!DeskAssumption

BoardSpec ==
    /\ Init /\ Board!Init
    /\ [][Board!Next /\ UNCHANGED vars]_<<vars, Board!vars>>

\* A board at rest shows the server's statuses (Desk).
BoardsSettle == Board!BoardsSettle

\* Readings are replaced by what is entered only (Desk).
ReadingsKept == Board!ReadingsKept
=============================================================================
