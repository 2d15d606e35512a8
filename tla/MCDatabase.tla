----------------------------- MODULE MCDatabase -----------------------------
(***************************************************************************)
(* What is done to lab.db from outside the services, in one run: starts,   *)
(* migrations and rebuilds of its tables (Schema), and the records brought *)
(* over from the program used before (Import).  The one is about tables    *)
(* and columns, the other about rows, in tables that are complete; neither *)
(* reads a variable of the other, and the run looks at the behaviours in   *)
(* which one of them moves.                                                *)
(***************************************************************************)
EXTENDS Schema, Naturals

CONSTANTS
    People, OldTests, OldCerts, Bills, NoBill,
    MaxRuns,    \* bound: runs of the import
    MaxEdits    \* bound: what is done in the old program

ASSUME LegacyAssumption ==
    /\ OldTests \cap OldCerts = {} /\ "none" \notin OldTests \cup OldCerts
    /\ MaxRuns \in Nat /\ MaxEdits \in Nat

VARIABLES old, lab, run, work, runs, edits, moves

rows == <<old, lab, run, work, runs, edits>>

Legacy == INSTANCE Import WITH Tests <- OldTests, Certs <- OldCerts

DatabaseInit ==
    /\ Init /\ Legacy!Init
    /\ moves \in {"tables", "rows"}
    /\ moves = "rows" => schema = Older({})

DatabaseNext ==
    \/ moves = "tables" /\ Next /\ UNCHANGED <<rows, moves>>
    \/ moves = "rows" /\ Legacy!Next /\ UNCHANGED <<vars, moves>>

DatabaseSpec == DatabaseInit /\ [][DatabaseNext]_<<vars, rows, moves>>

\* A document that came over is there once and whole (Import).
ImportedWhole == Legacy!ImportedWhole
=============================================================================
