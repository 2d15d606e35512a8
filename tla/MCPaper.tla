------------------------------- MODULE MCPaper -------------------------------
(***************************************************************************)
(* A certificate with its items (CertItems) and the papers it is printed   *)
(* on (Printing), where a row is only counted as changed: neither module   *)
(* reads a variable of the other.  Printing has a run of its own; here     *)
(* nothing is printed, and the items of one certificate are worked on.     *)
(***************************************************************************)
EXTENDS Printing, Sequences

CONSTANTS
    Grosses, TestWeights, Purities, Rates,
    MaxRows,    \* bound: item rows of the certificate
    MaxFaults   \* bound: requests of the results window that are lost

VARIABLES cert, rows, said, dragged, window, faults

Items == INSTANCE CertItems WITH Tests <- TestWeights

ASSUME ItemsAssumption == Items!CertItemsAssumption

ItemsSpec ==
    /\ Init /\ Items!Init
    /\ [][Items!Next /\ UNCHANGED vars]_<<vars, Items!vars>>

\* The totals of a certificate are sums over the items it has left (CertItems).
TotalsAreSums == Items!TotalsAreSums

\* No item number is given twice (CertItems).
NumberedOnce == Items!NumberedOnce

\* The results window moves no photo certificate on without its photos (CertItems).
WindowNeverStrands == Items!WindowNeverStrands
=============================================================================
