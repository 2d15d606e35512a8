------------------------------- MODULE MCHost -------------------------------
(***************************************************************************)
(* What keeps the machine of the laboratory going: the backup of its       *)
(* database (Backup) and the manager of its processes (Manager).  Neither  *)
(* reads a variable of the other.  Backup has a run of its own; here no    *)
(* backup is due, and the manager is at work.                              *)
(***************************************************************************)
EXTENDS Backup

CONSTANTS IPs, Slots, None,
    MaxActs     \* bound: presses, moves of the address, crashes

VARIABLES svc, ip, seen, up, dev, acts

Procs == INSTANCE Manager

ASSUME ProcsAssumption == Procs!ManagerAssumption

ManagerSpec ==
    /\ Init /\ Procs!Init
    /\ [][Procs!Next /\ UNCHANGED vars]_<<vars, Procs!vars>>
    /\ WF_<<vars, Procs!vars>>(Procs!Progress /\ UNCHANGED vars)

\* Every process that was spawned is within the manager's reach (Manager).
NoStrays == Procs!NoStrays

\* The last button that was pressed prevails (Manager).
LastPressPrevails == Procs!LastPressPrevails

\* The servers follow the address of the machine (Manager).
AddressFollowed == Procs!AddressFollowed
=============================================================================
