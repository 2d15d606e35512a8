------------------------------- MODULE Backup -------------------------------
(***************************************************************************)
(* The backups of the database and the lock they set: createBackup of      *)
(* scripts/backup.js, run by the server at half past nine every evening    *)
(* ("cron") and for POST /api/audit/backup ("route"), and by the manager   *)
(* or by hand as a process of its own ("manual"); and the middleware that  *)
(* refuses every write while the lock is set.  Between two awaits of a run *)
(* the other runs, the requests and a crash may come.                      *)
(***************************************************************************)
EXTENDS Integers

CONSTANTS
    Requests,   \* writing requests
    Sealing,    \* BACKUP_ENCRYPTION_KEY is set
    MaxFaults   \* bound of the runs: writes and files that fail, crashes

ASSUME BackupAssumption == Sealing \in BOOLEAN /\ MaxFaults \in Nat

VARIABLES
    lock,       \* globals.BACKUP_IN_PROGRESS = '1'
    wal,        \* the WAL holds commits that lab.db itself lacks
    run,        \* the executions of createBackup
    files,      \* what earlier executions left in the backup directory
    request,    \* requests: "idle", "admitted", "slipped" (the check of the lock failed)
    backend,    \* the server runs
    reported,   \* for a property: the success of some backup was mailed and logged
    faults      \* so far, for the bound

vars == <<lock, wal, run, files, request, backend, reported, faults>>

Owners == {"cron", "route", "manual"}

\* The runs that are in the process of the server.
Served == {"cron", "route"}

\* "lock": the snapshot is being made; "seal": it is being encrypted; "tell": the
\* report is under way; "failed": on the way to the copy; "copied": the copy is
\* being encrypted; "over": the lock is to be released.
Stage == {"idle", "lock", "seal", "tell", "failed", "copied", "over"}

\* plain and sealed: the two files of a run.  missed: lab.db lacks something that
\* had been committed when the run began; short: so does the file.  told: "copy",
\* the line that the copy is completed; "success" and "failure", the mail and the
\* entry in the history.  mixed, for a property: the run was beside another one,
\* or its lock was not written.
Run == [st : Stage, plain : {"none", "part", "whole"}, sealed : {"none", "part", "whole"},
        missed : BOOLEAN, short : BOOLEAN, told : {"nothing", "copy", "success", "failure"},
        mixed : BOOLEAN]

Idle == [st |-> "idle", plain |-> "none", sealed |-> "none",
         missed |-> FALSE, short |-> FALSE, told |-> "nothing", mixed |-> FALSE]

\* told: its success was mailed and logged.
File == [is : {"part", "whole"}, short : BOOLEAN, told : BOOLEAN, old : BOOLEAN]

TypeOK ==
    /\ lock \in BOOLEAN /\ wal \in BOOLEAN
    /\ run \in [Owners -> Run]
    /\ \A r \in Owners : run[r].st = "idle" => run[r] = Idle
    /\ files \subseteq File
    /\ request \in [Requests -> {"idle", "admitted", "slipped"}]
    /\ backend \in BOOLEAN /\ reported \in BOOLEAN
    /\ faults \in 0..MaxFaults

Init ==
    /\ lock = FALSE /\ wal = FALSE
    /\ run = [r \in Owners |-> Idle]
    /\ files = {}
    /\ request = [q \in Requests |-> "idle"]
    /\ backend = TRUE /\ reported = FALSE
    /\ faults = 0

Fault   == faults < MaxFaults /\ faults' = faults + 1
Busy(r) == run[r].st # "idle"

\* The files a run leaves behind.
Left(r) == {[is |-> x, short |-> run[r].short, told |-> run[r].told = "success", old |-> FALSE] :
              x \in {run[r].plain, run[r].sealed} \ {"none"}}

\* The runs of R are over, whether they came to their end or died.
Ends(R) ==
    /\ files' = files \cup UNION {Left(r) : r \in R}
    /\ run' = [r \in Owners |-> IF r \in R THEN Idle ELSE run[r]]

------------------------------------------------------------------------------
\* Requests

\* Mutant: the lock is not looked at.
AdmitAlways(q) ==
    /\ backend /\ request[q] = "idle"
    /\ request' = [request EXCEPT ![q] = "admitted"]
    /\ UNCHANGED <<lock, wal, run, files, backend, reported, faults>>

\* maintenanceMiddleware: a request that writes is let in while the lock is off,
\* and whenever the lock cannot be read but for an SQLITE_BUSY.
Admit(q) ==
    /\ backend /\ request[q] = "idle"
    /\ \/ /\ ~lock
          /\ request' = [request EXCEPT ![q] = "admitted"]
          /\ UNCHANGED faults
       \/ /\ Fault
          /\ request' = [request EXCEPT ![q] = "slipped"]
    /\ UNCHANGED <<lock, wal, run, files, backend, reported>>

\* Its transaction commits later: a lock set meanwhile does not stop it.
Commit(q) ==
    /\ request[q] # "idle"
    /\ wal' = TRUE
    /\ request' = [request EXCEPT ![q] = "idle"]
    /\ UNCHANGED <<lock, run, files, backend, reported, faults>>

\* SQLite moves what is in the WAL to the main file.
Checkpoint ==
    /\ wal
    /\ wal' = FALSE
    /\ run' = [r \in Owners |-> IF Busy(r) THEN [run[r] EXCEPT !.missed = FALSE] ELSE run[r]]
    /\ UNCHANGED <<lock, files, request, backend, reported, faults>>

------------------------------------------------------------------------------
\* createBackup

\* Mutant: a backup does not start while the lock is set.
BeginUnlessLocked(r) ==
    /\ ~Busy(r) /\ ~lock
    /\ r = "manual" \/ backend
    /\ run' = [run EXCEPT ![r] = [Idle EXCEPT !.st = "lock", !.plain = "part", !.missed = wal]]
    /\ lock' = TRUE /\ wal' = TRUE
    /\ UNCHANGED <<files, request, backend, reported, faults>>

\* The request for a run is a POST, that the middleware refuses while the lock is
\* set, unless it cannot read it.
Passes(r) ==
    \/ (r = "route" => ~lock) /\ UNCHANGED faults
    \/ r = "route" /\ lock /\ Fault

\* The lock is set (which is a commit itself); if that fails, the copy is next.
Begin(r) ==
    /\ ~Busy(r)
    /\ r = "manual" \/ backend
    /\ LET beside == \E x \in Owners \ {r} : Busy(x)
           begun(st, p, m) ==
               [x \in Owners |->
                  IF x = r THEN [Idle EXCEPT !.st = st, !.plain = p, !.missed = wal, !.mixed = m]
                  ELSE IF Busy(x) THEN [run[x] EXCEPT !.mixed = TRUE] ELSE run[x]]
       IN \/ /\ run' = begun("lock", "part", beside)
             /\ lock' = TRUE /\ wal' = TRUE
             /\ Passes(r)
          \/ /\ Fault
             /\ run' = begun("failed", "none", TRUE)
             /\ UNCHANGED <<lock, wal>>
    /\ UNCHANGED <<files, request, backend, reported>>

\* db.backup resolves with the database as it is then, WAL and all; the time
\* of the backup is written.  Any failure leads to the copy.
Snapshot(r) ==
    /\ run[r].st = "lock"
    /\ \/ /\ run' = [run EXCEPT ![r] = [@ EXCEPT !.st = IF Sealing THEN "seal" ELSE "tell",
                                                 !.plain = "whole",
                                                 !.sealed = IF Sealing THEN "part" ELSE "none"]]
          /\ UNCHANGED faults
       \/ /\ Fault
          /\ \E p \in {"part", "whole"} :
               run' = [run EXCEPT ![r] = [@ EXCEPT !.st = "failed", !.plain = p]]
    /\ UNCHANGED <<lock, wal, files, request, backend, reported>>

\* encryptFile, and the plain file is removed; either may fail.
Seal(r) ==
    /\ run[r].st = "seal"
    /\ \/ /\ run' = [run EXCEPT ![r] = [@ EXCEPT !.st = "tell", !.sealed = "whole", !.plain = "none"]]
          /\ UNCHANGED faults
       \/ /\ Fault
          /\ \E s \in {"part", "whole"} :
               run' = [run EXCEPT ![r] = [@ EXCEPT !.st = "failed", !.sealed = s]]
    /\ UNCHANGED <<lock, wal, files, request, backend, reported>>

\* pruneOldBackups: whatever is older than seven days.
Pruned == {f \in files : ~f.old}

\* The mail was sent or not; the backup is logged and the old ones are pruned.
Report(r) ==
    /\ run[r].st = "tell"
    /\ run' = [run EXCEPT ![r] = [@ EXCEPT !.st = "over", !.told = "success"]]
    /\ files' = Pruned
    /\ reported' = TRUE
    /\ UNCHANGED <<lock, wal, request, backend, faults>>

\* Mutant: the copy is reported like a snapshot.
CopyAndTell(r) ==
    /\ run[r].st = "failed"
    /\ run' = [run EXCEPT ![r] = [@ EXCEPT !.st = "tell", !.plain = "whole", !.sealed = "none",
                                           !.short = run[r].missed]]
    /\ UNCHANGED <<lock, wal, files, request, backend, reported, faults>>

\* The fall back copies the main file, without the WAL, over the same name.  A
\* line says that it is completed; it is neither mailed nor in the history.  It
\* may fail in its turn, and the failure is both.
Copy(r) ==
    /\ run[r].st = "failed"
    /\ \/ /\ run' = [run EXCEPT ![r] = [@ EXCEPT !.st = IF Sealing THEN "copied" ELSE "over",
                                                 !.plain = "whole", !.short = run[r].missed,
                                                 !.sealed = IF Sealing THEN "part" ELSE "none",
                                                 !.told = "copy"]]
          /\ UNCHANGED faults
       \/ /\ Fault
          /\ \E p \in {run[r].plain, "none", "part"} :
               run' = [run EXCEPT ![r] = [@ EXCEPT !.st = "over", !.plain = p, !.told = "failure"]]
    /\ UNCHANGED <<lock, wal, files, request, backend, reported>>

\* encryptFile and the removal, of the copy.
SealCopy(r) ==
    /\ run[r].st = "copied"
    /\ \/ /\ run' = [run EXCEPT ![r] = [@ EXCEPT !.st = "over", !.sealed = "whole",
                                                 !.plain = "none"]]
          /\ UNCHANGED faults
       \/ /\ Fault
          /\ \E s \in {"part", "whole"} :
               run' = [run EXCEPT ![r] = [@ EXCEPT !.st = "over", !.sealed = s, !.told = "failure"]]
    /\ UNCHANGED <<lock, wal, files, request, backend, reported>>

\* Mutant: the old backups are pruned after a failure, too.
ReleaseAndPrune(r) ==
    /\ run[r].st = "over"
    /\ lock' = FALSE
    /\ files' = Pruned \cup Left(r)
    /\ run' = [run EXCEPT ![r] = Idle]
    /\ UNCHANGED <<wal, request, backend, reported, faults>>

\* finally: the lock is one flag, whoever set it; releasing it may fail.
Release(r) ==
    /\ run[r].st = "over"
    /\ \/ lock' = FALSE /\ wal' = TRUE /\ UNCHANGED faults
       \/ Fault /\ UNCHANGED <<lock, wal>>
    /\ Ends({r})
    /\ UNCHANGED <<request, backend, reported>>

\* Seven days pass.
Age ==
    /\ \A r \in Owners : ~Busy(r)
    /\ files' = {[f EXCEPT !.old = TRUE] : f \in files}
    /\ UNCHANGED <<lock, wal, run, request, backend, reported, faults>>

------------------------------------------------------------------------------
\* Crashes: a process leaves its files, and the lock, as they are.

BackendDies ==
    /\ backend /\ Fault
    /\ backend' = FALSE
    /\ Ends(Served)
    /\ request' = [q \in Requests |-> "idle"]
    /\ UNCHANGED <<lock, wal, reported>>

ManualDies ==
    /\ Busy("manual") /\ Fault
    /\ Ends({"manual"})
    /\ UNCHANGED <<lock, wal, request, backend, reported>>

\* initDb leaves the lock as it is.
Boot ==
    /\ ~backend /\ backend' = TRUE
    /\ UNCHANGED <<lock, wal, run, files, request, reported, faults>>

\* The operator puts a backup in the place of the database.  A snapshot was made
\* under the lock and bears it; a copy bears what lab.db held.
Restore(f) ==
    /\ ~backend /\ \A r \in Owners : ~Busy(r)
    /\ f.is = "whole" /\ Fault
    /\ lock' \in IF f.told THEN {TRUE} ELSE BOOLEAN
    /\ wal' = FALSE
    /\ UNCHANGED <<run, files, request, backend, reported>>

------------------------------------------------------------------------------
\* A run goes on by itself; the evening backup comes every day.
Continue(r) == Snapshot(r) \/ Seal(r) \/ Report(r) \/ Copy(r) \/ SealCopy(r) \/ Release(r)

Next ==
    \/ \E q \in Requests : Admit(q) \/ Commit(q)
    \/ \E r \in Owners : Begin(r) \/ Continue(r)
    \/ \E f \in files : Restore(f)
    \/ Checkpoint \/ Age \/ BackendDies \/ ManualDies \/ Boot

Fairness == WF_vars(Begin("cron")) /\ \A r \in Owners : WF_vars(Continue(r))

Spec == Init /\ [][Next]_vars /\ Fairness

------------------------------------------------------------------------------
\* Properties

\* No request finds the lock off while a backup is at work, unless it ran beside
\* another one, which clears the flag for both, or could not set the lock.  (One
\* that cannot read the lock is let in beside any: NoneSlips.)
NoneAdmitted ==
    [][\A q \in Requests, r \in Owners :
         request[q] = "idle" /\ request'[q] = "admitted" /\ Busy(r) => run[r].mixed]_vars

\* A backup whose success was mailed and logged holds all that had been committed
\* when it began, for as long as it is kept; and a run that comes to its end without
\* a mail of failure leaves a whole file, which is short only if it is a copy.
ReportedIsWhole ==
    /\ \A f \in files : f.told => f.is = "whole" /\ ~f.short
    /\ \A r \in Owners :
         run[r].st = "over" /\ run[r].told # "failure" =>
           /\ "whole" \in {run[r].plain, run[r].sealed}
           /\ run[r].short => run[r].told = "copy"

\* Once a success was mailed and logged, a whole backup is there: however many fail after it,
\* pruning the old ones never removes the last.
NeverWithout ==
    reported => \/ \E f \in files : f.told /\ f.is = "whole"
                \/ \E r \in Owners : run[r].told = "success"

\* A lock does not stay for ever on a server that runs: what a crash, a failed
\* release or a restored snapshot left is cleared by the next evening's backup.
LockReleased == [](lock => <>(~lock \/ ~backend))

\* Stated by the comment of the middleware ("If the DB check fails ... we should
\* also block"): no request gets past the lock because it cannot be read.
NoneSlips == [][\A q \in Requests, r \in Owners : request'[q] = "slipped" /\ Busy(r) => run[r].mixed]_vars

\* Stated by the line of createBackup ("Backup (Copy) completed successfully"):
\* the copy is a backup of the database, not only of its main file.
CopyIsWhole == \A r \in Owners : run[r].told = "copy" => ~run[r].short

\* Stated by the answer of POST /api/audit/backup (success: true): the run it waited
\* for left a whole backup.  The manager logs the end of its run in the same way.
AnsweredIsWhole ==
    [][\A r \in Owners :
         run[r].st = "over" /\ ~Busy(r)' /\ backend' => run[r].told = "success"]_vars

\* Stated by the answer of the middleware ("A database backup is currently
\* running. Please try again in 1-2 minutes"): the lock means that one is.
LockedMeansBackup == backend /\ lock => \E r \in Owners : Busy(r)
=============================================================================
