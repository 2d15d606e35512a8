---------------------------- MODULE Backup_proofs ----------------------------
(* Theorems about Backup: what was reported is whole and stays, and the lock *)
(* keeps the requests out, whatever fails or dies in between; and about      *)
(* Manager: no process it spawned is out of its reach.                       *)
EXTENDS MCHost, TLAPS

USE BackupAssumption

\* A run by its stage: what it holds, and what it may claim.
RunOK(x) ==
    /\ x.told = "success" => x.st = "over"
    /\ x.st \in {"lock", "seal", "tell"} \/ x.told \in {"nothing", "success"} => ~x.short
    /\ x.st = "tell" \/ x.told = "success" => {x.plain, x.sealed} = {"whole", "none"}
    /\ x.st = "over" => x.told # "nothing"
    /\ x.st = "copied" => x.told = "copy"
    /\ x.told = "copy" /\ x.st # "copied" => x.st = "over" /\ "whole" \in {x.plain, x.sealed}

\* The flag is set as long as a run that set it and ran alone is at work.
LockOK(r) ==
    Busy(r) => /\ run[r].mixed \/ lock
               /\ \A x \in Owners \ {r} : Busy(x) => run[r].mixed

FilesOK == \A f \in files : f.told => f.is = "whole" /\ ~f.short

BackupInv ==
    /\ TypeOK
    /\ \A r \in Owners : RunOK(run[r]) /\ LockOK(r)
    /\ FilesOK
    /\ NeverWithout

------------------------------------------------------------------------------
\* Types

LEMMA LeftType ==
    ASSUME TypeOK, NEW r \in Owners
    PROVE  Left(r) \subseteq File
<1>1. /\ {run[r].plain, run[r].sealed} \ {"none"} \subseteq {"part", "whole"}
      /\ run[r].short \in BOOLEAN /\ (run[r].told = "success") \in BOOLEAN
  BY DEF TypeOK, Run
<1>2. \A x \in {"part", "whole"} :
        [is |-> x, short |-> run[r].short, told |-> run[r].told = "success", old |-> FALSE] \in File
  BY <1>1 DEF File
<1> QED BY <1>1, <1>2 DEF Left

LEMMA IdleType == Idle \in Run /\ RunOK(Idle) /\ Idle.told # "success"
BY DEF Idle, Run, Stage, RunOK

\* What a run that reported its backup leaves behind is that backup; nothing else
\* that is left claims to be one.
LEMMA LeftOK ==
    ASSUME TypeOK, NEW r \in Owners, RunOK(run[r])
    PROVE  /\ \A f \in Left(r) : f.told => f.is = "whole" /\ ~f.short
           /\ run[r].told = "success" => \E f \in Left(r) : f.told /\ f.is = "whole"
<1>1. \A f \in Left(r) : f.told => f.is = "whole" /\ ~f.short
  <2> SUFFICES ASSUME NEW f \in Left(r), f.told
               PROVE  f.is = "whole" /\ ~f.short
    OBVIOUS
  <2>1. PICK x \in {run[r].plain, run[r].sealed} \ {"none"} :
          f = [is |-> x, short |-> run[r].short, told |-> run[r].told = "success", old |-> FALSE]
    BY DEF Left
  <2>2. run[r].told = "success"
    BY <2>1
  <2> QED BY <2>1, <2>2 DEF RunOK
<1>2. ASSUME run[r].told = "success"
      PROVE  \E f \in Left(r) : f.told /\ f.is = "whole"
  <2>1. "whole" \in {run[r].plain, run[r].sealed} \ {"none"}
    BY <1>2 DEF RunOK
  <2> DEFINE f == [is |-> "whole", short |-> run[r].short, told |-> run[r].told = "success", old |-> FALSE]
  <2>2. f \in Left(r)
    BY <2>1 DEF Left
  <2>3. f.told /\ f.is = "whole"
    BY <1>2
  <2> QED BY <2>2, <2>3
<1> QED BY <1>1, <1>2

LEMMA InitInv == Init => BackupInv
<1> SUFFICES ASSUME Init PROVE BackupInv
  OBVIOUS
<1>1. lock \in BOOLEAN /\ wal \in BOOLEAN /\ backend \in BOOLEAN /\ reported \in BOOLEAN
  BY Zenon DEF Init
<1>2. \A r \in Owners : run[r] = Idle
  BY DEF Init
<1>3. TypeOK
  BY <1>1, <1>2, IdleType DEF Init, TypeOK
<1>4. \A r \in Owners : ~Busy(r)
  BY <1>2 DEF Busy, Idle
<1> QED BY <1>2, <1>3, <1>4, IdleType DEF Init, BackupInv, LockOK, FilesOK, NeverWithout

\* A fault is counted up to the bound.
LEMMA FaultType ==
    ASSUME TypeOK, Fault \/ UNCHANGED faults
    PROVE  faults' \in 0..MaxFaults
BY DEF TypeOK, Fault

------------------------------------------------------------------------------
\* Steps

\* A run at work goes on, claiming no more than it holds.
LEMMA OneRun ==
    ASSUME BackupInv, NEW r \in Owners, Busy(r), NEW new \in Run, new.st # "idle",
           RunOK(new), new.mixed = run[r].mixed, run[r].told = "success" => new.told = "success",
           run' = [run EXCEPT ![r] = new],
           UNCHANGED <<lock, wal, files, request, backend, reported>>,
           Fault \/ UNCHANGED faults
    PROVE  BackupInv'
<1>0. TypeOK
  BY DEF BackupInv
<1>1. /\ run'[r] = new
      /\ \A x \in Owners : x # r => run'[x] = run[x]
      /\ run' \in [Owners -> Run]
  BY <1>0 DEF TypeOK
<1>2. TypeOK'
  BY <1>0, <1>1, FaultType DEF TypeOK
<1>3. \A x \in Owners : Busy(x)' <=> Busy(x)
  BY <1>1 DEF Busy
<1>4. \A x \in Owners : RunOK(run'[x]) /\ LockOK(x)'
  BY <1>1, <1>3 DEF BackupInv, LockOK
<1>5. NeverWithout'
  BY <1>1 DEF BackupInv, NeverWithout
<1>6. FilesOK'
  BY DEF BackupInv, FilesOK
<1> QED BY <1>2, <1>4, <1>5, <1>6 DEF BackupInv

\* Runs come to their end, or die: their files stay, and the flag may go.
LEMMA RunEnds ==
    ASSUME BackupInv, NEW R \in SUBSET Owners, Ends(R),
           lock' \in BOOLEAN, wal' \in BOOLEAN, backend' \in BOOLEAN,
           lock' = lock \/ \E r \in R : Busy(r), UNCHANGED reported,
           request' \in [Requests -> {"idle", "admitted", "slipped"}],
           Fault \/ UNCHANGED faults
    PROVE  BackupInv'
<1>0. TypeOK
  BY DEF BackupInv
<1>1. /\ \A x \in R : run'[x] = Idle
      /\ \A x \in Owners \ R : run'[x] = run[x]
      /\ run' \in [Owners -> Run]
  BY <1>0, IdleType DEF TypeOK, Ends
<1>2. files' = files \cup UNION {Left(x) : x \in R}
  BY DEF Ends
<1>3. TypeOK'
  <2>1. faults' \in 0..MaxFaults
    BY <1>0, FaultType
  <2>2. files' \subseteq File
    BY <1>0, <1>2, LeftType DEF TypeOK
  <2>3. reported' \in BOOLEAN
    BY <1>0 DEF TypeOK
  <2> QED BY <1>0, <1>1, <2>1, <2>2, <2>3 DEF TypeOK
<1>4. /\ \A x \in R : ~Busy(x)'
      /\ \A x \in Owners \ R : Busy(x)' <=> Busy(x)
  BY <1>1 DEF Busy, Idle
<1>5. \A x \in Owners : RunOK(run'[x])
  BY <1>1, IdleType DEF BackupInv
<1>6. ASSUME NEW x \in Owners
      PROVE  LockOK(x)'
  <2>1. CASE x \in R
    BY <1>4, <2>1 DEF LockOK
  <2>2. CASE x \notin R
    <3>1. CASE lock' = lock
      BY <1>1, <1>4, <2>2, <3>1 DEF BackupInv, LockOK
    <3>2. CASE \E r \in R : Busy(r)
      BY <1>1, <1>4, <2>2, <3>2 DEF BackupInv, LockOK
    <3> QED BY <3>1, <3>2
  <2> QED BY <2>1, <2>2
<1>7. \A x \in R : /\ \A f \in Left(x) : f.told => f.is = "whole" /\ ~f.short
                   /\ run[x].told = "success" => \E f \in Left(x) : f.told /\ f.is = "whole"
  BY <1>0, LeftOK DEF BackupInv
<1>8. FilesOK'
  BY <1>2, <1>7 DEF BackupInv, FilesOK
<1>9. NeverWithout'
  <2>1. ASSUME NEW x \in Owners, run[x].told = "success"
        PROVE  NeverWithout'
    <3>1. CASE x \in R
      BY <1>2, <1>7, <2>1, <3>1 DEF NeverWithout
    <3>2. CASE x \notin R
      BY <1>1, <2>1, <3>2 DEF NeverWithout
    <3> QED BY <3>1, <3>2
  <2>2. CASE \E f \in files : f.told /\ f.is = "whole"
    BY <1>2, <2>2 DEF NeverWithout
  <2> QED BY <2>1, <2>2 DEF BackupInv, NeverWithout
<1> QED BY <1>3, <1>5, <1>6, <1>8, <1>9 DEF BackupInv

\* Nothing happens to the runs and to what was left.
LEMMA SameRuns ==
    ASSUME BackupInv, TypeOK', UNCHANGED <<lock, run, files, reported>>
    PROVE  BackupInv'
<1>1. \A x \in Owners : Busy(x)' <=> Busy(x)
  BY DEF Busy
<1> QED BY <1>1 DEF BackupInv, LockOK, FilesOK, NeverWithout

LEMMA BeginInv ==
    ASSUME BackupInv, NEW r \in Owners, Begin(r)
    PROVE  BackupInv'
<1> DEFINE beside == \E x \in Owners \ {r} : Busy(x)
<1>0. TypeOK /\ ~Busy(r)
  BY Zenon DEF BackupInv, Begin
<1>1. PICK st \in {"lock", "failed"}, p \in {"none", "part"}, m \in BOOLEAN :
        /\ run' = [x \in Owners |->
                     IF x = r THEN [Idle EXCEPT !.st = st, !.plain = p, !.missed = wal,
                                                !.mixed = m]
                     ELSE IF Busy(x) THEN [run[x] EXCEPT !.mixed = TRUE] ELSE run[x]]
        /\ beside => m
        /\ m \/ lock'
        /\ lock' \in BOOLEAN /\ wal' \in BOOLEAN
        /\ lock => lock'
        /\ Fault \/ UNCHANGED faults
  <2> DEFINE begun(st, p, m) ==
               [x \in Owners |->
                  IF x = r THEN [Idle EXCEPT !.st = st, !.plain = p, !.missed = wal, !.mixed = m]
                  ELSE IF Busy(x) THEN [run[x] EXCEPT !.mixed = TRUE] ELSE run[x]]
  <2>1. CASE run' = begun("lock", "part", beside) /\ lock' = TRUE /\ wal' = TRUE
             /\ (Fault \/ UNCHANGED faults)
    <3>1. PICK m \in BOOLEAN : m = beside
      BY Zenon
    <3>2. (beside => m) /\ run' = begun("lock", "part", m)
      BY <2>1, <3>1, Zenon
    <3> HIDE DEF beside, begun
    <3>3. lock' /\ lock' \in BOOLEAN /\ wal' \in BOOLEAN
      BY <2>1, Zenon
    <3>4. "lock" \in {"lock", "failed"} /\ "part" \in {"none", "part"}
      OBVIOUS
    <3> QED BY <2>1, <3>2, <3>3, <3>4, Zenon DEF begun
  <2>2. CASE Fault /\ run' = begun("failed", "none", TRUE) /\ UNCHANGED <<lock, wal>>
    BY <1>0, <2>2, Zenon DEF TypeOK
  <2>3. Passes(r) => Fault \/ UNCHANGED faults
    BY DEF Passes
  <2> QED BY <2>1, <2>2, <2>3, Zenon DEF Begin
<1>2. /\ run'[r] = [Idle EXCEPT !.st = st, !.plain = p, !.missed = wal, !.mixed = m]
      /\ \A x \in Owners : x # r => run'[x] = IF Busy(x) THEN [run[x] EXCEPT !.mixed = TRUE]
                                                 ELSE run[x]
  BY <1>1
<1>3. /\ run'[r] \in Run /\ RunOK(run'[r]) /\ Busy(r)' /\ run'[r].mixed = m
  BY <1>0, <1>2 DEF Idle, Run, Stage, RunOK, Busy, TypeOK
<1>4. ASSUME NEW x \in Owners, x # r
      PROVE  /\ run'[x] \in Run /\ RunOK(run'[x])
             /\ Busy(x)' <=> Busy(x)
             /\ ~Busy(x) => run'[x] = Idle
             /\ Busy(x) => run'[x].mixed
             /\ run'[x].told = run[x].told
  <2>1. run[x] \in Run /\ RunOK(run[x])
    BY <1>0 DEF TypeOK, BackupInv
  <2>2. CASE Busy(x)
    <3>1. run'[x] = [run[x] EXCEPT !.mixed = TRUE]
      BY <1>2, <1>4, <2>2
    <3> QED BY <2>1, <2>2, <3>1 DEF Run, RunOK, Busy
  <2>3. CASE ~Busy(x)
    <3>1. run'[x] = run[x] /\ run[x] = Idle
      BY <1>0, <1>2, <1>4, <2>3 DEF TypeOK, Busy
    <3> QED BY <2>1, <2>3, <3>1 DEF Busy
  <2> QED BY <2>2, <2>3
<1>5. TypeOK'
  <2>1. run' \in [Owners -> Run]
    BY <1>1, <1>3, <1>4
  <2>2. \A x \in Owners : run'[x].st = "idle" => run'[x] = Idle
    BY <1>3, <1>4 DEF Busy
  <2>3. faults' \in 0..MaxFaults
    BY <1>0, <1>1, FaultType
  <2>4. UNCHANGED <<files, request, backend, reported>>
    BY Zenon DEF Begin
  <2> QED BY <1>0, <1>1, <2>1, <2>2, <2>3, <2>4 DEF TypeOK
<1>6. ASSUME NEW x \in Owners
      PROVE  LockOK(x)'
  <2>1. CASE x = r
    BY <1>1, <1>3, <1>4, <2>1 DEF LockOK
  <2>2. CASE x # r
    BY <1>4, <2>2 DEF LockOK
  <2> QED BY <2>1, <2>2
<1>7. \A x \in Owners : RunOK(run'[x])
  BY <1>3, <1>4
<1>8. UNCHANGED <<files, reported>>
  BY Zenon DEF Begin
<1>9. FilesOK'
  BY <1>8 DEF BackupInv, FilesOK
<1>10. NeverWithout'
  <2>1. run[r].told # "success"
    BY <1>0, IdleType DEF TypeOK, Busy
  <2> QED BY <1>4, <1>8, <2>1 DEF BackupInv, NeverWithout
<1> QED BY <1>5, <1>6, <1>7, <1>9, <1>10 DEF BackupInv

\* Up to its end, a run only changes its own record.
LEMMA WorkInv ==
    ASSUME BackupInv, NEW r \in Owners, Snapshot(r) \/ Seal(r) \/ Copy(r) \/ SealCopy(r)
    PROVE  BackupInv'
<1>0. run[r] \in Run /\ RunOK(run[r])
  BY DEF BackupInv, TypeOK
<1>1. /\ run[r].st \in {"lock", "seal", "failed", "copied"}
      /\ Busy(r) /\ run[r].told # "success"
      /\ run[r].st \in {"lock", "seal"} => ~run[r].short
  BY <1>0 DEF Snapshot, Seal, Copy, SealCopy, Busy, RunOK
<1>2. ASSUME NEW new \in Run, new.st # "idle", RunOK(new), new.mixed = run[r].mixed,
             run' = [run EXCEPT ![r] = new], Fault \/ UNCHANGED faults
      PROVE  BackupInv'
  <2>1. UNCHANGED <<lock, wal, files, request, backend, reported>>
    BY DEF Snapshot, Seal, Copy, SealCopy
  <2> QED BY <1>1, <1>2, <2>1, OneRun
<1>3. CASE Snapshot(r)
  <2>0. run[r].st = "lock"
    BY <1>3 DEF Snapshot
  <2>1. ASSUME NEW p \in {"part", "whole"}, Fault,
               run' = [run EXCEPT ![r] = [@ EXCEPT !.st = "failed", !.plain = p]]
        PROVE  BackupInv'
    <3> DEFINE new == [run[r] EXCEPT !.st = "failed", !.plain = p]
    <3>1. new \in Run /\ new.st # "idle" /\ RunOK(new) /\ new.mixed = run[r].mixed
      BY <1>0, <1>1, <2>0 DEF Run, Stage, RunOK
    <3> QED BY <1>2, <2>1, <3>1
  <2>2. ASSUME NEW st \in {"seal", "tell"}, NEW s \in {"part", "none"},
               st = "tell" => s = "none", UNCHANGED faults, run[r].st = "lock",
               run' = [run EXCEPT ![r] = [@ EXCEPT !.st = st, !.plain = "whole", !.sealed = s]]
        PROVE  BackupInv'
    <3> DEFINE new == [run[r] EXCEPT !.st = st, !.plain = "whole", !.sealed = s]
    <3>1. new \in Run /\ new.st # "idle" /\ RunOK(new) /\ new.mixed = run[r].mixed
      BY <1>0, <1>1, <2>2 DEF Run, Stage, RunOK
    <3> QED BY <1>2, <2>2, <3>1
  <2>3. CASE Sealing
    BY <1>3, <2>1, <2>2, <2>3 DEF Snapshot
  <2>4. CASE ~Sealing
    BY <1>3, <2>1, <2>2, <2>4 DEF Snapshot
  <2> QED BY <2>3, <2>4
<1>4. CASE Seal(r)
  <2>0. run[r].st = "seal"
    BY <1>4 DEF Seal
  <2>1. CASE UNCHANGED faults /\ run' = [run EXCEPT ![r] =
               [@ EXCEPT !.st = "tell", !.sealed = "whole", !.plain = "none"]]
    <3> DEFINE new == [run[r] EXCEPT !.st = "tell", !.sealed = "whole", !.plain = "none"]
    <3>1. new \in Run /\ new.st # "idle" /\ RunOK(new) /\ new.mixed = run[r].mixed
      BY <1>0, <1>1, <2>0 DEF Run, Stage, RunOK
    <3> QED BY <1>2, <2>1, <3>1
  <2>2. ASSUME NEW x \in {"part", "whole"}, Fault,
               run' = [run EXCEPT ![r] = [@ EXCEPT !.st = "failed", !.sealed = x]]
        PROVE  BackupInv'
    <3> DEFINE new == [run[r] EXCEPT !.st = "failed", !.sealed = x]
    <3>1. new \in Run /\ new.st # "idle" /\ RunOK(new) /\ new.mixed = run[r].mixed
      BY <1>0, <1>1, <2>0 DEF Run, Stage, RunOK
    <3> QED BY <1>2, <2>2, <3>1
  <2> QED BY <1>4, <2>1, <2>2 DEF Seal
<1>5. CASE Copy(r)
  <2>0. run[r].st = "failed"
    BY <1>5 DEF Copy
  <2>1. ASSUME NEW st \in {"copied", "over"}, NEW x \in {"part", "none"}, UNCHANGED faults,
               run' = [run EXCEPT ![r] = [@ EXCEPT !.st = st, !.plain = "whole",
                                                   !.short = run[r].missed, !.sealed = x,
                                                   !.told = "copy"]]
        PROVE  BackupInv'
    <3> DEFINE new == [run[r] EXCEPT !.st = st, !.plain = "whole", !.short = run[r].missed,
                                     !.sealed = x, !.told = "copy"]
    <3>1. new \in Run /\ new.st # "idle" /\ RunOK(new) /\ new.mixed = run[r].mixed
      BY <1>0, <1>1, <2>0 DEF Run, Stage, RunOK
    <3> QED BY <1>2, <2>1, <3>1
  <2>2. ASSUME NEW p \in {run[r].plain, "none", "part"}, Fault,
               run' = [run EXCEPT ![r] = [@ EXCEPT !.st = "over", !.plain = p, !.told = "failure"]]
        PROVE  BackupInv'
    <3> DEFINE new == [run[r] EXCEPT !.st = "over", !.plain = p, !.told = "failure"]
    <3>1. new \in Run /\ new.st # "idle" /\ RunOK(new) /\ new.mixed = run[r].mixed
      BY <1>0, <1>1, <2>0 DEF Run, Stage, RunOK
    <3> QED BY <1>2, <2>2, <3>1
  <2>3. CASE Sealing
    BY <1>5, <2>1, <2>2, <2>3 DEF Copy
  <2>4. CASE ~Sealing
    BY <1>5, <2>1, <2>2, <2>4 DEF Copy
  <2> QED BY <2>3, <2>4
<1>6. CASE SealCopy(r)
  <2>0. run[r].st = "copied"
    BY <1>6 DEF SealCopy
  <2>1. CASE UNCHANGED faults /\ run' = [run EXCEPT ![r] =
               [@ EXCEPT !.st = "over", !.sealed = "whole", !.plain = "none"]]
    <3> DEFINE new == [run[r] EXCEPT !.st = "over", !.sealed = "whole", !.plain = "none"]
    <3>1. new \in Run /\ new.st # "idle" /\ RunOK(new) /\ new.mixed = run[r].mixed
      BY <1>0, <1>1, <2>0 DEF Run, Stage, RunOK
    <3> QED BY <1>2, <2>1, <3>1
  <2>2. ASSUME NEW x \in {"part", "whole"}, Fault,
               run' = [run EXCEPT ![r] = [@ EXCEPT !.st = "over", !.sealed = x, !.told = "failure"]]
        PROVE  BackupInv'
    <3> DEFINE new == [run[r] EXCEPT !.st = "over", !.sealed = x, !.told = "failure"]
    <3>1. new \in Run /\ new.st # "idle" /\ RunOK(new) /\ new.mixed = run[r].mixed
      BY <1>0, <1>1, <2>0 DEF Run, Stage, RunOK
    <3> QED BY <1>2, <2>2, <3>1
  <2> QED BY <1>6, <2>1, <2>2 DEF SealCopy
<1> QED BY <1>3, <1>4, <1>5, <1>6

\* The report prunes files, and is itself of a whole backup.
LEMMA ReportInv ==
    ASSUME BackupInv, NEW r \in Owners, Report(r)
    PROVE  BackupInv'
<1> DEFINE new == [run[r] EXCEPT !.st = "over", !.told = "success"]
<1>0. TypeOK /\ run[r] \in Run /\ RunOK(run[r]) /\ run[r].st = "tell"
  BY DEF BackupInv, TypeOK, Report
<1>1. new \in Run /\ new.st # "idle" /\ RunOK(new) /\ new.told = "success" /\ new.mixed = run[r].mixed
  BY <1>0 DEF Run, Stage, RunOK
<1>2. /\ run'[r] = new
      /\ \A x \in Owners : x # r => run'[x] = run[x]
      /\ run' \in [Owners -> Run]
  BY <1>0, <1>1 DEF TypeOK, Report
<1>3. TypeOK'
  <2>1. reported' \in BOOLEAN
    BY Zenon DEF Report
  <2>2. files' \subseteq File
    BY <1>0 DEF TypeOK, Report, Pruned
  <2> QED BY <1>0, <1>1, <1>2, <2>1, <2>2 DEF TypeOK, Report
<1>4. \A x \in Owners : Busy(x)' <=> Busy(x)
  BY <1>0, <1>1, <1>2 DEF Busy
<1>5. \A x \in Owners : RunOK(run'[x]) /\ LockOK(x)'
  BY <1>1, <1>2, <1>4 DEF BackupInv, LockOK, Report
<1>6. FilesOK'
  BY DEF BackupInv, FilesOK, Report, Pruned
<1>7. NeverWithout'
  BY <1>1, <1>2 DEF NeverWithout
<1> QED BY <1>3, <1>5, <1>6, <1>7 DEF BackupInv

LEMMA ContinueInv ==
    ASSUME BackupInv, NEW r \in Owners, Continue(r)
    PROVE  BackupInv'
<1>1. CASE Release(r)
  <2>1. Busy(r)
    BY <1>1 DEF Release, Busy
  <2>2. lock' \in BOOLEAN /\ wal' \in BOOLEAN
    <3>1. lock \in BOOLEAN /\ wal \in BOOLEAN
      BY DEF BackupInv, TypeOK
    <3> QED BY <1>1, <3>1, Zenon DEF Release
  <2>3. backend' \in BOOLEAN /\ request' \in [Requests -> {"idle", "admitted", "slipped"}]
    BY <1>1 DEF Release, BackupInv, TypeOK
  <2>4. {r} \in SUBSET Owners /\ Ends({r})
    BY <1>1 DEF Release
  <2>5. lock' = lock \/ \E x \in {r} : Busy(x)
    BY <2>1
  <2>6. UNCHANGED reported /\ (Fault \/ UNCHANGED faults)
    BY <1>1 DEF Release
  <2> QED BY <2>2, <2>3, <2>4, <2>5, <2>6, RunEnds
<1> QED BY <1>1, WorkInv, ReportInv DEF Continue

LEMMA NextInv == BackupInv /\ [Next]_vars => BackupInv'
<1> SUFFICES ASSUME BackupInv, [Next]_vars
             PROVE  BackupInv'
  OBVIOUS
<1>0. TypeOK
  BY DEF BackupInv
<1>1. ASSUME NEW q \in Requests, Admit(q) \/ Commit(q)
      PROVE  BackupInv'
  <2>1. wal' \in BOOLEAN
    BY <1>0, <1>1, Zenon DEF Admit, Commit, TypeOK
  <2>2. UNCHANGED <<lock, run, files, reported, backend>>
    BY <1>1 DEF Admit, Commit
  <2>3. request' \in [Requests -> {"idle", "admitted", "slipped"}]
    BY <1>0, <1>1 DEF Admit, Commit, TypeOK
  <2>4. faults' \in 0..MaxFaults
    BY <1>0, <1>1, FaultType DEF Admit, Commit
  <2>5. TypeOK'
    BY <1>0, <2>1, <2>2, <2>3, <2>4 DEF TypeOK
  <2> QED BY <2>2, <2>5, SameRuns
<1>2. ASSUME NEW r \in Owners, Begin(r) \/ Continue(r)
      PROVE  BackupInv'
  BY <1>2, BeginInv, ContinueInv
<1>3. ASSUME NEW f \in files, Restore(f)
      PROVE  BackupInv'
  <2>1. \A r \in Owners : ~Busy(r)
    BY <1>3 DEF Restore
  <2>2. lock' \in BOOLEAN /\ wal' \in BOOLEAN
    BY <1>3, Zenon DEF Restore
  <2>3. TypeOK'
    BY <1>0, <1>3, <2>2, FaultType DEF Restore, TypeOK
  <2>4. \A r \in Owners : ~Busy(r)'
    BY <1>3, <2>1 DEF Restore, Busy
  <2> QED BY <1>3, <2>3, <2>4 DEF BackupInv, LockOK, FilesOK, NeverWithout, Restore
<1>4. CASE Checkpoint
  <2>1. ASSUME NEW r \in Owners
        PROVE  /\ run'[r] \in Run
               /\ run'[r].st = run[r].st /\ run'[r].mixed = run[r].mixed
               /\ run'[r].told = run[r].told /\ run'[r].short = run[r].short
               /\ run'[r].plain = run[r].plain /\ run'[r].sealed = run[r].sealed
    <3>1. CASE Busy(r)
      <4>1. run'[r] = [run[r] EXCEPT !.missed = FALSE] /\ run[r] \in Run
        BY <1>0, <1>4, <3>1 DEF Checkpoint, TypeOK
      <4> QED BY <4>1 DEF Run
    <3>2. CASE ~Busy(r)
      <4>1. run'[r] = Idle /\ run[r] = Idle
        BY <1>0, <1>4, <3>2 DEF Checkpoint, TypeOK, Busy
      <4> QED BY <4>1, IdleType
    <3> QED BY <3>1, <3>2
  <2>2. \A r \in Owners : run'[r].st = run[r].st
    BY <2>1
  <2>3. \A r \in Owners : run'[r].st = "idle" => run'[r] = Idle
    BY <1>0, <1>4, <2>2 DEF Checkpoint, Busy, TypeOK
  <2>4. TypeOK'
    <3>1. wal' \in BOOLEAN
      BY <1>4, Zenon DEF Checkpoint
    <3>2. run' \in [Owners -> Run]
      <4>1. run' = [r \in Owners |-> run'[r]]
        BY <1>4 DEF Checkpoint
      <4> QED BY <2>1, <4>1
    <3> QED BY <1>0, <1>4, <2>3, <3>1, <3>2 DEF Checkpoint, TypeOK
  <2>5. \A r \in Owners : RunOK(run'[r])
    BY <2>1 DEF BackupInv, RunOK
  <2>6. \A r \in Owners : Busy(r)' <=> Busy(r)
    BY <2>2 DEF Busy
  <2>7. lock' = lock /\ files' = files /\ reported' = reported
    BY <1>4 DEF Checkpoint
  <2>8. \A r \in Owners : LockOK(r)'
    BY <2>1, <2>6, <2>7 DEF BackupInv, LockOK
  <2>9. FilesOK' /\ NeverWithout'
    BY <2>1, <2>7 DEF BackupInv, FilesOK, NeverWithout
  <2> QED BY <2>4, <2>5, <2>8, <2>9 DEF BackupInv
<1>5. CASE Age
  <2>1. \A f \in files : /\ [f EXCEPT !.old = TRUE] \in File
                         /\ [f EXCEPT !.old = TRUE].told = f.told
                         /\ [f EXCEPT !.old = TRUE].is = f.is
                         /\ [f EXCEPT !.old = TRUE].short = f.short
    BY <1>0 DEF TypeOK, File
  <2>2. TypeOK'
    BY <1>0, <1>5, <2>1 DEF Age, TypeOK
  <2>3. FilesOK'
    BY <1>5, <2>1 DEF Age, BackupInv, FilesOK
  <2>4. NeverWithout'
    <3>1. \A f \in files : [f EXCEPT !.old = TRUE] \in files'
      BY <1>5 DEF Age
    <3>2. run' = run /\ reported' = reported
      BY <1>5 DEF Age
    <3>3. CASE \E f \in files : f.told /\ f.is = "whole"
      <4>1. PICK f \in files : f.told /\ f.is = "whole"
        BY <3>3
      <4>2. [f EXCEPT !.old = TRUE].told /\ [f EXCEPT !.old = TRUE].is = "whole"
        BY <2>1, <4>1
      <4>3. [f EXCEPT !.old = TRUE] \in files'
        BY <3>1
      <4> QED BY <4>2, <4>3 DEF NeverWithout
    <3>4. CASE ~\E f \in files : f.told /\ f.is = "whole"
      BY <3>2, <3>4 DEF BackupInv, NeverWithout
    <3> QED BY <3>3, <3>4
  <2>5. \A r \in Owners : RunOK(run'[r]) /\ LockOK(r)'
    <3>1. lock' = lock /\ run' = run
      BY <1>5 DEF Age
    <3>2. \A r \in Owners : run'[r] = run[r] /\ (Busy(r)' <=> Busy(r))
      BY <3>1 DEF Busy
    <3> QED BY <3>1, <3>2 DEF BackupInv, LockOK
  <2> QED BY <2>2, <2>3, <2>4, <2>5 DEF BackupInv
<1>6. CASE BackendDies \/ ManualDies
  <2>1. lock' \in BOOLEAN /\ wal' \in BOOLEAN
    BY <1>0, <1>6 DEF TypeOK, BackendDies, ManualDies
  <2>2. backend' \in BOOLEAN
    BY <1>0, <1>6, Zenon DEF TypeOK, BackendDies, ManualDies
  <2>3. request' \in [Requests -> {"idle", "admitted", "slipped"}]
    BY <1>0, <1>6 DEF TypeOK, BackendDies, ManualDies
  <2>4. lock' = lock /\ UNCHANGED reported /\ Fault
    BY <1>6 DEF BackendDies, ManualDies
  <2>5. ASSUME NEW R \in SUBSET Owners, Ends(R)
        PROVE  BackupInv'
    BY <2>1, <2>2, <2>3, <2>4, <2>5, RunEnds
  <2>6. Ends(Served) \/ Ends({"manual"})
    BY <1>6 DEF BackendDies, ManualDies
  <2>7. Served \in SUBSET Owners /\ {"manual"} \in SUBSET Owners
    BY DEF Served, Owners
  <2> QED BY <2>5, <2>6, <2>7
<1>7. CASE Boot
  <2>1. backend' \in BOOLEAN
    BY <1>7, Zenon DEF Boot
  <2>2. TypeOK'
    BY <1>0, <1>7, <2>1 DEF Boot, TypeOK
  <2> QED BY <1>7, <2>2, SameRuns DEF Boot
<1>8. CASE UNCHANGED vars
  BY <1>0, <1>8, SameRuns DEF vars, TypeOK
<1> QED BY <1>1, <1>2, <1>3, <1>4, <1>5, <1>6, <1>7, <1>8 DEF Next

------------------------------------------------------------------------------
\* Theorems

THEOREM BackupInvariant == Spec => []BackupInv
BY InitInv, NextInv, PTL DEF Spec

\* In every reachable state the runs, the files and the flag are what the code
\* means them to be.
THEOREM BackupTyped == Spec => []TypeOK
<1>1. BackupInv => TypeOK
  BY DEF BackupInv
<1> QED BY <1>1, BackupInvariant, PTL

\* A backup whose success was mailed and logged holds everything committed when it
\* began, however many files, writes and processes fail; and without a mail of
\* failure there is a whole file.
THEOREM ReportedIsWholeCorrect == Spec => []ReportedIsWhole
<1>1. BackupInv => ReportedIsWhole
  <2> SUFFICES ASSUME BackupInv PROVE ReportedIsWhole
    OBVIOUS
  <2>1. ASSUME NEW r \in Owners, run[r].st = "over", run[r].told # "failure"
        PROVE  /\ "whole" \in {run[r].plain, run[r].sealed}
               /\ run[r].short => run[r].told = "copy"
    <3>1. run[r].told \in {"nothing", "copy", "success", "failure"} /\ RunOK(run[r])
      BY DEF BackupInv, TypeOK, Run
    <3> QED BY <2>1, <3>1 DEF RunOK
  <2> QED BY <2>1 DEF BackupInv, FilesOK, ReportedIsWhole
<1> QED BY <1>1, BackupInvariant, PTL

\* From the first backup on whose success was mailed and logged there always is one.
THEOREM NeverWithoutCorrect == Spec => []NeverWithout
<1>1. BackupInv => NeverWithout
  BY DEF BackupInv
<1> QED BY <1>1, BackupInvariant, PTL

\* No request finds the flag off beside a backup that runs alone and set it.
THEOREM NoneAdmittedCorrect == Spec => NoneAdmitted
<1>1. BackupInv /\ [Next]_vars =>
        [\A q \in Requests, r \in Owners :
           request[q] = "idle" /\ request'[q] = "admitted" /\ Busy(r) => run[r].mixed]_vars
  <2> SUFFICES ASSUME BackupInv, Next, NEW q \in Requests, NEW r \in Owners,
                      request[q] = "idle", request'[q] = "admitted", Busy(r)
               PROVE  run[r].mixed
    OBVIOUS
  <2>1. PICK p \in Requests : Admit(p) /\ ~lock
    <3>1. request \in [Requests -> {"idle", "admitted", "slipped"}]
      BY DEF BackupInv, TypeOK
    <3>2. ASSUME NEW p \in Requests, Commit(p)
          PROVE  FALSE
      BY <3>1, <3>2 DEF Commit
    <3>3. CASE \/ \E x \in Owners : Begin(x) \/ Continue(x)
               \/ \E f \in files : Restore(f)
               \/ Checkpoint \/ Age \/ BackendDies \/ ManualDies \/ Boot
      <4>1. CASE \E x \in Owners : Begin(x)
        BY <4>1, Zenon DEF Begin
      <4>2. CASE \E x \in Owners : Continue(x)
        BY <4>2, Zenon DEF Continue, Snapshot, Seal, Report, Copy, SealCopy, Release
      <4>3. CASE BackendDies
        BY <4>3 DEF BackendDies
      <4>4. CASE (\E f \in files : Restore(f)) \/ Checkpoint \/ Age \/ ManualDies \/ Boot
        BY <4>4 DEF Restore, Checkpoint, Age, ManualDies, Boot
      <4> QED BY <3>3, <4>1, <4>2, <4>3, <4>4
    <3>4. ASSUME NEW p \in Requests, request' = [request EXCEPT ![p] = "slipped"]
          PROVE  FALSE
      BY <3>1, <3>4
    <3> QED BY <3>2, <3>3, <3>4 DEF Next, Admit
  <2> QED BY <2>1 DEF BackupInv, LockOK
<1> QED BY <1>1, BackupInvariant, PTL DEF Spec, NoneAdmitted

------------------------------------------------------------------------------
\* The processes of the installation (module Manager).

\* The listener on the port is up.  Unless two starts overlapped, whatever was
\* spawned and has not been taken note of as gone is what the handle names, and
\* a start under way is alone, with no handle set.
Good(v) ==
    /\ v \in Procs!Service
    /\ v.port \in Slots => v.proc[v.port].st = "up"
    /\ "twice" \notin v.note =>
         /\ \A p \in Slots : v.proc[p].st \in Procs!Alive \cup {"dead"} => v.handle = p
         /\ \A p, q \in Slots : {v.proc[p].st, v.proc[q].st} \subseteq Procs!Pending => p = q
         /\ \A p \in Slots : v.proc[p].st \in Procs!Pending => v.handle = None

ProcsInv ==
    /\ svc \in [Procs!Services -> Procs!Service]
    /\ \A s \in Procs!Services : Good(svc[s])
    /\ ip \in IPs /\ seen \in IPs /\ up \in BOOLEAN /\ dev \in {"off", "on"} /\ acts \in Nat

LEMMA ServiceIs ==
    ASSUME NEW v \in Procs!Service
    PROVE  /\ v.proc \in [Slots -> Procs!Process] /\ v.handle \in Slots \cup {None}
           /\ v.port \in Procs!Holders /\ v.kills \subseteq Procs!Ticks
           /\ v.due \in [Procs!Ticks -> Nat] /\ v.last \in {"none", "start", "stop"}
           /\ v.note \subseteq Procs!Notes
           /\ v = [proc |-> v.proc, handle |-> v.handle, port |-> v.port, kills |-> v.kills,
                   due |-> v.due, last |-> v.last, note |-> v.note]
  BY DEF Procs!Service

\* What is done to timers, to the wish of the operator and to the notes.
LEMMA Untouched ==
    ASSUME NEW v, Good(v), NEW w \in Procs!Service,
           w.proc = v.proc, w.handle = v.handle, w.port = v.port \/ w.port \notin Slots, v.note \subseteq w.note
    PROVE  Good(w)
  BY DEF Good

LEMMA NotedGood ==
    ASSUME NEW v, Good(v), NEW n \in Procs!Notes, NEW b
    PROVE  LET w == Procs!Noted(v, n, b)
           IN  /\ Good(w) /\ w.proc = v.proc /\ w.handle = v.handle /\ w.port = v.port /\ w.due = v.due
               /\ w.kills = v.kills /\ v.note \subseteq w.note /\ (b => n \in w.note)
  <1> DEFINE w == [v EXCEPT !.note = @ \cup {n}]
  <1>1. v \in Procs!Service  BY DEF Good
  <1>2. /\ w \in Procs!Service /\ w.proc = v.proc /\ w.handle = v.handle /\ w.port = v.port
        /\ w.due = v.due /\ w.kills = v.kills /\ w.note = v.note \cup {n}
    BY <1>1, ServiceIs DEF Procs!Service, Procs!Notes
  <1> HIDE DEF w
  <1>3. Good(w)  BY <1>2, Untouched
  <1>4. CASE b
    BY <1>2, <1>3, <1>4 DEF Procs!Noted, w
  <1>5. CASE ~b
    BY <1>5 DEF Procs!Noted
  <1>6. QED  BY <1>4, <1>5

LEMMA FreshGood ==
    ASSUME Procs!ManagerAssumption, NEW port \in {None, "left", "dev"}
    PROVE  Good(Procs!Fresh(port))
  <1> DEFINE a == CHOOSE x \in IPs : TRUE
             w == Procs!Fresh(port)
  <1>1. a \in IPs  BY DEF Procs!ManagerAssumption
  <1> HIDE DEF a
  <1>2. w = [proc |-> [p \in Slots |-> [st |-> "none", addr |-> a]], handle |-> None, port |-> port,
             kills |-> {}, due |-> [t \in Procs!Ticks |-> 0], last |-> "none",
             note |-> IF port = None THEN {} ELSE {"orphan"}]
    BY DEF a, Procs!Fresh
  <1> HIDE DEF w
  <1>3. w.proc \in [Slots -> Procs!Process]
    BY <1>1, <1>2 DEF Procs!Process
  <1>4. w \in Procs!Service
    BY <1>2, <1>3 DEF Procs!Service, Procs!Holders, Procs!Notes
  <1>5. \A p \in Slots : w.proc[p].st = "none"
    BY <1>2
  <1>6. port \notin Slots
    BY DEF Procs!ManagerAssumption
  <1>7. QED  BY <1>2, <1>4, <1>5, <1>6 DEF Good, Procs!Alive, Procs!Pending, w

\* Service v with process p as x, and another handle and listener.
With(v, p, x, handle, port) ==
    [proc |-> [v.proc EXCEPT ![p] = x], handle |-> handle, port |-> port, kills |-> v.kills,
     due |-> v.due, last |-> v.last, note |-> v.note]

\* w is v but for process p, the handle and the listener.
Edited(v, w, p, x) ==
    /\ w \in Procs!Service /\ w.proc[p] = x
    /\ \A q \in Slots \ {p} : w.proc[q] = v.proc[q]
    /\ w.kills = v.kills /\ w.due = v.due /\ w.note = v.note

LEMMA WithIs ==
    ASSUME NEW v \in Procs!Service, NEW p \in Slots, NEW x \in Procs!Process,
           NEW handle \in Slots \cup {None}, NEW port \in Procs!Holders
    PROVE  /\ Edited(v, With(v, p, x, handle, port), p, x)
           /\ With(v, p, x, handle, port).handle = handle /\ With(v, p, x, handle, port).port = port
  BY ServiceIs DEF Procs!Service, With, Edited

LEMMA EditIs ==
    ASSUME NEW v \in Procs!Service, NEW p \in Slots, NEW st
    PROVE  /\ v.proc[p].addr \in IPs
           /\ [v EXCEPT !.proc[p].st = st] = With(v, p, [st |-> st, addr |-> v.proc[p].addr], v.handle, v.port)
  <1>1. v.proc[p].addr \in IPs /\ [v.proc[p] EXCEPT !.st = st] = [st |-> st, addr |-> v.proc[p].addr]
    BY ServiceIs DEF Procs!Process
  <1>2. QED  BY <1>1, ServiceIs DEF With

LEMMA EditWithHandle ==
    ASSUME NEW v \in Procs!Service, NEW p \in Slots, NEW st, NEW h
    PROVE  [v EXCEPT !.proc[p].st = st, !.handle = h] = With(v, p, [st |-> st, addr |-> v.proc[p].addr], h, v.port)
  <1> DEFINE x == [st |-> st, addr |-> v.proc[p].addr]
             y == [v EXCEPT !.proc[p].st = st]
  <1>1. y = With(v, p, x, v.handle, v.port)
    BY EditIs
  <1> HIDE DEF y, x
  <1>2. [y EXCEPT !.handle = h] = With(v, p, x, h, v.port)
    BY <1>1 DEF With
  <1>3. QED  BY <1>2 DEF x, y

LEMMA DiesGood ==
    ASSUME Procs!ManagerAssumption, NEW v, Good(v), NEW p \in Slots, v.proc[p].st \in Procs!Alive,
           NEW out \in {"dies", "leaves"}
    PROVE  LET w == Procs!Dies(v, p, out)
           IN  Good(w) /\ w.kills = v.kills /\ w.due = v.due /\ w.handle = v.handle /\ w.note = v.note
  <1> DEFINE x == [v EXCEPT !.proc[p].st = "dead"]
             w == Procs!Dies(v, p, out)
  <1>1. v \in Procs!Service  BY DEF Good
  <1>2. /\ x.proc \in [Slots -> Procs!Process] /\ x.proc[p].st = "dead"
        /\ \A q \in Slots \ {p} : x.proc[q] = v.proc[q]
        /\ x \in Procs!Service /\ x.handle = v.handle /\ x.port = v.port /\ x.kills = v.kills
        /\ x.due = v.due /\ x.note = v.note
    <2> DEFINE d == [st |-> "dead", addr |-> v.proc[p].addr]
    <2>1. x = With(v, p, d, v.handle, v.port)
      BY <1>1, EditIs
    <2>2. d \in Procs!Process /\ d.st = "dead"
      BY <1>1, ServiceIs DEF Procs!Process
    <2>3. v.handle \in Slots \cup {None} /\ v.port \in Procs!Holders
      BY <1>1, ServiceIs
    <2> HIDE DEF d, x
    <2>4. Edited(v, x, p, d) /\ x.handle = v.handle /\ x.port = v.port
      BY <1>1, <2>1, <2>2, <2>3, WithIs
    <2>5. QED  BY <2>2, <2>4, ServiceIs DEF Edited
  <1>3. w \in {x, [x EXCEPT !.port = "left"], [x EXCEPT !.port = None]} /\ w.port # p
    <2> HIDE DEF x
    <2>1. "left" # p /\ None # p /\ [x EXCEPT !.port = "left"].port = "left" /\ [x EXCEPT !.port = None].port = None
      <3>1. "left" # p /\ None # p
        BY DEF Procs!ManagerAssumption
      <3>2. QED  BY <1>2, <3>1, ServiceIs
    <2>2. w = IF out = "leaves" /\ v.port \in {p, None} THEN [x EXCEPT !.port = "left"]
              ELSE IF v.port = p THEN [x EXCEPT !.port = None] ELSE x
      BY DEF Procs!Dies, x
    <2>3. QED  BY <1>2, <2>1, <2>2
  <1> HIDE DEF x, w
  <1>4. /\ w \in Procs!Service /\ w.proc = x.proc /\ w.handle = x.handle /\ w.kills = x.kills /\ w.due = x.due
        /\ w.note = x.note /\ (w.port = v.port \/ w.port \notin Slots) /\ w.port # p
    <2>1. "left" \notin Slots /\ None \notin Slots /\ {"left", None} \subseteq Procs!Holders
      BY DEF Procs!ManagerAssumption, Procs!Holders
    <2> HIDE DEF x
    <2>2. \A h \in {"left", None} :
            LET y == [x EXCEPT !.port = h]
            IN  /\ y \in Procs!Service /\ y.proc = x.proc /\ y.handle = x.handle /\ y.kills = x.kills
                /\ y.due = x.due /\ y.note = x.note /\ y.port = h
      BY <1>2, <2>1, ServiceIs DEF Procs!Service
    <2>3. QED  BY <1>2, <1>3, <2>1, <2>2
  <1>5. Good(w)
    <2>1. \A q \in Slots : w.proc[q].st \in Procs!Alive \cup {"dead"} => v.proc[q].st \in Procs!Alive \cup {"dead"}
      BY <1>2, <1>4
    <2>2. \A q \in Slots : w.proc[q].st \in Procs!Pending => v.proc[q].st \in Procs!Pending
      BY <1>2, <1>4 DEF Procs!Pending
    <2>3. w.port \in Slots => w.proc[w.port].st = "up"
      BY <1>2, <1>4 DEF Good
    <2>4. QED  BY <1>2, <1>4, <2>1, <2>2, <2>3 DEF Good
  <1>6. QED  BY <1>2, <1>4, <1>5 DEF w

\* Timers, the wish of the operator and a listener that is nobody's.
LEMMA TimersGood ==
    ASSUME NEW v, Good(v), NEW k \in SUBSET Procs!Ticks, NEW d \in [Procs!Ticks -> Nat]
    PROVE  Good([v EXCEPT !.kills = k, !.due = d])
  <1>1. v \in Procs!Service  BY DEF Good
  <1> DEFINE w == [v EXCEPT !.kills = k, !.due = d]
  <1>2. w \in Procs!Service /\ w.proc = v.proc /\ w.handle = v.handle /\ w.port = v.port /\ w.note = v.note
    BY <1>1, ServiceIs DEF Procs!Service
  <1> HIDE DEF w
  <1>3. Good(w)  BY <1>2, Untouched
  <1>4. QED  BY <1>3 DEF w

LEMMA KillsGood ==
    ASSUME NEW v, Good(v), NEW k \in SUBSET Procs!Ticks
    PROVE  Good([v EXCEPT !.kills = k]) /\ [v EXCEPT !.kills = k].kills = k
  <1>1. v \in Procs!Service  BY DEF Good
  <1> DEFINE w == [v EXCEPT !.kills = k]
  <1>2. /\ w \in Procs!Service /\ w.proc = v.proc /\ w.handle = v.handle /\ w.port = v.port /\ w.note = v.note
        /\ w.kills = k
    BY <1>1, ServiceIs DEF Procs!Service
  <1> HIDE DEF w
  <1>3. Good(w)  BY <1>2, Untouched
  <1>4. QED  BY <1>2, <1>3 DEF w

LEMMA DueGood ==
    ASSUME NEW v, Good(v), NEW t \in Procs!Ticks, NEW n \in Nat
    PROVE  Good([v EXCEPT !.due[t] = n]) /\ [v EXCEPT !.due[t] = n].handle = v.handle
  <1>1. v \in Procs!Service  BY DEF Good
  <1> DEFINE w == [v EXCEPT !.due[t] = n]
  <1>2. w \in Procs!Service /\ w.proc = v.proc /\ w.handle = v.handle /\ w.port = v.port /\ w.note = v.note
    BY <1>1, ServiceIs DEF Procs!Service
  <1> HIDE DEF w
  <1>3. Good(w)  BY <1>2, Untouched
  <1>4. QED  BY <1>2, <1>3 DEF w

LEMMA LastGood ==
    ASSUME NEW v, Good(v), NEW l \in {"start", "stop"}
    PROVE  Good([v EXCEPT !.last = l])
  <1>1. v \in Procs!Service  BY DEF Good
  <1> DEFINE w == [v EXCEPT !.last = l]
  <1>2. w \in Procs!Service /\ w.proc = v.proc /\ w.handle = v.handle /\ w.port = v.port /\ w.note = v.note
    BY <1>1, ServiceIs DEF Procs!Service
  <1> HIDE DEF w
  <1>3. Good(w)  BY <1>2, Untouched
  <1>4. QED  BY <1>3 DEF w

LEMMA PortGood ==
    ASSUME Procs!ManagerAssumption, NEW v, Good(v), NEW port \in {None, "left", "dev"}
    PROVE  Good([v EXCEPT !.port = port])
  <1>1. v \in Procs!Service  BY DEF Good
  <1> DEFINE w == [v EXCEPT !.port = port]
  <1>2. w \in Procs!Service /\ w.proc = v.proc /\ w.handle = v.handle /\ w.port = port /\ w.note = v.note
    BY <1>1, ServiceIs DEF Procs!Service, Procs!Holders
  <1>3. port \notin Slots  BY DEF Procs!ManagerAssumption
  <1> HIDE DEF w
  <1>4. Good(w)  BY <1>2, <1>3, Untouched
  <1>5. QED  BY <1>4 DEF w

LEMMA FreedGood ==
    ASSUME Procs!ManagerAssumption, NEW v, Good(v)
    PROVE  Good(Procs!Freed(v))
  <1>1. CASE v.port \in Slots
    <2>1. v.proc[v.port].st \in Procs!Alive  BY <1>1 DEF Good, Procs!Alive
    <2>2. Good(Procs!Dies(v, v.port, "dies"))  BY <1>1, <2>1, DiesGood
    <2>3. QED  BY <1>1, <2>2 DEF Procs!Freed
  <1>2. CASE v.port \notin Slots
    BY <1>2, PortGood DEF Procs!Freed
  <1>3. QED  BY <1>1, <1>2

LEMMA SignalGood ==
    ASSUME Procs!ManagerAssumption, NEW v, Good(v), NEW out \in {"dies", "leaves", "stays"}
    PROVE  Good(Procs!Signal(v, out)) /\ Procs!Signal(v, out).kills = v.kills
  <1>1. v.handle \in Slots \cup {None}  BY ServiceIs DEF Good
  <1>2. CASE v.handle # None /\ out # "stays" /\ v.proc[v.handle].st \in Procs!Alive
    <2> DEFINE w == Procs!Dies(v, v.handle, out)
    <2>1. Good(w) /\ w.kills = v.kills
      BY <1>1, <1>2, DiesGood
    <2>2. Procs!Signal(v, out) = Procs!Noted(w, "orphan", out = "leaves")
      BY <1>2 DEF Procs!Signal
    <2>3. "orphan" \in Procs!Notes
      BY DEF Procs!Notes
    <2> HIDE DEF w
    <2>4. QED  BY <2>1, <2>2, <2>3, NotedGood
  <1>3. CASE ~(v.handle # None /\ out # "stays" /\ v.proc[v.handle].st \in Procs!Alive)
    BY <1>3 DEF Procs!Signal
  <1>4. QED  BY <1>2, <1>3

LEMMA StopGood ==
    ASSUME Procs!ManagerAssumption, NEW v, Good(v), NEW out \in {"dies", "leaves", "stays"}
    PROVE  Good(Procs!Stop(v, out))
  <1> DEFINE w == Procs!Signal(v, out)
  <1>1. Good(w) /\ w.kills \cup {Procs!KillDelay} \in SUBSET Procs!Ticks
    BY SignalGood, ServiceIs DEF Good, Procs!KillDelay, Procs!Ticks
  <1>2. Procs!Stop(v, out) = IF v.handle = None THEN v ELSE [w EXCEPT !.kills = w.kills \cup {Procs!KillDelay}]
    BY DEF Procs!Stop
  <1> HIDE DEF w
  <1>3. Good([w EXCEPT !.kills = w.kills \cup {Procs!KillDelay}])
    BY <1>1, KillsGood
  <1>4. QED  BY <1>2, <1>3

LEMMA DelayGood ==
    ASSUME NEW v, Good(v), NEW t \in {1, 3, 4}
    PROVE  Good(Procs!Delay(v, t))
  <1>1. t \in Procs!Ticks  BY DEF Procs!Ticks
  <1>2. v.due[t] + 1 \in Nat  BY <1>1, ServiceIs DEF Good
  <1>3. QED  BY <1>1, <1>2, DueGood DEF Procs!Delay

LEMMA WantGood ==
    ASSUME NEW v, Good(v), NEW what \in {"start", "stop"}
    PROVE  Good(Procs!Want(v, what))
  <1>1. Good([v EXCEPT !.last = what])  BY LastGood
  <1>2. QED  BY <1>1, NotedGood DEF Procs!Want, Procs!Notes

LEMMA BeginGood ==
    ASSUME Procs!ManagerAssumption, ip \in IPs, NEW v, Good(v), v.handle = None, Procs!Free(v) # {}
    PROVE  Good(Procs!Begin(v))
  <1> DEFINE p == CHOOSE q \in Procs!Free(v) : TRUE
             x == [v EXCEPT !.proc[p] = [st |-> "scan", addr |-> ip]]
             b == [st |-> "scan", addr |-> ip]
  <1>1. p \in Slots /\ v.proc[p].st = "none"
    BY DEF Procs!Free
  <1> HIDE DEF p
  <1>2. v \in Procs!Service /\ v.handle \in Slots \cup {None} /\ v.port \in Procs!Holders /\ b \in Procs!Process
        /\ b.st = "scan"
    BY ServiceIs DEF Good, Procs!Process, Procs!Pending
  <1> HIDE DEF b
  <1>3. x = With(v, p, b, v.handle, v.port)
    BY <1>2, ServiceIs DEF With, b
  <1>4. Edited(v, x, p, b) /\ x.handle = v.handle /\ x.port = v.port
    BY <1>1, <1>2, <1>3, WithIs
  <1> HIDE DEF x
  <1>5. Procs!Begin(v) = Procs!Noted(x, "twice", Procs!IsPending(v))
    BY DEF Procs!Begin, p, x, b
  <1>6. x.port \in Slots => x.proc[x.port].st = "up"
    BY <1>1, <1>4 DEF Good, Edited
  <1>7. CASE Procs!IsPending(v)
    <2> DEFINE y == [x EXCEPT !.note = @ \cup {"twice"}]
    <2>1. y \in Procs!Service /\ y.proc = x.proc /\ y.port = x.port /\ "twice" \in y.note
      BY <1>4, ServiceIs DEF Procs!Service, Procs!Notes, Edited
    <2> HIDE DEF y
    <2>2. Good(y)  BY <1>6, <2>1 DEF Good
    <2>3. Procs!Noted(x, "twice", Procs!IsPending(v)) = y  BY <1>7 DEF Procs!Noted, y
    <2>4. QED  BY <1>5, <2>2, <2>3
  <1>8. CASE ~Procs!IsPending(v)
    <2>1. \A q \in Slots : v.proc[q].st \notin Procs!Pending
      BY <1>8 DEF Procs!IsPending
    <2>2. \A q \in Slots \ {p} : x.proc[q] = v.proc[q]
      BY <1>4 DEF Edited
    <2>3. x.proc[p].st = "scan" /\ x.note = v.note /\ x \in Procs!Service
      BY <1>2, <1>4 DEF Edited
    <2>4. \A q \in Slots : x.proc[q].st \in Procs!Alive \cup {"dead"} => q # p
      BY <2>3 DEF Procs!Alive
    <2>5. \A q \in Slots : x.proc[q].st \in Procs!Pending => q = p
      BY <2>1, <2>2
    <2>6. Good(x)  BY <1>1, <1>4, <1>6, <2>2, <2>3, <2>4, <2>5 DEF Good
    <2>7. QED  BY <1>5, <1>8, <2>6 DEF Procs!Noted
  <1>9. QED  BY <1>7, <1>8

LEMMA StartGood ==
    ASSUME Procs!ManagerAssumption, ip \in IPs, NEW v, Good(v)
    PROVE  Good(Procs!Start(v))
  <1> DEFINE w == Procs!Noted(v, "early", Procs!StillStopping(v))
  <1>1. Good(w) /\ w.proc = v.proc /\ w.handle = v.handle
    BY NotedGood DEF Procs!Notes
  <1>2. Procs!Start(v) = IF v.handle # None \/ Procs!Free(v) = {} THEN w ELSE Procs!Begin(w)
    BY DEF Procs!Start
  <1> HIDE DEF w
  <1>3. Procs!Free(w) = Procs!Free(v)
    BY <1>1 DEF Procs!Free
  <1>4. QED  BY <1>1, <1>2, <1>3, BeginGood

LEMMA RestartGood ==
    ASSUME Procs!ManagerAssumption, NEW v, Good(v), NEW s, NEW out \in {"dies", "leaves", "stays"}
    PROVE  Good(Procs!Restart(v, s, out))
  <1>1. Procs!RestartDelay(s) \in {1, 3, 4}  BY DEF Procs!RestartDelay
  <1>2. Good(Procs!Delay(Procs!Stop(v, out), Procs!RestartDelay(s)))  BY <1>1, StopGood, DelayGood
  <1>3. QED  BY <1>2 DEF Procs!Restart

\* All services, and one of them changed.
AllGood(f) == f \in [Procs!Services -> Procs!Service] /\ \A s \in Procs!Services : Good(f[s])

Machine == ip \in IPs /\ seen \in IPs /\ up \in BOOLEAN /\ dev \in {"off", "on"} /\ acts \in Nat

LEMMA OneGood ==
    ASSUME NEW f, AllGood(f), NEW s \in Procs!Services, NEW w, Good(w)
    PROVE  AllGood([f EXCEPT ![s] = w])
  BY DEF AllGood, Good

LEMMA ProcsInit == Procs!ManagerAssumption /\ Procs!Init => ProcsInv
  BY FreshGood DEF Procs!Init, ProcsInv, Good

\* What the page of the manager does.
LEMMA PressKeeps ==
    ASSUME Procs!ManagerAssumption, ProcsInv,
           \/ \E s \in Procs!Services : Procs!PressStart(s) \/ Procs!PressStop(s)
           \/ Procs!PressStartBoth \/ Procs!PressStopBoth \/ Procs!PressRestart \/ Procs!MonitorNetwork
    PROVE  ProcsInv'
  <1>1. AllGood(svc) /\ Machine /\ \A s \in Procs!Services : Good(svc[s])
    BY DEF ProcsInv, AllGood, Machine
  <1>2. "backend" \in Procs!Services /\ "frontend" \in Procs!Services
    BY DEF Procs!Services
  <1>3. \A s, sig : Procs!Outcomes(s, sig) \subseteq {"dies", "leaves", "stays"}
    BY DEF Procs!Outcomes
  <1>4. \A s \in Procs!Services, what \in {"start", "stop"} : Good(Procs!Want(svc[s], what))
    BY <1>1, WantGood
  <1>5. \A s \in Procs!Services : Good(Procs!Start(svc[s])) /\ Good(Procs!Want(Procs!Start(svc[s]), "start"))
    BY <1>1, StartGood, WantGood DEF Machine
  <1>6. \A s \in Procs!Services, out \in {"dies", "leaves", "stays"} : Good(Procs!Stop(Procs!Want(svc[s], "stop"), out))
    BY <1>4, StopGood
  <1>7. \A out \in {"dies", "leaves", "stays"} : AllGood(Procs!RestartAll(out))
    <2> SUFFICES ASSUME NEW out \in {"dies", "leaves", "stays"} PROVE AllGood(Procs!RestartAll(out))
      OBVIOUS
    <2>1. \A s \in Procs!Services : Good(Procs!Restart(svc[s], s, IF s = "backend" THEN "dies" ELSE out))
      <3> SUFFICES ASSUME NEW s \in Procs!Services
                   PROVE  Good(Procs!Restart(svc[s], s, IF s = "backend" THEN "dies" ELSE out))
        OBVIOUS
      <3>1. (IF s = "backend" THEN "dies" ELSE out) \in {"dies", "leaves", "stays"}
        OBVIOUS
      <3>2. QED  BY <1>1, <3>1, RestartGood
    <2>2. QED  BY <2>1 DEF Procs!RestartAll, AllGood, Good
  <1>8. CASE \E s \in Procs!Services : Procs!PressStart(s)
    <2>1. PICK s \in Procs!Services : Procs!PressStart(s)  BY <1>8
    <2>2. AllGood(svc')  BY <1>1, <1>5, <2>1, OneGood DEF Procs!PressStart
    <2>3. Machine'  BY <1>1, <2>1 DEF Procs!PressStart, Machine, Procs!Act
    <2>4. QED  BY <2>2, <2>3 DEF ProcsInv, AllGood, Machine
  <1>9. CASE \E s \in Procs!Services : Procs!PressStop(s)
    <2>1. PICK s \in Procs!Services : Procs!PressStop(s)  BY <1>9
    <2>2. PICK out \in Procs!Outcomes(s, "SIGTERM") : svc' = [svc EXCEPT ![s] = Procs!Stop(Procs!Want(svc[s], "stop"), out)]
      BY <2>1 DEF Procs!PressStop
    <2>3. AllGood(svc')  BY <1>1, <1>3, <1>6, <2>2, OneGood
    <2>4. Machine'  BY <1>1, <2>1 DEF Procs!PressStop, Machine, Procs!Act
    <2>5. QED  BY <2>3, <2>4 DEF ProcsInv, AllGood, Machine
  <1>10. CASE Procs!PressStartBoth
    <2> DEFINE w == Procs!Want(Procs!Start(svc["backend"]), "start")
               x == Procs!Want(Procs!Delay(svc["frontend"], Procs!BothDelay), "start")
    <2>1. svc' = [[svc EXCEPT !["backend"] = w] EXCEPT !["frontend"] = x]
      BY <1>10 DEF Procs!PressStartBoth
    <2>2. Good(w)  BY <1>2, <1>5
    <2>3. Good(x)
      <3>1. Procs!BothDelay \in {1, 3, 4}  BY DEF Procs!BothDelay
      <3>2. Good(Procs!Delay(svc["frontend"], Procs!BothDelay))  BY <1>1, <1>2, <3>1, DelayGood
      <3>3. QED  BY <3>2, WantGood
    <2> HIDE DEF w, x
    <2>4. AllGood(svc')  BY <1>1, <1>2, <2>1, <2>2, <2>3, OneGood
    <2>5. Machine'  BY <1>1, <1>10 DEF Procs!PressStartBoth, Machine, Procs!Act
    <2>6. QED  BY <2>4, <2>5 DEF ProcsInv, AllGood, Machine
  <1>11. CASE Procs!PressStopBoth
    <2>1. PICK out \in Procs!Outcomes("frontend", "SIGTERM") :
            svc' = [[svc EXCEPT !["backend"] = Procs!Stop(Procs!Want(svc["backend"], "stop"), "dies")]
                      EXCEPT !["frontend"] = Procs!Stop(Procs!Want(svc["frontend"], "stop"), out)]
      BY <1>11 DEF Procs!PressStopBoth
    <2>2. AllGood([svc EXCEPT !["backend"] = Procs!Stop(Procs!Want(svc["backend"], "stop"), "dies")])
      BY <1>1, <1>2, <1>6, OneGood
    <2>3. AllGood(svc')
      <3>1. out \in {"dies", "leaves", "stays"}  BY <1>3
      <3>2. Good(Procs!Stop(Procs!Want(svc["frontend"], "stop"), out))  BY <1>2, <1>6, <3>1
      <3>3. QED  BY <1>2, <2>1, <2>2, <3>2, OneGood
    <2>4. Machine'  BY <1>1, <1>11 DEF Procs!PressStopBoth, Machine, Procs!Act
    <2>5. QED  BY <2>3, <2>4 DEF ProcsInv, AllGood, Machine
  <1>12. CASE Procs!PressRestart
    <2>1. AllGood(svc')
      <3>1. PICK out \in {"dies", "leaves", "stays"} :
              svc' = [s \in Procs!Services |-> IF svc[s].handle = None THEN svc[s]
                                               ELSE Procs!Want(Procs!RestartAll(out)[s], "start")]
        BY <1>3, <1>12 DEF Procs!PressRestart
      <3>2. \A s \in Procs!Services : Good(Procs!Want(Procs!RestartAll(out)[s], "start"))
        BY <1>7, WantGood DEF AllGood
      <3>3. QED  BY <1>1, <3>1, <3>2 DEF AllGood, Good
    <2>2. Machine'  BY <1>1, <1>12 DEF Procs!PressRestart, Machine, Procs!Act
    <2>3. QED  BY <2>1, <2>2 DEF ProcsInv, AllGood, Machine
  <1>13. CASE Procs!MonitorNetwork
    <2>1. AllGood(svc')
      <3> DEFINE stopped(s) == svc[s].handle # None /\ svc[s].last = "stop"
      <3>1. PICK out \in {"dies", "leaves", "stays"} :
              svc' = [s \in Procs!Services |-> Procs!Noted(Procs!RestartAll(out)[s], "undone", stopped(s))]
        BY <1>3, <1>13 DEF Procs!MonitorNetwork
      <3> HIDE DEF stopped
      <3>2. \A s \in Procs!Services : Good(Procs!Noted(Procs!RestartAll(out)[s], "undone", stopped(s)))
        BY <1>7, NotedGood DEF AllGood, Procs!Notes
      <3>3. QED  BY <3>1, <3>2 DEF AllGood, Good
    <2>2. Machine'  BY <1>1, <1>13 DEF Procs!MonitorNetwork, Machine
    <2>3. QED  BY <2>1, <2>2 DEF ProcsInv, AllGood, Machine
  <1>14. QED  BY <1>8, <1>9, <1>10, <1>11, <1>12, <1>13

\* A manager that is gone leaves at most a listener behind.
LEMMA AbandonedGood ==
    ASSUME Procs!ManagerAssumption, NEW v, NEW stays
    PROVE  Good(Procs!Abandoned(v, stays))
  <1> DEFINE h == IF v.port \in {"left", "dev"} THEN v.port
                  ELSE IF (\E p \in Slots : v.proc[p].st \in Procs!Alive) /\ stays THEN "left" ELSE None
  <1>1. h \in {None, "left", "dev"}
    OBVIOUS
  <1>2. Procs!Abandoned(v, stays) = Procs!Fresh(h)
    BY DEF Procs!Abandoned
  <1> HIDE DEF h
  <1>3. QED  BY <1>1, <1>2, FreshGood

LEMMA KillKeeps ==
    ASSUME Procs!ManagerAssumption, ProcsInv, NEW s \in Procs!Services, NEW p \in Slots, Procs!Kill(s, p)
    PROVE  ProcsInv'
  <1> DEFINE v == svc[s]
             w == [v EXCEPT !.proc[p].st = "clear"]
             x == [st |-> "clear", addr |-> v.proc[p].addr]
  <1>1. Good(v) /\ v \in Procs!Service /\ v.proc[p].st = "scan"
    BY DEF ProcsInv, Procs!Kill
  <1> DEFINE cleared == [svc EXCEPT ![s] = Procs!Freed(w)]
  <1>2. /\ UNCHANGED <<ip, seen, dev>>
        /\ \/ svc' = cleared /\ UNCHANGED <<up, acts>>
           \/ /\ Procs!Act /\ UNCHANGED up
              /\ \E o \in Procs!Services \ {s} :
                   svc' = [cleared EXCEPT ![o] = Procs!Noted(Procs!Freed(svc[o]), "outside", TRUE)]
           \/ /\ Procs!Act /\ up' = FALSE
              /\ \E stays \in [Procs!Services -> BOOLEAN] :
                   svc' = [y \in Procs!Services |-> Procs!Abandoned(cleared[y], stays[y])]
    BY Zenon DEF Procs!Kill
  <1> HIDE DEF v
  <1>3. w = With(v, p, x, v.handle, v.port)
    BY <1>1, EditIs
  <1>4. x \in Procs!Process /\ x.st = "clear" /\ v.handle \in Slots \cup {None} /\ v.port \in Procs!Holders
    BY <1>1, ServiceIs DEF Procs!Process, Procs!Pending
  <1> HIDE DEF w, x
  <1>5. Edited(v, w, p, x) /\ w.handle = v.handle /\ w.port = v.port
    BY <1>1, <1>3, <1>4, WithIs
  <1>6. Good(w)
    <2>1. \A q \in Slots : w.proc[q].st \in Procs!Alive \cup {"dead"} => v.proc[q].st \in Procs!Alive \cup {"dead"}
      BY <1>4, <1>5 DEF Edited, Procs!Alive
    <2>2. \A q \in Slots : w.proc[q].st \in Procs!Pending => v.proc[q].st \in Procs!Pending
      BY <1>1, <1>5 DEF Edited, Procs!Pending
    <2>3. w.port \in Slots => w.proc[w.port].st = "up"
      BY <1>1, <1>5 DEF Edited, Good
    <2>4. QED  BY <1>1, <1>5, <2>1, <2>2, <2>3 DEF Edited, Good
  <1>7. AllGood(svc) /\ AllGood(cleared) /\ Machine
    <2>1. AllGood(svc) /\ Machine  BY DEF ProcsInv, AllGood, Machine
    <2>2. QED  BY <1>6, <2>1, FreedGood, OneGood
  <1> HIDE DEF cleared
  <1>8. AllGood(svc')
    <2>1. ASSUME NEW o \in Procs!Services,
                 svc' = [cleared EXCEPT ![o] = Procs!Noted(Procs!Freed(svc[o]), "outside", TRUE)]
          PROVE  AllGood(svc')
      <3>1. Good(svc[o]) /\ "outside" \in Procs!Notes  BY <1>7 DEF AllGood, Procs!Notes
      <3>2. Good(Procs!Noted(Procs!Freed(svc[o]), "outside", TRUE))  BY <3>1, FreedGood, NotedGood
      <3>3. QED  BY <1>7, <2>1, <3>2, OneGood
    <2>2. ASSUME NEW stays \in [Procs!Services -> BOOLEAN],
                 svc' = [y \in Procs!Services |-> Procs!Abandoned(cleared[y], stays[y])]
          PROVE  AllGood(svc')
      BY <2>2, AbandonedGood DEF AllGood, Good
    <2>3. QED  BY <1>2, <1>7, <2>1, <2>2
  <1>9. Machine'
    <2>1. up' \in BOOLEAN /\ (Procs!Act \/ UNCHANGED acts)  BY <1>2, <1>7, Zenon DEF Machine
    <2>2. acts' \in Nat  BY <1>7, <2>1 DEF Machine, Procs!Act
    <2>3. QED  BY <1>2, <1>7, <2>1, <2>2 DEF Machine
  <1>10. QED  BY <1>8, <1>9 DEF ProcsInv, AllGood, Machine

LEMMA SpawnKeeps ==
    ASSUME Procs!ManagerAssumption, ProcsInv, NEW s \in Procs!Services, NEW p \in Slots, Procs!Spawn(s, p)
    PROVE  ProcsInv'
  <1> DEFINE v == svc[s]
             w == [v EXCEPT !.proc[p].st = "boot", !.handle = p]
             x == [st |-> "boot", addr |-> v.proc[p].addr]
  <1>1. Good(v) /\ v \in Procs!Service /\ v.proc[p].st = "clear"
    BY DEF ProcsInv, Procs!Spawn
  <1>2. svc' = [svc EXCEPT ![s] = Procs!Noted(w, "late", w.proc[p].addr # ip /\ seen = ip)]
    BY DEF Procs!Spawn
  <1> HIDE DEF v
  <1>3. w = With(v, p, x, p, v.port)
    BY <1>1, EditWithHandle, Zenon
  <1>4. x \in Procs!Process /\ x.st = "boot" /\ v.port \in Procs!Holders
    BY <1>1, ServiceIs DEF Procs!Process, Procs!Alive
  <1> HIDE DEF w, x
  <1>5. Edited(v, w, p, x) /\ w.handle = p /\ w.port = v.port
    BY <1>1, <1>3, <1>4, WithIs
  <1>6. Good(w)
    <2>1. "twice" \notin v.note => v.handle = None /\ \A q \in Slots : v.proc[q].st \in Procs!Pending => q = p
      BY <1>1 DEF Good, Procs!Pending
    <2>2. "twice" \notin v.note => \A q \in Slots : v.proc[q].st \notin Procs!Alive \cup {"dead"}
      BY <1>1, <2>1 DEF Good, Procs!ManagerAssumption
    <2>3. w.proc[p].st = "boot" /\ "boot" \notin Procs!Pending /\ w.note = v.note /\ w \in Procs!Service
          /\ \A q \in Slots \ {p} : w.proc[q] = v.proc[q]
      BY <1>4, <1>5 DEF Edited, Procs!Pending
    <2>4. w.port \in Slots => w.proc[w.port].st = "up"
      BY <1>1, <1>5, <2>3 DEF Good
    <2>5. QED  BY <1>5, <2>1, <2>2, <2>3, <2>4 DEF Good
  <1>7. AllGood(svc')
    <2>1. AllGood(svc)  BY DEF ProcsInv, AllGood
    <2>2. Good(Procs!Noted(w, "late", w.proc[p].addr # ip /\ seen = ip))  BY <1>6, NotedGood DEF Procs!Notes
    <2>3. QED  BY <1>2, <2>1, <2>2, OneGood
  <1>8. QED  BY <1>7 DEF ProcsInv, AllGood, Procs!Spawn

LEMMA ListenKeeps ==
    ASSUME Procs!ManagerAssumption, ProcsInv, NEW s \in Procs!Services, NEW p \in Slots, Procs!Listen(s, p)
    PROVE  ProcsInv'
  <1> DEFINE v == svc[s]
             w == [v EXCEPT !.port = p, !.proc[p].st = "up"]
             x == [st |-> "up", addr |-> v.proc[p].addr]
  <1>1. Good(v) /\ v \in Procs!Service /\ v.proc[p].st = "boot"
    BY DEF ProcsInv, Procs!Listen
  <1>2. svc' = [svc EXCEPT ![s] = IF v.port = None THEN w ELSE Procs!Dies(v, p, "dies")]
    BY DEF Procs!Listen
  <1> HIDE DEF v
  <1>3. w = With(v, p, x, v.handle, p)
    <2> DEFINE y == [v EXCEPT !.port = p]
    <2>1. [v.proc[p] EXCEPT !.st = "up"] = x
      BY <1>1, ServiceIs DEF Procs!Process
    <2>2. /\ y = [proc |-> v.proc, handle |-> v.handle, port |-> p, kills |-> v.kills, due |-> v.due,
                  last |-> v.last, note |-> v.note]
          /\ y.proc = v.proc
      BY <1>1, ServiceIs
    <2> HIDE DEF x, y
    <2>3. [y EXCEPT !.proc[p].st = "up"] = With(v, p, x, v.handle, p)
      BY <2>1, <2>2 DEF With
    <2>4. QED  BY <2>3 DEF y
  <1>4. x \in Procs!Process /\ x.st = "up" /\ v.handle \in Slots \cup {None} /\ p \in Procs!Holders
    BY <1>1, ServiceIs DEF Procs!Process, Procs!Alive, Procs!Holders
  <1> HIDE DEF w, x
  <1>5. Edited(v, w, p, x) /\ w.handle = v.handle /\ w.port = p
    BY <1>1, <1>3, <1>4, WithIs
  <1>6. Good(w)
    <2>1. \A q \in Slots : w.proc[q].st \in Procs!Alive \cup {"dead"} => v.proc[q].st \in Procs!Alive \cup {"dead"}
      BY <1>1, <1>5 DEF Edited, Procs!Alive
    <2>2. \A q \in Slots : w.proc[q].st \in Procs!Pending => v.proc[q].st \in Procs!Pending
      BY <1>4, <1>5 DEF Edited, Procs!Pending
    <2>3. w.proc[w.port].st = "up"
      BY <1>4, <1>5 DEF Edited
    <2>4. QED  BY <1>1, <1>5, <2>1, <2>2, <2>3 DEF Edited, Good
  <1>7. Good(Procs!Dies(v, p, "dies"))
    BY <1>1, DiesGood DEF Procs!Alive
  <1>8. AllGood(svc')
    <2>1. AllGood(svc)  BY DEF ProcsInv, AllGood
    <2>2. Good(IF v.port = None THEN w ELSE Procs!Dies(v, p, "dies"))  BY <1>6, <1>7
    <2>3. QED  BY <1>2, <2>1, <2>2, OneGood
  <1>9. QED  BY <1>8 DEF ProcsInv, AllGood, Procs!Listen

LEMMA ExitedKeeps ==
    ASSUME Procs!ManagerAssumption, ProcsInv, NEW s \in Procs!Services, NEW p \in Slots, Procs!Exited(s, p)
    PROVE  ProcsInv'
  <1> DEFINE v == svc[s]
             x == Procs!Fresh(None).proc[p]
             w == [v EXCEPT !.handle = None, !.proc[p] = x]
  <1>1. Good(v) /\ v \in Procs!Service /\ v.proc[p].st = "dead"
    BY DEF ProcsInv, Procs!Exited
  <1>2. svc' = [svc EXCEPT ![s] = w]
    BY DEF Procs!Exited
  <1> HIDE DEF v
  <1>3. x \in Procs!Process /\ x.st = "none"
    <2>1. Procs!Fresh(None) \in Procs!Service  BY FreshGood DEF Good
    <2>2. Procs!Fresh(None).proc \in [Slots -> Procs!Process]  BY <2>1, ServiceIs
    <2>3. Procs!Fresh(None).proc[p].st = "none"  BY DEF Procs!Fresh
    <2>4. QED  BY <2>2, <2>3
  <1>4. w = With(v, p, x, None, v.port) /\ v.port \in Procs!Holders
    <2> DEFINE y == [v EXCEPT !.handle = None]
    <2>1. /\ y = [proc |-> v.proc, handle |-> None, port |-> v.port, kills |-> v.kills, due |-> v.due,
                  last |-> v.last, note |-> v.note]
          /\ y.proc = v.proc /\ v.port \in Procs!Holders
      BY <1>1, ServiceIs
    <2> HIDE DEF x, y
    <2>2. [y EXCEPT !.proc[p] = x] = With(v, p, x, None, v.port)
      BY <2>1 DEF With
    <2>3. QED  BY <2>1, <2>2 DEF y
  <1> HIDE DEF w, x
  <1>5. Edited(v, w, p, x) /\ w.handle = None /\ w.port = v.port
    <2> DEFINE y == With(v, p, x, None, v.port)
    <2>1. v \in Procs!Service /\ x \in Procs!Process /\ v.port \in Procs!Holders /\ None \in Slots \cup {None}
      BY <1>1, <1>3, <1>4
    <2>2. Edited(v, y, p, x) /\ y.handle = None /\ y.port = v.port
      BY <2>1, WithIs
    <2> HIDE DEF y
    <2>3. w = y  BY <1>4 DEF y
    <2>4. QED  BY <2>2, <2>3
  <1>6. Good(w)
    <2>1. "twice" \notin v.note => \A q \in Slots \ {p} : v.proc[q].st \notin Procs!Alive \cup {"dead"}
      BY <1>1 DEF Good
    <2>2. \A q \in Slots : w.proc[q].st \in Procs!Pending => v.proc[q].st \in Procs!Pending
      BY <1>3, <1>5 DEF Edited, Procs!Pending
    <2>3. w.port \in Slots => w.proc[w.port].st = "up"
      BY <1>1, <1>5 DEF Edited, Good
    <2>4. "twice" \notin w.note => \A q \in Slots : w.proc[q].st \notin Procs!Alive \cup {"dead"}
      BY <1>3, <1>5, <2>1 DEF Edited, Procs!Alive
    <2>5. QED  BY <1>1, <1>5, <2>2, <2>3, <2>4 DEF Edited, Good
  <1>7. AllGood(svc')
    <2>1. AllGood(svc)  BY DEF ProcsInv, AllGood
    <2>2. QED  BY <1>2, <1>6, <2>1, OneGood
  <1>8. QED  BY <1>7 DEF ProcsInv, AllGood, Procs!Exited

LEMMA TimersKeep ==
    ASSUME Procs!ManagerAssumption, ProcsInv,
           \/ \E s \in Procs!Services : Procs!KillTimer(s) \/ Procs!StartTimer(s)
           \/ Procs!Tick
    PROVE  ProcsInv'
  <1>1. AllGood(svc) /\ Machine /\ \A s \in Procs!Services : Good(svc[s]) /\ svc[s] \in Procs!Service
    BY DEF ProcsInv, AllGood, Machine
  <1>2. CASE \E s \in Procs!Services : Procs!KillTimer(s)
    <2>1. PICK s \in Procs!Services : Procs!KillTimer(s)  BY <1>2
    <2>2. PICK out \in {"dies", "leaves"} :
            svc' = [svc EXCEPT ![s] = [Procs!Signal(svc[s], out) EXCEPT !.kills = @ \ {0}]]
      BY <2>1 DEF Procs!KillTimer, Procs!Outcomes
    <2> DEFINE w == Procs!Signal(svc[s], out)
    <2>3. Good(w) /\ w.kills \ {0} \in SUBSET Procs!Ticks
      BY <1>1, SignalGood, ServiceIs DEF Good
    <2> HIDE DEF w
    <2>4. Good([w EXCEPT !.kills = w.kills \ {0}])  BY <2>3, KillsGood
    <2>5. AllGood(svc')  BY <1>1, <2>2, <2>4, OneGood DEF w
    <2>6. QED  BY <1>1, <2>1, <2>5 DEF ProcsInv, AllGood, Machine, Procs!KillTimer
  <1>3. CASE \E s \in Procs!Services : Procs!StartTimer(s)
    <2>1. PICK s \in Procs!Services : Procs!StartTimer(s)  BY <1>3
    <2>2. 0 \in Procs!Ticks /\ svc[s].due[0] \in Nat /\ svc[s].due[0] - 1 \in Nat
      <3>1. 0 \in Procs!Ticks  BY DEF Procs!Ticks
      <3>2. svc[s].due[0] \in Nat /\ svc[s].due[0] > 0  BY <1>1, <2>1, <3>1, ServiceIs DEF Procs!StartTimer
      <3>3. QED  BY <3>1, <3>2
    <2>3. Good([svc[s] EXCEPT !.due[0] = svc[s].due[0] - 1])
      BY <1>1, <2>2, DueGood
    <2>4. Good(Procs!Start([svc[s] EXCEPT !.due[0] = svc[s].due[0] - 1]))
      BY <1>1, <2>3, StartGood DEF Machine
    <2>5. svc' = [svc EXCEPT ![s] = Procs!Start([svc[s] EXCEPT !.due[0] = svc[s].due[0] - 1])]
      BY <2>1 DEF Procs!StartTimer
    <2>6. AllGood(svc')  BY <1>1, <2>4, <2>5, OneGood
    <2>7. QED  BY <1>1, <2>1, <2>6 DEF ProcsInv, AllGood, Machine, Procs!StartTimer
  <1>4. CASE Procs!Tick
    <2> DEFINE k(s) == {t - 1 : t \in svc[s].kills}
               d(s) == [t \in Procs!Ticks |-> IF t + 1 \in Procs!Ticks THEN svc[s].due[t + 1] ELSE 0]
               w(s) == [svc[s] EXCEPT !.kills = k(s), !.due = d(s)]
    <2>1. svc' = [s \in Procs!Services |-> w(s)]
      BY <1>4, Zenon DEF Procs!Tick
    <2>2. \A s \in Procs!Services : k(s) \in SUBSET Procs!Ticks
      <3> SUFFICES ASSUME NEW s \in Procs!Services, NEW t \in svc[s].kills PROVE t - 1 \in Procs!Ticks
        OBVIOUS
      <3>1. 0 \notin svc[s].kills  BY <1>4, Zenon DEF Procs!Tick
      <3>2. t \in 0..4  BY <1>1, ServiceIs DEF Procs!Ticks
      <3>3. t # 0  BY <3>1
      <3>4. QED  BY <3>2, <3>3 DEF Procs!Ticks
    <2>3. \A s \in Procs!Services : d(s) \in [Procs!Ticks -> Nat]
      BY <1>1, ServiceIs
    <2> HIDE DEF k, d
    <2>4. ASSUME NEW s \in Procs!Services PROVE Good(w(s))
      <3> DEFINE v == svc[s]  a == k(s)  b == d(s)
      <3>1. Good(v) /\ a \in SUBSET Procs!Ticks /\ b \in [Procs!Ticks -> Nat]
        BY <1>1, <2>2, <2>3
      <3>2. w(s) = [v EXCEPT !.kills = a, !.due = b]
        OBVIOUS
      <3> HIDE DEF v, a, b
      <3>3. Good([v EXCEPT !.kills = a, !.due = b])  BY <3>1, TimersGood, ZenonT(30)
      <3>4. QED  BY <3>2, <3>3, Zenon
    <2> HIDE DEF w
    <2>5. AllGood(svc')  BY <2>1, <2>4 DEF AllGood, Good
    <2>6. Machine'
      <3>1. UNCHANGED <<ip, seen, up, dev, acts>>  BY <1>4, Zenon DEF Procs!Tick
      <3>2. QED  BY <1>1, <3>1 DEF Machine
    <2>7. QED  BY <2>5, <2>6 DEF ProcsInv, AllGood, Machine
  <1>5. QED  BY <1>2, <1>3, <1>4

LEMMA OutsideKeeps ==
    ASSUME Procs!ManagerAssumption, ProcsInv,
           \/ Procs!AddressChanges \/ Procs!Quit \/ Procs!Relaunch \/ Procs!LaunchDev \/ Procs!StopDev
           \/ \E s \in Procs!Services : Procs!DevListens(s) \/ \E p \in Slots : Procs!Crash(s, p)
    PROVE  ProcsInv'
  <1>1. AllGood(svc) /\ Machine /\ \A s \in Procs!Services : Good(svc[s]) /\ svc[s] \in Procs!Service
    BY DEF ProcsInv, AllGood, Machine
  <1>2. CASE Procs!AddressChanges
    <2>1. PICK a \in IPs \ {ip} :
            /\ ip' = a
            /\ svc' = [s \in Procs!Services |->
                         Procs!Noted(svc[s], "late", a = seen /\ svc[s].handle # None
                                                      /\ svc[s].proc[svc[s].handle].addr # a)]
      BY <1>2 DEF Procs!AddressChanges
    <2> DEFINE w(s) == Procs!Noted(svc[s], "late", a = seen /\ svc[s].handle # None
                                                      /\ svc[s].proc[svc[s].handle].addr # a)
    <2>2. \A s \in Procs!Services : Good(w(s))
      BY <1>1, NotedGood DEF Procs!Notes
    <2>3. svc' = [s \in Procs!Services |-> w(s)]
      BY <2>1
    <2> HIDE DEF w
    <2>4. AllGood(svc')  BY <2>2, <2>3 DEF AllGood, Good
    <2>5. QED  BY <1>1, <1>2, <2>1, <2>4 DEF ProcsInv, AllGood, Machine, Procs!AddressChanges, Procs!Act
  <1>3. CASE Procs!Quit
    <2>1. PICK stays \in [Procs!Services -> BOOLEAN] :
            svc' = [s \in Procs!Services |-> Procs!Abandoned(svc[s], stays[s])]
      BY <1>3 DEF Procs!Quit
    <2>5. AllGood(svc')  BY <2>1, AbandonedGood DEF AllGood, Good
    <2>6. Machine'
      <3>1. up' = FALSE /\ UNCHANGED <<ip, seen, dev>> /\ Procs!Act  BY <1>3, Zenon DEF Procs!Quit
      <3>2. up' \in BOOLEAN  BY <3>1, Zenon
      <3>3. acts' \in Nat /\ ip' \in IPs /\ seen' \in IPs /\ dev' \in {"off", "on"}
        BY <1>1, <3>1 DEF Machine, Procs!Act
      <3>4. QED  BY <3>2, <3>3 DEF Machine
    <2>7. QED  BY <2>5, <2>6 DEF ProcsInv, AllGood, Machine
  <1>4. CASE Procs!Relaunch
    BY <1>1, <1>4 DEF ProcsInv, AllGood, Machine, Procs!Relaunch
  <1>5. CASE Procs!LaunchDev
    <2> DEFINE w(s) == Procs!Noted(Procs!Freed(svc[s]), "outside", TRUE)
    <2>1. \A s \in Procs!Services : Good(w(s))
      BY <1>1, FreedGood, NotedGood DEF Procs!Notes
    <2>2. svc' = [s \in Procs!Services |-> w(s)]
      BY <1>5 DEF Procs!LaunchDev
    <2> HIDE DEF w
    <2>3. AllGood(svc')  BY <2>1, <2>2 DEF AllGood, Good
    <2>4. Machine'  BY <1>1, <1>5 DEF Machine, Procs!LaunchDev, Procs!Act
    <2>5. QED  BY <2>3, <2>4 DEF ProcsInv, AllGood, Machine
  <1>6. CASE Procs!StopDev
    <2> DEFINE w(s) == [svc[s] EXCEPT !.port = IF svc[s].port = "dev" THEN None ELSE svc[s].port]
    <2>1. \A s \in Procs!Services : Good(w(s))
      <3> SUFFICES ASSUME NEW s \in Procs!Services PROVE Good(w(s))
        OBVIOUS
      <3>1. CASE svc[s].port = "dev"
        BY <1>1, <3>1, PortGood
      <3>2. CASE svc[s].port # "dev"
        <4>1. w(s) = svc[s]  BY <1>1, <3>2, ServiceIs
        <4>2. QED  BY <1>1, <4>1
      <3>3. QED  BY <3>1, <3>2
    <2>2. svc' = [s \in Procs!Services |-> w(s)]
      BY <1>6 DEF Procs!StopDev
    <2> HIDE DEF w
    <2>3. AllGood(svc')  BY <2>1, <2>2 DEF AllGood, Good
    <2>4. QED  BY <1>1, <1>6, <2>3 DEF ProcsInv, AllGood, Machine, Procs!StopDev
  <1>7. CASE \E s \in Procs!Services : Procs!DevListens(s)
    <2>1. PICK s \in Procs!Services : Procs!DevListens(s)  BY <1>7
    <2>2. Good(Procs!Noted([svc[s] EXCEPT !.port = "dev"], "outside", TRUE))
      BY <1>1, PortGood, NotedGood DEF Procs!Notes
    <2>3. AllGood(svc')  BY <1>1, <2>1, <2>2, OneGood DEF Procs!DevListens
    <2>4. Machine'  BY <1>1, <2>1 DEF Machine, Procs!DevListens, Procs!Act
    <2>5. QED  BY <2>3, <2>4 DEF ProcsInv, AllGood, Machine
  <1>8. CASE \E s \in Procs!Services, p \in Slots : Procs!Crash(s, p)
    <2>1. PICK s \in Procs!Services, p \in Slots : Procs!Crash(s, p)  BY <1>8
    <2>2. Good(Procs!Noted(Procs!Dies(svc[s], p, "dies"), "outside", TRUE))
      BY <1>1, <2>1, DiesGood, NotedGood DEF Procs!Crash, Procs!Notes
    <2>3. AllGood(svc')  BY <1>1, <2>1, <2>2, OneGood DEF Procs!Crash
    <2>4. Machine'  BY <1>1, <2>1 DEF Machine, Procs!Crash, Procs!Act
    <2>5. QED  BY <2>3, <2>4 DEF ProcsInv, AllGood, Machine
  <1>9. QED  BY <1>2, <1>3, <1>4, <1>5, <1>6, <1>7, <1>8

LEMMA ProcsStep == Procs!ManagerAssumption /\ ProcsInv /\ [Procs!Next]_(Procs!vars) => ProcsInv'
  <1> SUFFICES ASSUME Procs!ManagerAssumption, ProcsInv, [Procs!Next]_(Procs!vars) PROVE ProcsInv'
    OBVIOUS
  <1>1. CASE UNCHANGED Procs!vars
    BY <1>1 DEF Procs!vars, ProcsInv
  <1>2. CASE Procs!Progress
    BY <1>2, TimersKeep, PressKeeps, KillKeeps, SpawnKeeps, ListenKeeps, ExitedKeeps DEF Procs!Progress
  <1>3. CASE \/ Procs!PressStartBoth \/ Procs!PressStopBoth \/ Procs!PressRestart
             \/ \E s \in Procs!Services : Procs!PressStart(s) \/ Procs!PressStop(s)
    BY <1>3, PressKeeps
  <1>4. CASE \/ Procs!AddressChanges \/ Procs!Quit \/ Procs!Relaunch \/ Procs!LaunchDev \/ Procs!StopDev
             \/ \E s \in Procs!Services : Procs!DevListens(s) \/ \E p \in Slots : Procs!Crash(s, p)
    BY <1>4, OutsideKeeps
  <1>5. QED  BY <1>1, <1>2, <1>3, <1>4 DEF Procs!Next

\* Services, timers and processes keep their types.
THEOREM ProcsTyped == Procs!Spec => []Procs!TypeOK
  <1>1. Procs!Init => ProcsInv  BY ProcsInit, ProcsAssumption
  <1>2. ProcsInv /\ [Procs!Next]_(Procs!vars) => ProcsInv'  BY ProcsStep, ProcsAssumption
  <1>3. ProcsInv => Procs!TypeOK  BY DEF ProcsInv, Procs!TypeOK
  <1>4. QED  BY <1>1, <1>2, <1>3, PTL DEF Procs!Spec

\* Whatever the manager spawned and is alive is what its handle names and Stop
\* reaches (startBackend, the exit events), unless two starts overlapped.
THEOREM NoStraysCorrect == Procs!Spec => []NoStrays
  <1>1. Procs!Init => ProcsInv  BY ProcsInit, ProcsAssumption
  <1>2. ProcsInv /\ [Procs!Next]_(Procs!vars) => ProcsInv'  BY ProcsStep, ProcsAssumption
  <1>3. ProcsInv => NoStrays
    BY DEF ProcsInv, Good, NoStrays, Procs!NoStrays
  <1>4. QED  BY <1>1, <1>2, <1>3, PTL DEF Procs!Spec
==============================================================================
