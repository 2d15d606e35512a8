------------------------------ MODULE Manager ------------------------------
(***************************************************************************)
(* The processes of an installation: manager.js, which starts and stops    *)
(* the backend and the frontend from its page and restarts them when the   *)
(* LAN address changes, and dev.js, which starts both from a console.      *)
(*                                                                         *)
(* The manager keeps one handle per service.  Starting is asynchronous:    *)
(* the address is read, the port is cleared, and only then the process is  *)
(* spawned and the handle set.  Stopping sends SIGTERM and arms a timer    *)
(* that sends SIGKILL to whatever the handle is when it fires.  Timers are *)
(* counted in ticks that keep the order of the delays in the code (2 s,    *)
(* 4 s, 5 s, 6.5 s).                                                       *)
(***************************************************************************)
EXTENDS Integers

CONSTANTS
    IPs,        \* LAN addresses of the machine
    Slots,      \* processes of a service that can exist at a time
    None,       \* no process, no listener
    MaxActs     \* bound of the runs: presses, moves of the address, crashes

\* Assumed by the modules that give these constants a value.
ManagerAssumption ==
    /\ Slots # {}
    /\ IPs # {}
    /\ None \notin {"left", "dev"} /\ Slots \cap {None, "left", "dev"} = {}
    /\ MaxActs \in Nat

VARIABLES
    svc,    \* per service: processes, handle, listener, timers
    ip,     \* the LAN address of the machine
    seen,   \* lastLanIp
    up,     \* the manager runs
    dev,    \* the launcher of dev.js: "off", "on"
    acts    \* events so far, for the bound

vars == <<svc, ip, seen, up, dev, acts>>

Services == {"backend", "frontend"}

BothDelay == 1      \* setTimeout(startFrontend, 2000)
KillDelay == 2      \* setTimeout(SIGKILL, 4000)
RestartDelay(s) == IF s = "backend" THEN 3 ELSE 4   \* 5000; 5000 + 1500
Ticks == 0..4

\* A process: its port is being cleared ("scan") or is clear ("clear"), it is
\* starting ("boot"), listens ("up"), or is dead with its exit event under way.
Pending == {"scan", "clear"}
Alive   == {"boot", "up"}
Holders == Slots \cup {None, "left", "dev"}

Notes == {"twice", "early", "pending", "undone", "orphan", "late", "outside"}

Process == [st : {"none", "dead"} \cup Pending \cup Alive, addr : IPs]

\* "left": a server that outlived the process of its handle, or its manager;
\* "dev": a server of dev.js.  due[t] counts the starts due in t ticks.
\* last and note are for the properties: the last button that was pressed, and
\* what befell the service since the manager was started.
Service == [proc : [Slots -> Process], handle : Slots \cup {None}, port : Holders,
            kills : SUBSET Ticks, due : [Ticks -> Nat],
            last : {"none", "start", "stop"},
            note : SUBSET Notes]

TypeOK ==
    /\ svc \in [Services -> Service]
    /\ ip \in IPs /\ seen \in IPs
    /\ up \in BOOLEAN
    /\ dev \in {"off", "on"}
    /\ acts \in Nat

Fresh(port) ==
    [proc |-> [p \in Slots |-> [st |-> "none", addr |-> CHOOSE a \in IPs : TRUE]],
     handle |-> None, port |-> port, kills |-> {}, due |-> [t \in Ticks |-> 0],
     last |-> "none", note |-> IF port = None THEN {} ELSE {"orphan"}]

Init ==
    /\ ip \in IPs /\ seen = ip
    /\ svc = [s \in Services |-> Fresh(None)]
    /\ up = TRUE /\ dev = "off" /\ acts = 0

Act == acts < MaxActs /\ acts' = acts + 1

------------------------------------------------------------------------------
\* What is done to a service v

IsPending(v)  == \E p \in Slots : v.proc[p].st \in Pending
Free(v)       == {p \in Slots : v.proc[p].st = "none"}
Noted(v, n, b) == IF b THEN [v EXCEPT !.note = @ \cup {n}] ELSE v

\* A SIGKILL timer is armed, or the exit of the process has not been told.
StillStopping(v) ==
    \/ v.kills # {}
    \/ v.handle # None /\ v.proc[v.handle].st = "dead"

\* A process is added whose port is to be cleared.
Begin(v) ==
    LET p == CHOOSE q \in Free(v) : TRUE
    IN  Noted([v EXCEPT !.proc[p] = [st |-> "scan", addr |-> ip]],
              "twice", IsPending(v))

\* Mutant: the handle is not looked at.
StartAnyway(v) ==
    LET w == Noted(v, "early", StillStopping(v))
    IN  IF Free(v) = {} THEN w ELSE Begin(w)

\* startBackend, startFrontend: the handle is looked at and the address read;
\* the rest follows when the port is clear.
Start(v) ==
    LET w == Noted(v, "early", StillStopping(v))
    IN  IF v.handle # None \/ Free(v) = {} THEN w ELSE Begin(w)

\* Process p dies: its listener goes with it, or stays behind.
Dies(v, p, out) ==
    LET w == [v EXCEPT !.proc[p].st = "dead"]
    IN  IF out = "leaves" /\ v.port \in {p, None} THEN [w EXCEPT !.port = "left"]
        ELSE IF v.port = p THEN [w EXCEPT !.port = None] ELSE w

\* Whoever listens on the port is killed, and the port is free.
Freed(v) == IF v.port \in Slots THEN Dies(v, v.port, "dies") ELSE [v EXCEPT !.port = None]

\* What a signal comes to.  The backend is a node process without handlers; the
\* frontend is a shell over npm, which may take its time over a SIGTERM and may
\* leave the server it started behind.
Outcomes(s, signal) ==
    IF s = "backend" THEN {"dies"}
    ELSE IF signal = "SIGTERM" THEN {"dies", "leaves", "stays"} ELSE {"dies", "leaves"}

Signal(v, out) ==
    IF v.handle = None \/ out = "stays" THEN v
    ELSE IF v.proc[v.handle].st \in Alive
         THEN Noted(Dies(v, v.handle, out), "orphan", out = "leaves") ELSE v

\* Mutant: no SIGKILL timer is armed.
StopGently(v, out) == IF v.handle = None THEN v ELSE Signal(v, out)

\* stopBackend, stopFrontend
Stop(v, out) ==
    IF v.handle = None THEN v
    ELSE [Signal(v, out) EXCEPT !.kills = @ \cup {KillDelay}]

Delay(v, t) == [v EXCEPT !.due[t] = @ + 1]

\* What the operator wants of the service, from now on.  Neither a start whose
\* port is being cleared nor one that is due is taken back by a Stop.
Want(v, what) ==
    Noted([v EXCEPT !.last = what], "pending",
          what = "stop" /\ (\/ v.handle = None /\ IsPending(v)
                            \/ \E t \in Ticks : v.due[t] > 0))

\* networkRefreshAndRestart: what has a handle is stopped and started again.
Restart(v, s, out) ==
    IF v.handle = None THEN v ELSE Delay(Stop(v, out), RestartDelay(s))

------------------------------------------------------------------------------
\* The page of the manager

PressStart(s) ==
    /\ up /\ Act
    /\ svc' = [svc EXCEPT ![s] = Want(Start(svc[s]), "start")]
    /\ UNCHANGED <<ip, seen, up, dev>>

PressStop(s) ==
    /\ up /\ Act
    /\ \E out \in Outcomes(s, "SIGTERM") :
         svc' = [svc EXCEPT ![s] = Stop(Want(svc[s], "stop"), out)]
    /\ UNCHANGED <<ip, seen, up, dev>>

PressStartBoth ==
    /\ up /\ Act
    /\ svc' = [svc EXCEPT !["backend"]  = Want(Start(svc["backend"]), "start"),
                          !["frontend"] = Want(Delay(svc["frontend"], BothDelay), "start")]
    /\ UNCHANGED <<ip, seen, up, dev>>

PressStopBoth ==
    /\ up /\ Act
    /\ \E out \in Outcomes("frontend", "SIGTERM") :
         svc' = [svc EXCEPT !["backend"]  = Stop(Want(svc["backend"], "stop"), "dies"),
                            !["frontend"] = Stop(Want(svc["frontend"], "stop"), out)]
    /\ UNCHANGED <<ip, seen, up, dev>>

RestartAll(out) == [s \in Services |-> Restart(svc[s], s, IF s = "backend" THEN "dies" ELSE out)]

\* The button "Restart": what has a handle is wanted.
PressRestart ==
    /\ up /\ Act
    /\ \E out \in Outcomes("frontend", "SIGTERM") :
         svc' = [s \in Services |-> IF svc[s].handle = None THEN svc[s]
                                    ELSE Want(RestartAll(out)[s], "start")]
    /\ UNCHANGED <<ip, seen, up, dev>>

------------------------------------------------------------------------------
\* The manager's promises, timers and events

\* The manager is gone, its timers and promises with it; a process that is alive
\* stays behind or dies of its broken pipe.
Abandoned(v, stays) ==
    Fresh(IF v.port \in {"left", "dev"} THEN v.port
          ELSE IF (\E p \in Slots : v.proc[p].st \in Alive) /\ stays THEN "left" ELSE None)

\* killPort: whoever listens on the port is killed.  The search is for whatever has
\* a socket there or a line with its digits, which may be the server of the other
\* service or the manager itself, that looks after the port.
Kill(s, p) ==
    /\ up /\ svc[s].proc[p].st = "scan"
    /\ LET cleared == [svc EXCEPT ![s] = Freed([svc[s] EXCEPT !.proc[p].st = "clear"])]
       IN \/ /\ svc' = cleared
             /\ UNCHANGED <<up, acts>>
          \/ /\ Act
             /\ \E o \in Services \ {s} :
                  svc' = [cleared EXCEPT ![o] = Noted(Freed(svc[o]), "outside", TRUE)]
             /\ UNCHANGED up
          \/ /\ Act /\ up' = FALSE
             /\ \E stays \in [Services -> BOOLEAN] :
                  svc' = [x \in Services |-> Abandoned(cleared[x], stays[x])]
    /\ UNCHANGED <<ip, seen, dev>>

\* The process is spawned with the address that was read before.  The monitor
\* will not see to it if it has seen the present address already.
Spawn(s, p) ==
    /\ up /\ svc[s].proc[p].st = "clear"
    /\ LET v == [svc[s] EXCEPT !.proc[p].st = "boot", !.handle = p]
       IN svc' = [svc EXCEPT ![s] = Noted(v, "late", v.proc[p].addr # ip /\ seen = ip)]
    /\ UNCHANGED <<ip, seen, up, dev, acts>>

\* The process listens, or finds its port taken and exits.
Listen(s, p) ==
    /\ svc[s].proc[p].st = "boot"
    /\ LET v == svc[s]
       IN svc' = [svc EXCEPT ![s] = IF v.port = None
                                    THEN [v EXCEPT !.port = p, !.proc[p].st = "up"]
                                    ELSE Dies(v, p, "dies")]
    /\ UNCHANGED <<ip, seen, up, dev, acts>>

\* The exit event clears the handle, whichever process it is about.
Exited(s, p) ==
    /\ up /\ svc[s].proc[p].st = "dead"
    /\ LET v == svc[s]
       IN svc' = [svc EXCEPT ![s] = [v EXCEPT !.handle = None, !.proc[p] = Fresh(None).proc[p]]]
    /\ UNCHANGED <<ip, seen, up, dev, acts>>

KillTimer(s) ==
    /\ up /\ 0 \in svc[s].kills
    /\ \E out \in Outcomes(s, "SIGKILL") :
         svc' = [svc EXCEPT ![s] = [Signal(svc[s], out) EXCEPT !.kills = @ \ {0}]]
    /\ UNCHANGED <<ip, seen, up, dev, acts>>

StartTimer(s) ==
    /\ up /\ svc[s].due[0] > 0
    /\ svc[s].handle = None => Free(svc[s]) # {}
    /\ svc' = [svc EXCEPT ![s] = Start([svc[s] EXCEPT !.due[0] = @ - 1])]
    /\ UNCHANGED <<ip, seen, up, dev, acts>>

\* Time passes once the timers that are due have fired; an exit event takes
\* less than a tick.
Tick ==
    /\ up
    /\ \A s \in Services : /\ 0 \notin svc[s].kills /\ svc[s].due[0] = 0
                           /\ \A p \in Slots : svc[s].proc[p].st # "dead"
    /\ \E s \in Services : svc[s].kills # {} \/ \E t \in Ticks : svc[s].due[t] > 0
    /\ svc' = [s \in Services |->
                 [svc[s] EXCEPT !.kills = {t - 1 : t \in @},
                                !.due = [t \in Ticks |-> IF t + 1 \in Ticks THEN svc[s].due[t + 1] ELSE 0]]]
    /\ UNCHANGED <<ip, seen, up, dev, acts>>

\* Mutant: the monitor only notes the new address.
NoteNetwork ==
    /\ up /\ seen # ip
    /\ seen' = ip
    /\ UNCHANGED <<svc, ip, up, dev, acts>>

\* monitorNetwork, every ten seconds: it restarts what has a handle, though it be
\* on its way down.
MonitorNetwork ==
    /\ up /\ seen # ip
    /\ seen' = ip
    /\ \E out \in Outcomes("frontend", "SIGTERM") :
         svc' = [s \in Services |-> Noted(RestartAll(out)[s], "undone",
                                          svc[s].handle # None /\ svc[s].last = "stop")]
    /\ UNCHANGED <<ip, up, dev, acts>>

------------------------------------------------------------------------------
\* What happens to the machine

\* The monitor misses a change that is taken back before it looks.
AddressChanges ==
    /\ Act
    /\ \E a \in IPs \ {ip} :
         /\ ip' = a
         /\ svc' = [s \in Services |->
                      Noted(svc[s], "late", a = seen /\ svc[s].handle # None
                                              /\ svc[s].proc[svc[s].handle].addr # a)]
    /\ UNCHANGED <<seen, up, dev>>

\* A process ends by itself.
Crash(s, p) ==
    /\ Act
    /\ svc[s].proc[p].st \in Alive
    /\ svc' = [svc EXCEPT ![s] = Noted(Dies(svc[s], p, "dies"), "outside", TRUE)]
    /\ UNCHANGED <<ip, seen, up, dev>>

\* The manager ends: by SIGINT, which signals its processes, or by a crash.
Quit ==
    /\ up /\ Act
    /\ up' = FALSE
    /\ \E stays \in [Services -> BOOLEAN] :
         svc' = [s \in Services |-> Abandoned(svc[s], stays[s])]
    /\ UNCHANGED <<ip, seen, dev>>

Relaunch ==
    /\ ~up
    /\ up' = TRUE /\ seen' = ip
    /\ UNCHANGED <<svc, ip, dev, acts>>

\* dev.js kills whoever listens on the two ports and starts servers of its own.
LaunchDev ==
    /\ dev = "off" /\ Act
    /\ dev' = "on"
    /\ svc' = [s \in Services |-> Noted(Freed(svc[s]), "outside", TRUE)]
    /\ UNCHANGED <<ip, seen, up>>

DevListens(s) ==
    /\ dev = "on" /\ svc[s].port = None /\ Act
    /\ svc' = [svc EXCEPT ![s] = Noted([svc[s] EXCEPT !.port = "dev"], "outside", TRUE)]
    /\ UNCHANGED <<ip, seen, up, dev>>

StopDev ==
    /\ dev = "on"
    /\ dev' = "off"
    /\ svc' = [s \in Services |-> [svc[s] EXCEPT !.port = IF @ = "dev" THEN None ELSE @]]
    /\ UNCHANGED <<ip, seen, up, acts>>

------------------------------------------------------------------------------
\* The steps the manager and its processes take by themselves.
Progress ==
    \/ Tick \/ MonitorNetwork
    \/ \E s \in Services : \/ KillTimer(s) \/ StartTimer(s)
                           \/ \E p \in Slots : \/ Kill(s, p) \/ Spawn(s, p)
                                               \/ Listen(s, p) \/ Exited(s, p)

Next ==
    \/ Progress
    \/ PressStartBoth \/ PressStopBoth \/ PressRestart
    \/ AddressChanges \/ Quit \/ Relaunch \/ LaunchDev \/ StopDev
    \/ \E s \in Services : \/ PressStart(s) \/ PressStop(s) \/ DevListens(s)
                           \/ \E p \in Slots : Crash(s, p)

\* Timers fire, promises resolve and signals are delivered; the monitor runs on
\* an interval.  Nobody has to press anything, and nothing has to fail.
Fairness == WF_vars(Progress)

Spec == Init /\ [][Next]_vars /\ Fairness

------------------------------------------------------------------------------
\* Properties

\* The manager never loses a process it spawned: whatever is alive is what the
\* handle names and the Stop button reaches, unless Start was pressed (or a
\* delayed start came due) while the port was still being cleared for another
\* start, when both spawn and the exit of one takes the handle of the other.  (It
\* spawned the shell of the frontend, not the server that npm starts below it.)
NoStrays ==
    \A s \in Services, p \in Slots :
        svc[s].proc[p].st \in Alive => svc[s].handle = p \/ "twice" \in svc[s].note

Running(s) ==
    LET v == svc[s] IN v.handle # None /\ v.port = v.handle /\ v.proc[v.handle].st = "up"

Spoilt(s, notes) == svc[s].note \cap notes # {}

Down(s) == svc[s].handle = None /\ svc[s].port = None

\* The last button wins.  A Start or Restart ends with the service up and its port
\* taken over from whoever had it, unless it came before an earlier stop was over
\* with its SIGKILL timer, two starts overlapped, or somebody else interfered.  A
\* Stop ends with no process and nobody on the port, unless a start was under way
\* or due, which no Stop takes back, or the monitor restarted what was going down
\* for a new address; and a server may be on the port that is none of the handle's:
\* of npm, left behind by its shell, of an earlier manager, or of dev.js.
LastPressPrevails ==
    \A s \in Services :
        <>[](up =>
               /\ svc[s].last = "start" /\ ~Spoilt(s, {"early", "twice", "outside"}) => Running(s)
               /\ svc[s].last = "stop" /\ ~Spoilt(s, {"pending", "twice", "undone"}) =>
                    svc[s].handle = None /\ (Spoilt(s, {"orphan", "outside"}) \/ Down(s)))

\* Stated by the button of the page ("Stop") and its status ("Stopped"): in the end
\* nobody listens on the port of a service that was stopped last.
StopFreesPort == \A s \in Services : <>[](up /\ svc[s].last = "stop" => Down(s))

\* The services follow the machine to its new address: in the end what runs was
\* started for the present one, unless the address was read before a change and
\* used after the monitor had dealt with it, or the address changed and changed
\* back between two looks of the monitor.
AddressFollowed ==
    \A s \in Services :
        <>[](up /\ svc[s].handle # None /\ ~Spoilt(s, {"late"})
                => svc[s].proc[svc[s].handle].addr = ip)
=============================================================================
