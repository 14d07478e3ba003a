--------------------------- MODULE ServiceControl ---------------------------
(***************************************************************************)
(* How one service is started, stopped and restarted: control_service of   *)
(* the dashboard for the services of its own machine (app.py), and of the  *)
(* agent (agent.py) with its three platform handlers; and the dashboard's  *)
(* website manager (app.py) for a component of a website, by itself or     *)
(* with all others of its site.  Each call runs in a thread of its own;    *)
(* nothing keeps two calls about one service apart.                        *)
(*                                                                         *)
(* The handlers run commands of a service manager (systemctl, launchctl,   *)
(* docker compose, ...).  One that succeeds has had its effect or will     *)
(* have it, but for launchctl load and unload, which can fail and exit     *)
(* with 0; one that fails may have had it.  What a manager does is         *)
(* external; which commands are run, in which order and with what regard   *)
(* for their outcome is the code's.                                        *)
(***************************************************************************)
EXTENDS FiniteSets

CONSTANTS Callers,   \* threads that serve control calls
          Kinds      \* the kinds of services looked at, a subset of AllKinds

\* Who serves the calls, the manager its code branches on, and what the entry
\* has the command for (compose_dir, start_cmd, stop_cmd).
Both == {"start", "stop"}
Kind(host, managers, can) == [host : {host}, manager : managers, can : can]

LinuxKinds == Kind("linux", {"systemd"}, {Both}) \cup Kind("linux", {"docker"}, {{}, Both})
              \cup Kind("linux", {"process"}, SUBSET Both)
DarwinKinds == Kind("darwin", {"docker"}, {{}, Both})
               \cup Kind("darwin", {"pm2", "homebrew", "launchd"}, {Both})
WindowsKinds == Kind("windows", {"docker"}, {{}, Both})
                \cup Kind("windows", {"wsl-docker", "nssm", "windows-service"}, {Both})
DashboardKinds == Kind("dashboard", {"disabled", "system", "tailscale", "orbstack", "docker",
                                     "pm2", "systemd", "homebrew", "launchd"}, {Both})

\* A component of a website is controlled by itself ("website") or with all others
\* ("site").  "elsewhere" is a container on another machine that the code takes for
\* a launchd job of this one: there is no such job.
WebsiteHosts == {"website", "site"}
WebsiteKinds == UNION {Kind(host, {"systemd", "homebrew", "docker", "launchd"}, {Both})
                       \cup Kind(host, {"elsewhere"}, {{}}) : host \in WebsiteHosts}

AllKinds == LinuxKinds \cup DarwinKinds \cup WindowsKinds \cup DashboardKinds
            \cup WebsiteKinds

ASSUME ControlAssumption == Kinds \subseteq AllKinds

\* The kinds of which the serving process is itself a service.
SelfKinds == Kind("linux", {"systemd"}, {Both}) \cup Kind("dashboard", {"launchd"}, {Both})

VARIABLES kind,    \* the kind of the service
          self,    \* the service is the process that serves the calls
          up,      \* the manager keeps the service running
          call,    \* per caller: what it was asked for and the command it is at
          left,    \* effects of commands that their caller no longer waits for
          blamed   \* history: a stop was asked for, or something failed, since
                   \* the service was last up

vars == <<kind, self, up, call, left, blamed>>

Idle == [action |-> "none", at |-> "idle"]
Commands == {"start", "stop", "restart", "try"}
Effects == {"start", "stop", "restart"}
Actions == Effects \cup {"logs", "other"}

Init ==
    /\ kind \in Kinds
    /\ self \in IF kind \in SelfKinds THEN BOOLEAN ELSE {FALSE}
    /\ up \in IF self THEN {TRUE} ELSE BOOLEAN
    /\ call = [c \in Callers |-> Idle]
    /\ left = {}
    /\ blamed = ~up
-----------------------------------------------------------------------------
(* The branches of the handlers.                                           *)

DashboardRefuses(action) ==
    \/ kind.manager \in {"disabled", "system"}
    \/ kind.manager = "tailscale" /\ action \notin {"start", "restart"}
    \/ kind.manager \in {"systemd", "homebrew", "launchd"} /\ action \notin Effects

Refused(action) ==
    IF kind.host = "dashboard" THEN DashboardRefuses(action) ELSE action \notin Effects

\* One command of the manager restarts the service, but for launchd.
WebsiteRestart == kind.host \in WebsiteHosts /\ kind.manager \in {"systemd", "homebrew", "docker"}

HasRestart ==
    \/ kind.host = "dashboard" /\ kind.manager \in {"docker", "pm2", "systemd", "homebrew"}
    \/ WebsiteRestart

\* restart_service of linux.py falls back on a stop and a start.
TriesRestart == kind.host = "linux" /\ kind.manager = "systemd"

\* Fault: an action is taken for the name of a command.
FirstUnchecked(action) == action

\* An action that no branch knows falls through to the success at the end.
First(action) ==
    IF action = "logs" /\ kind.host # "site" THEN "logs"
    ELSE IF Refused(action) THEN "failed"
    ELSE IF action = "restart" THEN IF TriesRestart THEN "try"
                                    ELSE IF HasRestart THEN "restart" ELSE "stop"
    ELSE IF action \in Both THEN action ELSE "ok"

\* systemd holds at most one job for a unit, and a new one replaces it.
OneJob == kind.manager = "systemd"

\* systemctl is given 10 or 15 seconds, each command for a website 5 to 15.
Limited == OneJob \/ kind.host \in WebsiteHosts

\* The outcome of these commands is not looked at.
Unseen ==
    \/ kind.host \in WebsiteHosts /\ kind.manager \in {"launchd", "elsewhere"}
    \/ kind.host = "site" /\ kind.manager = "systemd"

\* The legacy load and unload of launchctl can fail and exit with 0 all the same.
Legacy == kind.manager = "launchd"

\* start_service of linux.py does not wait for start_cmd.
Spawns == kind.host = "linux" /\ kind.manager = "process"

\* sc asks for a start or a stop and returns; it takes no request while another
\* one is pending.
Asks == kind.manager = "windows-service"
Pending == Asks /\ left # {}

Goal(effect) == effect # "stop"
EffectOf(command) == IF command = "try" THEN "restart" ELSE command
Blame(fault) == blamed' = (~up' /\ (blamed \/ fault))

At(c) == call[c].at
Lacks(c) == At(c) \in Both \ kind.can
Goto(c, at) == call' = [call EXCEPT ![c] = [@ EXCEPT !.at = at]]

\* Fault: a restart ends when its stop fails.
AfterErrorGivesUp(c) == IF At(c) = "try" THEN "stop" ELSE IF Unseen THEN "ok" ELSE "failed"

\* What follows a command that did not succeed: a restart goes on to its start
\* whatever became of its stop.
AfterError(c) ==
    IF At(c) = "try" THEN "stop"
    ELSE IF At(c) = "stop" /\ call[c].action = "restart" THEN "start"
    ELSE IF Unseen THEN "ok"
    ELSE "failed"

\* A launchctl for a website that takes too long ends the whole call.
AfterTimeOut(c) == IF kind.manager = "launchd" THEN "failed" ELSE AfterError(c)

\* The serving process is gone, and with it all its calls; systemd finishes
\* its job, launchd has none.
Killed ==
    /\ call' = [c \in Callers |-> Idle]
    /\ Blame(TRUE)

-----------------------------------------------------------------------------
(* A call, from its arrival to its answer.                                 *)

Ask(c) ==
    /\ call[c] = Idle /\ (self => up)
    /\ \E action \in Actions :
          call' = [call EXCEPT ![c] = [action |-> action, at |-> First(action)]]
    /\ UNCHANGED <<kind, self, up, left, blamed>>

\* Fault: the outcome of a start is not looked at (check=True is missing).
StartUnchecked(c) ==
    /\ At(c) = "start" /\ ~Lacks(c)
    /\ Goto(c, "ok")
    /\ UNCHANGED <<kind, self, up, left, blamed>>

\* The command is carried out, or handed over.
Start(c) ==
    /\ At(c) = "start" /\ ~Lacks(c) /\ ~Pending
    /\ IF Spawns \/ Asks THEN left' = left \cup {"start"} /\ UNCHANGED up
       ELSE left' = (IF OneJob THEN {} ELSE left) /\ up' = TRUE
    /\ Goto(c, "ok")
    /\ Blame(FALSE)
    /\ UNCHANGED <<kind, self>>

Stop(c) ==
    /\ At(c) = "stop" /\ ~Lacks(c) /\ ~Pending
    /\ IF Asks THEN left' = left \cup {"stop"} /\ UNCHANGED up
       ELSE left' = (IF OneJob THEN {} ELSE left) /\ up' = FALSE
    /\ IF self THEN Killed
       ELSE IF call[c].action = "restart" THEN Goto(c, "start") /\ Blame(FALSE)
       ELSE Goto(c, "ok") /\ Blame(TRUE)
    /\ UNCHANGED <<kind, self>>

\* The manager stops the service and then starts it again.
RestartStops(c) ==
    /\ At(c) \in {"restart", "try"} /\ up
    /\ up' = FALSE
    /\ IF self THEN left' = {"start"} /\ Killed
               ELSE UNCHANGED <<call, left>> /\ Blame(FALSE)
    /\ UNCHANGED <<kind, self>>

RestartStarts(c) ==
    /\ At(c) \in {"restart", "try"} /\ ~self
    /\ up' = TRUE
    /\ left' = IF OneJob THEN {} ELSE left
    /\ Goto(c, "ok")
    /\ Blame(FALSE)
    /\ UNCHANGED <<kind, self>>

\* What is lost when the command has not had its effect.
Fault(c) == At(c) \in {"start", "restart"} \/ call[c].action = "stop"

\* What the caller goes on to then: a failed load or unload can look like a success.
AfterFailed(c) == {AfterError(c)} \cup (IF Legacy /\ AfterError(c) = "failed" THEN {"ok"} ELSE {})

\* The command fails, with or without its effect, or there is none to run.
Error(c) ==
    /\ At(c) \in Commands
    /\ up' \in {up} \cup (IF self \/ Lacks(c) THEN {}
                         ELSE IF At(c) \in {"restart", "try"} THEN BOOLEAN ELSE {Goal(At(c))})
    /\ left' \in IF OneJob THEN {left, {}} ELSE {left}
    /\ \E at \in AfterFailed(c) : Goto(c, at)
    /\ Blame(Fault(c))
    /\ UNCHANGED <<kind, self>>

\* The time is over; systemd keeps the job, and another manager may.  A manager
\* that has no such job says so at once.
TimeOut(c) ==
    /\ At(c) \in Commands /\ Limited /\ ~Lacks(c)
    /\ left' = {EffectOf(At(c))} \cup (IF OneJob THEN {} ELSE left)
    /\ Goto(c, AfterTimeOut(c))
    /\ UNCHANGED <<kind, self, up>>
    /\ Blame(At(c) = "stop" /\ AfterTimeOut(c) # "start")

\* Logs are only read; a file or a command that fails is mostly told in the text.
ReadLogs(c) ==
    /\ At(c) = "logs"
    /\ Goto(c, "ok") \/ Goto(c, "failed")
    /\ UNCHANGED <<kind, self, up, left, blamed>>

Reply(c) ==
    /\ At(c) \in {"ok", "failed"}
    /\ call' = [call EXCEPT ![c] = Idle]
    /\ UNCHANGED <<kind, self, up, left, blamed>>

Serve(c) == \/ Start(c) \/ Stop(c) \/ RestartStops(c) \/ RestartStarts(c)
            \/ Error(c) \/ TimeOut(c) \/ ReadLogs(c) \/ Reply(c)

-----------------------------------------------------------------------------
(* Around the calls.                                                       *)

\* What was left behind takes effect.
Late ==
    \E e \in left :
        /\ up' = (e = "start")
        /\ left' = (left \ {e}) \cup (IF e = "restart" THEN {"start"} ELSE {})
        /\ IF self /\ up /\ ~up' THEN Killed ELSE UNCHANGED call /\ Blame(e = "stop")
        /\ UNCHANGED <<kind, self>>

LateFails ==
    \E e \in left :
        /\ left' = left \ {e}
        /\ UNCHANGED <<kind, self, up, call>>
        /\ Blame(TRUE)

\* restart_dashboard, or a crash: the serving process comes back at once, its
\* calls end unanswered, and commands that were running may go on.
ControllerStops ==
    /\ self => up
    /\ \E going \in SUBSET {EffectOf(At(c)) : c \in {d \in Callers : At(d) \in Commands}} :
          left' \in IF OneJob THEN {left} \cup {{e} : e \in going} ELSE {left \cup going}
    /\ call' = [c \in Callers |-> Idle]
    /\ UNCHANGED <<kind, self, up>>
    /\ Blame(TRUE)

\* It ends and its manager lets it be.
Dies ==
    /\ up /\ ~self
    /\ up' = FALSE
    /\ Blame(TRUE)
    /\ UNCHANGED <<kind, self, call, left>>

\* With the serving process down, only somebody at the machine can start it.
StartedByHand ==
    /\ self /\ ~up
    /\ up' = TRUE
    /\ Blame(FALSE)
    /\ UNCHANGED <<kind, self, call, left>>

Next == \/ \E c \in Callers : Ask(c) \/ Serve(c)
        \/ Late \/ LateFails \/ ControllerStops \/ Dies \/ StartedByHand

Spec == Init /\ [][Next]_vars
-----------------------------------------------------------------------------
\* The shape of the state.
TypeOK ==
    /\ kind \in Kinds
    /\ self \in BOOLEAN /\ (self => kind \in SelfKinds)
    /\ up \in BOOLEAN /\ blamed \in BOOLEAN
    /\ call \in [Callers -> {Idle} \cup
          [action : Actions, at : Commands \cup {"logs", "ok", "failed"}]]
    /\ left \subseteq Effects

\* The answers of success that do not depend on the outcome.
Untold == Unseen \/ Legacy

\* The promise, with the answer a thread is about to give and what was left.  A
\* success that does not depend on the outcome says no more than a failure.
Answer(at) ==
    CASE at = "ok" /\ ~Untold -> "success"
      [] at = "failed" \/ (at = "ok" /\ Untold) -> "failure"
      [] OTHER -> "none"

Promise == INSTANCE ServicePromise WITH
    stray <- left,
    call <- [c \in Callers |-> [action |-> call[c].action, answer |-> Answer(At(c))]]

\* No interleaving of calls, failures, timeouts and restarts of the serving
\* process lets a call report a success that was not one, or lets the service
\* come up without somebody having asked for it (both control_service, and the
\* website manager).  Answers that do not look at the outcome, and those that rest
\* on the exit status of launchctl load and unload, promise nothing.
KeepsPromise == Promise!Spec

Busy == \E c \in Callers : At(c) \in {"restart", "try", "start"}
                           \/ (At(c) = "stop" /\ call[c].action = "restart")

\* A service that is down stays down for a reason: a restart or start is still
\* under way, a stop was asked for, or a command, the service or the serving
\* process failed since it was last up.  In particular no interleaving of
\* restarts leaves it down (restart_service, control_service).
DownIsExplained == ~up => Busy \/ left \cap {"start", "restart"} # {} \/ blamed

\* "Try unload first, ignore errors if already unloaded", "Then load": the load
\* follows the unload that took the service down (app.py, control_service).
ThenLoad ==
    [][\A c \in Callers :
          /\ call[c] = [action |-> "restart", at |-> "stop"]
          /\ call'[c] # call[c]
          /\ up /\ ~up'
          => call'[c].at = "start"]_vars
=============================================================================
