---------------------------- MODULE RemoteStatus ----------------------------
(***************************************************************************)
(* The dashboard's view of one service on another machine, and the calls   *)
(* that control it (dashboard/app.py).  What the machine does for a call is*)
(* left open: it starts or stops the service, as often as it likes.  The   *)
(* service has a port, which the machine accepts while the service runs.   *)
(*                                                                         *)
(* Three caches are shared by the background thread and the HTTP threads   *)
(* without a lock: reachability, the batch fetched from the machine, and   *)
(* the page that /api/status answers.  An entry that is past its time to   *)
(* live is treated as absent, so expiry is its removal at any time.        *)
(***************************************************************************)
EXTENDS Naturals

CONSTANTS Background,   \* the thread of _bg_status_loop
          Readers,      \* HTTP threads that answer /api/status
          Callers       \* HTTP threads that control the service

ASSUME RemoteAssumption == Background \notin Readers

Updaters == {Background} \cup Readers

VARIABLES manager,  \* how the service is controlled: by an agent or by ssh
          running,  \* the service runs
          up,       \* the machine can be reached
          job,      \* the callers for whom the machine still works
          reach,    \* _reachability_cache
          batch,    \* _remote_batch_cache
          page,     \* _api_status_cache['data']
          thread,   \* per updater: where it is in _update_status_cache
          caller,   \* per caller: where it is in control_remote_service
          excuse    \* history, per reader: since its request began the page was
                    \* cleared, or its own update failed

service == <<running, up, job>>
caches == <<reach, batch, page>>
vars == <<manager, service, caches, thread, caller, excuse>>

\* What was read of the service carries a mark (history): "new" if it was read
\* since the last control call worked, "old" if before that, "excused" if the
\* update that read it was under way during a call, before the caller removed the
\* batch, or if the machine did not answer.
Marks == {"new", "old", "excused"}

Nothing == [mark |-> "none"]   \* no entry
AtRest(where) == [pc |-> where, got |-> "none", shown |-> FALSE, mark |-> "new"]

Init ==
    /\ manager \in {"agent", "ssh"}
    /\ running \in BOOLEAN /\ up \in BOOLEAN
    /\ job = {}
    /\ reach = "unknown" /\ batch = Nothing /\ page = Nothing
    /\ thread = [u \in Updaters |-> AtRest(IF u = Background THEN "pause" ELSE "idle")]
    /\ caller = [c \in Callers |-> "idle"]
    /\ excuse = [r \in Readers |-> FALSE]

Quiet == job = {} /\ \A c \in Callers : caller[c] = "idle"

\* A machine works, or a caller has still to remove the batch.
Calling == job # {} \/ \E c \in Callers : caller[c] \in {"wait", "pop"}
-----------------------------------------------------------------------------
(* _update_status_cache, by the background thread or by a reader that found *)
(* no page.                                                                 *)

Goto(u, pc) == thread' = [thread EXCEPT ![u] = [@ EXCEPT !.pc = pc]]

EndUpdate(u) ==
    thread' = [thread EXCEPT ![u] = AtRest(IF u = Background THEN "pause" ELSE "reply")]

\* The view of the service is settled; an agent is asked for its uptime next.
Show(u, view, mark, next) ==
    thread' = [thread EXCEPT ![u] =
                  [pc |-> next, got |-> "none", shown |-> view,
                   mark |-> IF @.mark = "excused" THEN "excused" ELSE mark]]

\* The checks of the local services come first.
StartUpdate(u) ==
    thread' = [thread EXCEPT ![u] =
                  [pc |-> "reach", got |-> "none", shown |-> FALSE,
                   mark |-> IF Calling THEN "excused" ELSE "new"]]

InUpdate(u) == thread[u].pc \notin {"pause", "idle", "reply"}

\* Fault: a failed update leaves no page behind.
FailureClearsPage(u) ==
    /\ thread[u].pc \in {"reach", "query", "uptime", "other"}
    /\ EndUpdate(u)
    /\ page' = Nothing
    /\ excuse' = [r \in Readers |-> excuse[r] \/ r = u]
    /\ UNCHANGED <<manager, service, reach, batch, caller>>

\* An exception ends the update: the pool of the local checks times out, or an
\* agent, before the batch is stored, or Glances, at the end, answers something
\* else than is expected of it.
UpdateFails(u) ==
    /\ thread[u].pc \in {"reach", "query", "uptime", "other"}
    /\ EndUpdate(u)
    /\ excuse' = [r \in Readers |-> excuse[r] \/ r = u]
    /\ UNCHANGED <<manager, service, caches, caller>>

\* Fault: the socket's error code is stored in place of the outcome.
ReachStoresCode == reach' = IF reach # "unknown" THEN reach ELSE IF up THEN "yes" ELSE "111"

\* is_remote_machine_reachable: a young entry, or a connection.
Reach ==
    reach' = IF reach # "unknown" THEN reach ELSE IF up THEN "yes" ELSE "no"

CheckReach(u) ==
    /\ thread[u].pc = "reach"
    /\ Reach
    /\ IF reach' = "yes" THEN Goto(u, "batch") ELSE Show(u, FALSE, "excused", "other")
    /\ UNCHANGED <<manager, service, batch, page, caller, excuse>>

\* What get_remote_machine_status makes of a batch: the agent's word, or, if the
\* agent did not answer and under ssh, a look at the service's port.
Use(u, status, mark) ==
    CASE thread[u].pc = "uptime" -> Goto(u, "other")
      [] thread[u].pc \in {"batch", "query"} /\ status = "none" -> Goto(u, "port")
      [] OTHER -> Show(u, status = "on", mark, "uptime")

\* _refresh_remote_batch: a young entry, or queries, the first of which reads
\* the service.  An agent's batch is looked at for the status and again for the
\* uptime.
BatchCached(u) ==
    /\ thread[u].pc \in {"batch", "uptime"} /\ batch # Nothing
    /\ Use(u, batch.status, batch.mark)
    /\ UNCHANGED <<manager, service, caches, caller, excuse>>

\* An agent may time out or answer another code than 200 (_query_agent_api).
Answers == IF manager = "ssh" \/ ~up THEN {"none"}
           ELSE {"none", IF running THEN "on" ELSE "off"}

QueryBatch(u) ==
    /\ thread[u].pc = "batch" /\ batch = Nothing
    /\ \E answer \in Answers :
          thread' = [thread EXCEPT ![u] = [@ EXCEPT !.pc = "query", !.got = answer]]
    /\ UNCHANGED <<manager, service, caches, caller, excuse>>

Entry(u, status) ==
    [status |-> status,
     mark |-> IF thread[u].mark = "excused" \/ status = "none" THEN "excused" ELSE "new"]

StoreBatch(u) ==
    /\ thread[u].pc = "query"
    /\ batch' = Entry(u, thread[u].got)
    /\ Use(u, thread[u].got, "new")
    /\ UNCHANGED <<manager, service, reach, page, caller, excuse>>

\* The entry may be gone when it is looked at for the uptime.  The queries are
\* one step here: that a batch is stored late is left to the first look.
RefreshBatch(u) ==
    /\ thread[u].pc = "uptime" /\ batch = Nothing
    /\ \E answer \in Answers : batch' = Entry(u, answer)
    /\ Goto(u, "other")
    /\ UNCHANGED <<manager, service, reach, page, caller, excuse>>

AfterStatus == IF manager = "ssh" THEN "other" ELSE "uptime"

\* check_remote_port: the port accepts a connection if the service runs, or the
\* connection is refused or takes more than half a second.
LookAtPort(u) ==
    /\ thread[u].pc = "port"
    /\ Show(u, up /\ running, IF up THEN "new" ELSE "excused", AfterStatus)
    /\ UNCHANGED <<manager, service, caches, caller, excuse>>

PortTimesOut(u) ==
    /\ thread[u].pc = "port" /\ up /\ running
    /\ Show(u, FALSE, "excused", AfterStatus)
    /\ UNCHANGED <<manager, service, caches, caller, excuse>>

\* The other machines and Glances, which looks at an agent's reachability once
\* more, come last; then the page is replaced.
Publish(u) ==
    /\ thread[u].pc = "other"
    /\ IF manager = "agent" THEN Reach ELSE UNCHANGED reach
    /\ page' = [view |-> thread[u].shown, mark |-> thread[u].mark]
    /\ EndUpdate(u)
    /\ UNCHANGED <<manager, service, batch, caller, excuse>>

Update(u) == \/ CheckReach(u)
             \/ BatchCached(u) \/ QueryBatch(u) \/ StoreBatch(u) \/ RefreshBatch(u)
             \/ LookAtPort(u) \/ PortTimesOut(u)
             \/ Publish(u) \/ UpdateFails(u)

\* Fault: the loop asks for a status as requests do.
WakeWithoutUpdate ==
    /\ thread[Background].pc = "pause" /\ page = Nothing
    /\ StartUpdate(Background)
    /\ UNCHANGED <<manager, service, caches, caller, excuse>>

\* _bg_status_loop: another update after the alert checks and the sleep.
Wake ==
    /\ thread[Background].pc = "pause"
    /\ StartUpdate(Background)
    /\ UNCHANGED <<manager, service, caches, caller, excuse>>

-----------------------------------------------------------------------------
(* _build_status for a request of /api/status.                             *)

\* The page is there, or the request updates it itself.
ReadStatus(r) ==
    /\ thread[r].pc = "idle"
    /\ IF page = Nothing THEN StartUpdate(r) ELSE Goto(r, "reply")
    /\ UNCHANGED <<manager, service, caches, caller, excuse>>

\* The page is read a second time: the answer is {} if it is gone.
Reply(r) ==
    /\ thread[r].pc = "reply"
    /\ Goto(r, "idle")
    /\ excuse' = [excuse EXCEPT ![r] = FALSE]
    /\ UNCHANGED <<manager, service, caches, caller>>

-----------------------------------------------------------------------------
(* POST /api/remote/service/<action>: control_remote_service and the       *)
(* machine at the other end.                                               *)

\* The call reaches the machine, or there is nobody to answer it.  Updates under
\* way, and what they still store, may show the service before the call.
Call(c) ==
    /\ caller[c] = "idle" /\ c \notin job
    /\ job' = IF up THEN job \cup {c} ELSE job
    /\ caller' = [caller EXCEPT ![c] = IF up THEN "wait" ELSE "pop"]
    /\ thread' = [u \in Updaters |->
                     IF InUpdate(u) THEN [thread[u] EXCEPT !.mark = "excused"]
                     ELSE thread[u]]
    /\ UNCHANGED <<manager, running, up, caches, excuse>>

Marked(entry, mark) ==
    IF entry = Nothing \/ entry.mark = "excused" THEN entry
    ELSE [entry EXCEPT !.mark = mark]

Mark(mark) == batch' = Marked(batch, mark) /\ page' = Marked(page, mark)

\* A start, a stop or a restart, which stops and then starts; a command that
\* fails may have had its effect, and any other action has none.
Work ==
    /\ job # {}
    /\ running' \in BOOLEAN
    /\ Mark("old")
    /\ UNCHANGED <<manager, up, job, reach, thread, caller, excuse>>

\* The machine is done; the caller may have given up, or be cut off.
Done(c) ==
    /\ c \in job
    /\ job' = job \ {c}
    /\ caller' = IF caller[c] = "wait" /\ up THEN [caller EXCEPT ![c] = "pop"]
                 ELSE caller
    /\ UNCHANGED <<manager, running, up, caches, thread, excuse>>

\* The control call times out; the machine does not know.  Under ssh the
\* function returns before it invalidates anything.
GiveUp(c) ==
    /\ caller[c] = "wait"
    /\ IF manager = "ssh"
       THEN caller' = [caller EXCEPT ![c] = "idle"] /\ Mark("excused")
       ELSE caller' = [caller EXCEPT ![c] = "pop"] /\ UNCHANGED <<batch, page>>
    /\ UNCHANGED <<manager, service, reach, thread, excuse>>

\* After the call the two caches are invalidated, one after the other.
PopBatch(c) ==
    /\ caller[c] = "pop"
    /\ batch' = Nothing
    /\ caller' = [caller EXCEPT ![c] = "clear"]
    /\ UNCHANGED <<manager, service, reach, page, thread, excuse>>

ClearPage(c) ==
    /\ caller[c] = "clear"
    /\ page' = Nothing
    /\ excuse' = [r \in Readers |-> thread[r].pc # "idle"]
    /\ caller' = [caller EXCEPT ![c] = "idle"]
    /\ UNCHANGED <<manager, service, reach, batch, thread>>

\* Fault: the two are invalidated in the other order.
ClearPageFirst(c) ==
    /\ caller[c] = "pop"
    /\ page' = Nothing
    /\ excuse' = [r \in Readers |-> thread[r].pc # "idle"]
    /\ caller' = [caller EXCEPT ![c] = "clear"]
    /\ UNCHANGED <<manager, service, reach, batch, thread>>

PopBatchLast(c) ==
    /\ caller[c] = "clear"
    /\ batch' = Nothing
    /\ caller' = [caller EXCEPT ![c] = "idle"]
    /\ UNCHANGED <<manager, service, reach, page, thread, excuse>>

ServePageFirst(c) == Done(c) \/ GiveUp(c) \/ ClearPageFirst(c) \/ PopBatchLast(c)

Serve(c) == Done(c) \/ GiveUp(c) \/ PopBatch(c) \/ ClearPage(c)

-----------------------------------------------------------------------------
(* Outside: the machine, the network, the service, and time.               *)

\* The machine or its agent stops: its work is lost, and callers lose their
\* answer.
MachineFails ==
    /\ up /\ up' = FALSE
    /\ job' = {}
    /\ caller' = [c \in Callers |-> IF caller[c] = "wait" THEN "pop" ELSE caller[c]]
    /\ UNCHANGED <<manager, running, caches, thread, excuse>>

\* The network between the two is cut: the machine goes on.
NetworkFails ==
    /\ up /\ up' = FALSE
    /\ UNCHANGED <<manager, running, job, caches, thread, caller, excuse>>

Recovers ==
    /\ ~up /\ up' = TRUE
    /\ UNCHANGED <<manager, running, job, caches, thread, caller, excuse>>

ServiceDies ==
    /\ running /\ running' = FALSE
    /\ UNCHANGED <<manager, up, job, caches, thread, caller, excuse>>

ReachExpires ==
    /\ reach # "unknown" /\ reach' = "unknown"
    /\ UNCHANGED <<manager, service, batch, page, thread, caller, excuse>>

BatchExpires ==
    /\ batch # Nothing /\ batch' = Nothing
    /\ UNCHANGED <<manager, service, reach, page, thread, caller, excuse>>

Next == \/ \E u \in Updaters : Update(u)
        \/ Wake
        \/ \E r \in Readers : ReadStatus(r) \/ Reply(r)
        \/ \E c \in Callers : Call(c) \/ Serve(c)
        \/ Work
        \/ MachineFails \/ NetworkFails \/ Recovers \/ ServiceDies
        \/ ReachExpires \/ BatchExpires

\* Threads run, outside calls end or time out, the loop's sleep ends, and time
\* passes until an entry expires.
Spec == /\ Init /\ [][Next]_vars
        /\ WF_vars(Update(Background) \/ Wake)
        /\ \A r \in Readers : WF_vars(Update(r) \/ Reply(r))
        /\ \A c \in Callers : WF_vars(Serve(c))
        /\ WF_vars(ReachExpires) /\ WF_vars(BatchExpires)
-----------------------------------------------------------------------------
Positions ==
    [pc : {"pause", "idle", "reach", "batch", "query", "uptime",
           "port", "other", "reply"},
     got : {"none", "on", "off"}, shown : BOOLEAN, mark : Marks]

\* The shape of the state.
TypeOK ==
    /\ manager \in {"agent", "ssh"}
    /\ running \in BOOLEAN /\ up \in BOOLEAN
    /\ job \subseteq Callers
    /\ reach \in {"unknown", "yes", "no"}
    /\ batch = Nothing \/ batch \in [status : {"none", "on", "off"}, mark : Marks]
    /\ page = Nothing \/ page \in [view : BOOLEAN, mark : Marks]
    /\ thread \in [Updaters -> Positions]
    /\ caller \in [Callers -> {"idle", "wait", "pop", "clear"}]
    /\ excuse \in [Readers -> BOOLEAN]

\* Once no control call is under way, the page does not show the service as it
\* was before the last call: not from a batch read before it, and not if the page
\* was made between the two invalidations.  Excused are the updates that were
\* under way at some moment of a call before its caller removed the batch, with
\* what they store and what others make of that, machines that did not answer,
\* and calls whose ssh timed out (control_remote_service, lines 421-422).
ControlIsShown ==
    page # Nothing /\ Quiet => page.mark # "old"

\* An empty status is only ever answered to a request during which a control
\* call cleared the page or whose own update failed (_build_status).
EmptyIsExcused ==
    \A r \in Readers : thread[r].pc = "reply" /\ page = Nothing => excuse[r]

\* When control calls, failing updates, lost looks at the port and changes of the
\* service have come to an end, the page comes to show the service as it is,
\* whatever old views the caches and slow threads still held, and even if the
\* agent goes on to answer only now and then (_bg_status_loop).
StatusConverges ==
    /\ <>[](up /\ Quiet)
    /\ <>[][/\ running' = running
           /\ \A u \in Updaters : ~UpdateFails(u) /\ ~PortTimesOut(u)]_vars
    => <>[](page # Nothing /\ page.view = running)
=============================================================================
