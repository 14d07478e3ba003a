# TLA+ models of noc-homelab

noc-homelab runs a home laboratory of four machines (two Macs, a Linux media
server, a VPS): a Flask dashboard, an agent on each machine, CrowdSec with an
LLM triage service, a Discord bot, and the scripts that keep a media library,
a debrid mount and the repository itself up to date. It is a set of small
programs with no shared database. What makes it hard is what happens between
them: threads without locks, caches, files rewritten in place, webhooks that
are resent, scripts started while they run, and processes that launchd or
systemd kills and starts again at any time.

This directory holds TLA+ modules translated from the source, TLC
configurations that check them on small instances, and TLAPS proofs of the
main results for every value of the constants. `PROJECT.json` lists the
components, runs, mutants, hazards and theorems, and maps every definition to
the lines of code it stands for.

## 1. Inventory

| Component | State it keeps | Operations | What is hard | Module |
|---|---|---|---|---|
| log-triage tracker (`services/log-triage/app.py`, `_State`) | de-duplication table, hourly window | `should_process` | purging and pruning on every call, restarts | `TriageState`, `AdmissionPolicy` |
| log-triage pipeline (same file) | queued background tasks | `POST /alert`, Loki, LLM and Discord calls | a resent webhook, tasks that interleave at every await, crashes | `TriagePipeline` |
| dashboard alert engine (`dashboard/alerts.py`) | breach counts, active alerts, history, history file | `check_all` every ten seconds | two tables that must agree, missing samples, file torn by a crash, restarts | `AlertEngine` |
| library-update (`linux/scripts/library-update.sh`) | lock file, PENDING file, errors of the process | one instance per change of the library | overlapping instances, unlock and exec, failing steps | `LibraryUpdate` |
| dashboard status cache and remote control (`dashboard/app.py`, `agent/agent.py`) | batch, reachability and status caches without locks; the agent's services | status loop, `/api/status`, calls forwarded to an agent | invalidation against a refresh in flight, calls that outlive their timeout | `RemoteStatus` |
| service control (`control_service` of `dashboard/app.py` and `agent/agent.py`, `agent/platforms/*.py`, the website manager of `dashboard/app.py`) | none of its own: the service managers' | start, stop, restart, logs through every manager of five hosts | overlapping calls without a lock, restarts made of two commands, timeouts, services that serve the call themselves | `ServiceControl`, `ServicePromise` |
| dashboard configuration store (`dashboard/app.py`) | `machines.json`, `services.json`, their `.tmp` and `.backup` | two save handlers, loading at start | concurrent saves share one temporary and one backup file; a restore in place; the process may end anywhere | `ConfigStore` |
| security monitor (`dashboard/alerts.py`, `security-health-probe.py`) | breach counts, active alerts, posts under way | one probe a minute | probe failures that look like findings; post threads that overtake each other or fail; restarts | `SecurityMonitor` |
| claw-discord-bot (`bot.py`) | a bounded history per user and channel | messages, `/ask`, `/pdf`, `/fetch`, `/clear`, message splitting | queries that overlap at every await, failed queries, a deque at its limit | `BotHistory` |
| zurg health check, media watchdog, failure notifier (shell) | cooldown and de-duplication files | timers | `set -e` between stop and start; the mark before the post | not modelled (section 8) |
| website manager (`dashboard/app.py`) | site list and Caddyfile on another machine | components: as service control; adding and removing sites | launchctl whose outcome nobody looks at, limits of a few seconds; two files changed without a lock | components in `ServiceControl`, sites not modelled (section 8) |
| screen lock (`dashboard/app.py`) | lock and relock timer | lock, unlock | a relock timer whose start nobody checks | not modelled (section 8) |
| observability, network, CVE panels (`dashboard/app.py`) | read-through caches | HTTP reads | little | not planned |
| LLM gateway, status push, CrowdSec sync, scans, desktop tools | none that lasts | one-shot or stateless | little | not planned |
| HTML, plists, units, Loki and Grafana configuration | none | none | no program logic | not modelled |

How they interact: CrowdSec's HTTP notifier posts batches to log-triage and
retries; log-triage reads Loki, asks the LLM gateway and posts to Discord. The
dashboard's background thread runs, every ten seconds, the status update, the
alert engine and the security monitor in this order; request handlers share its
caches. The control handler calls the agent of a machine over HTTP with a 15
second timeout. Zurg calls library-update once per change and never waits.
git-autopull rewrites the working tree the dashboard runs from.

What makes each component correct is stated by the properties of section 4 for
what is modelled, and in the plan (section 8) for what is not.

## 2. How the modules are laid out

One module per component, an `MC` module and one `.cfg` per run, and a
`...Proofs` module with the theorems. Every module has one action per operation
or per step between which something else can run. Faults (the mutated
definitions used to test the properties) stand directly before the definition
they replace and are commented as such; no specification uses them.
`TriageProofs` holds the theorems of `TriageState` and of `TriagePipeline`, which
extends it. `RemoteStatus` leaves open what a
machine does for a call; `ServiceControl` is what it does. They stay separate:
the first is about what the caches show, the second about what a call does, and
the only thing that passes between them is whether the service is up.

    AdmissionPolicy  <-- implemented by --  TriageState
    TriageState      <-- extended and implemented by --  TriagePipeline
    ServicePromise   <-- implemented by --  ServiceControl
    AlertEngine    SecurityMonitor    LibraryUpdate
    RemoteStatus   ConfigStore        BotHistory

## 3. Correspondence with the code

**`TriageState`.** `seen`, `hour_window` and `now` are `_seen`, `_hour_window`
and `time.time()`. `Consult` is the body of `should_process`: it holds an
asyncio lock and awaits nothing, so it is one action. The purge loop is
`PurgeStops` (how many entries it pops), the dictionary comprehension is
`Pruned`. A missing key is 0, which is what `.get(key, 0)` reads. `admitted` is
a history variable.

**`AdmissionPolicy`.** The module docstring's rate limiting over the complete
record of admissions: no purging, no table.

**`TriagePipeline`.** `AlertHandler` is `POST /alert` with its early returns (a
body that is neither an array nor an object, and an alert that is no object, are
refused like a body that is not JSON: nothing is queued); `BeginGroup` to
`PostDiscord` are `_process_ip_group` cut at its awaits. `BeginGroupRaises` is an
exception in its lines before the `try`, which makes Starlette drop the tasks the
request still has queued. The notifier (retries, lost answers), the clock and the restart are
external and modelled from how the code uses them. An alert is reduced to its
source IP. The module extends `TriageState` and calls its `Consult`, and every
step of the pipeline is a step of the tracker (`UsesTracker`), so that the
tracker's properties carry over.

**`AlertEngine`.** `pc` and `at` say where the background thread is inside
`check_all`. `Skip`, `Breach` and `Normal` are `_evaluate` and
`_evaluate_power_state` for the three kinds of sample; `OpenFile` and
`WriteFile` are the two halves of `_save_history` between which the process may
die; `SendFired` and `SendResolved` are the two ways to a post thread. Time is
counted in passes, and the age of an alert saturates at its cooldown: the
comparison in the code cannot tell larger ages apart, so no clock bound is
needed. `Restart` keeps the file only.

**`LibraryUpdate`.** `pc[h]` is the next command of an instance that touches the
lock, the PENDING file or the error list. `Rerun` is `flock -u` followed by
`exec` (the window between them is a step of any other instance that finds the
lock free). `unseen`, `told` and `unposted` are history variables: changes not
yet swept, failures that were posted, and failures that the EXIT trap could not
post (no webhook, or `curl` fails), of which only the system's log tells.
`OwnStep` are the steps the script takes by itself; the mount's look, a sweep and
the scans (`InCommand`) run commands without a limit (FileBot, `find`, `sops`)
and may never come back.

**`RemoteStatus`.** One service on one other machine. `reach`, `batch` and
`page` are `_reachability_cache`, `_remote_batch_cache` and
`_api_status_cache['data']`; an entry past its time to live counts as absent in
the code, so `ReachExpires` and `BatchExpires` remove it at any time. `thread[u].pc`
is where the background thread, or a request that found no page, is in
`_update_status_cache`: a batch is queried in one step and stored in a later one
(only the second look at the batch, for the uptime, is one step, `RefreshBatch`).
An agent that is reachable may fail to answer (`Answers`); the status is then a
look at the port, which may time out as well (`LookAtPort`, `PortTimesOut`). An
update may end in an exception at any of its steps (`UpdateFails`).
`caller[c]` is `control_remote_service`: it waits, pops the batch, clears the
page. What the machine does for a call is left open (`Work`), before or after
the caller gave up. The marks on what was read, and `excuse`, are history
variables. Under ssh (`noc-baguette`) there is no agent to query, the status is
a look at the port, and a call that times out returns before it invalidates
anything.

**`ServiceControl`.** One service of one of 36 kinds: who serves the call (the
dashboard, the agent on Linux, macOS or Windows, or the website manager for one
component or for a whole site), the manager its code branches on, and which of `compose_dir`, `start_cmd` and `stop_cmd` its entry
has. `First` is the dispatch of `control_service` to the first command;
`AfterError` is what the handlers do with a command that failed: a restart made
of a stop and a start goes on to its start whatever became of the stop, and
`restart_service` of `linux.py` falls back on a stop and a start (`"try"`). A
command may fail with or without its effect. What the managers do is external:
systemd keeps a job of which the caller's ten seconds are over (`left`) and lets
a new job replace it; `sc` returns before the service has stopped or started; a
`start_cmd` is spawned and not waited for. Commands of the website manager have
limits of 5 to 15 seconds, and one that is over its limit may still have its
effect later; the outcome of its launchctl commands, and of systemctl for a whole
site, is not looked at (`Unseen`), but a launchctl over its limit raises and ends
the call, between the unload and the load of a restart too (`AfterTimeOut`). A
site's loop over its components is seen from one of them: what the loop does for
the others only delays it. A Pelican component and a site's tunnel behave as a
website's component under launchd or systemd. The legacy `launchctl load` and `unload` can fail and exit with 0, so
that everywhere a failed one may look like a success (`Legacy`, `AfterFailed`).
`self` is a service that is the
process serving the call: its stop ends the call. `blamed` is a history variable.

**`ServicePromise`.** What the control interfaces promise, without hosts, managers or
commands: a success is answered when the service is where the action takes it or
that has been handed over, and otherwise the service only changes by what
somebody asked for, or by failing. An answer of the website manager that does not
depend on the outcome, and one that rests on the exit status of `launchctl`, is
mapped to one that promises nothing (`Answer`, `Untold`): of those kinds the
refinement says only that they do nothing which was not asked for.

**`ConfigStore`.** `save[p]` is where a settings page is: it posts the services,
then the machines, and each is written by `save_config_atomic`, one action per
file operation (`OpenBackup`, `CopyBackup`, `OpenTemp`, `Write`, `Check`,
`Rename`, and `OpenLive`, `Refill`, `Remove` of the error path). An `open(.., 'w')`
truncates, so a file is torn until it is written. Each operation may fail: reading
back and `os.rename` with the temporary file present or gone (`RenameFails`), the
restore, and `os.remove`, which leaves the temporary file for the next save to
truncate (`RemoveFails`). A descriptor belongs to the
file, not to its name: after another save's rename it leads into the live file
(`Follow`). `LoadServices` and `LoadMachines` are what a start of the dashboard
would read. `Restart` ends the process between any two steps. `mixed`, `acked`
and `spoilt` are history variables.

**`SecurityMonitor`.** `Probe` is `security-health-probe.py`: each of its commands
may fail, and then yields the empty output, which `Unread` translates per class
of check (a service counts as stopped, a count as zero, an age as unknown).
`Skip`, `Fine` and `Breaching` are `_eval_binary` for one check. `posts[k]` are
the threads that post about a check; they may overtake each other (`Arrive`), be
lost (`Lose`) or end with the process (`Restart`). A probe that fails as a whole
changes nothing. The one-minute throttle and the half-hour cooldown are not
counted: a cooldown ends sooner or later.

**`BotHistory`.** `history` is the deque of one user in one channel and `task[t]`
one coroutine, cut at its awaits: what it gathers, the gateway's answer, the PDF,
each chunk it sends. `Ask` and `Answer` are the two appends of `handle_query`.
`Chunks` is `split_message` as a recursive function on texts whose characters are
newlines or not; `FencedSplit` puts the code fence of `/fetch` around chunks below
1990 characters (`FenceBelow`), four characters on each side (`FenceLen`). What raises (a download, a PDF of `/fetch`, an expired
interaction, a refused chunk) ends the coroutine.

## 4. Runs

| Run | What it checks and shows |
|---|---|
| `triage_tracker` | Three IPs, every order of calls, clock steps and restarts over nine seconds with an hour of four, a window of two and a cap of three. The hourly cap, the spacing per IP, the memory bound, the bookkeeping invariant, and that every answer is the policy's (`ImplementsPolicy`, refinement). |
| `triage_pipeline` | A batch about two IPs that may be delivered twice, with both requests' tasks interleaved and one crash. No double embed, the budget of embeds (admissions are capped per hour; posts follow them by up to three outside calls and may bunch, so that the cap holds for what appears in an hour less that delay), bounded queueing, every duplicate has an original, the tracker is only used through whole calls, every group runs to an end or is dropped by an exception or a crash. |
| `alert_engine` | Two keys, every order of breaching, normal and missing samples, failing and interrupted saves, restarts. Active alerts only in a sustained breach, no silent breach at the end of a pass, the file follows the history, the notices tell the truth, one resolution per episode, and a lasting breach repeats for ever. |
| `library_update` | Three instances, two libraries, failing mounts, sweeps and scans. One sweeper; no change without an instance that will sweep it, a mark, a listed error, a post or a failed try to post; every instance whose own commands come back ends, even if another hangs with the lock. |
| `library_pending` | Violation: a mark left between the holder's last look and the end of its lock is served by nobody (lines 34-36 say it is). |
| `library_errors` | Violation: `exec` skips the EXIT trap, so the errors of a pass followed by a rerun are never posted (lines 14-16 say nothing fails silently). |
| `remote_status` | The background thread, one request thread and one control call, with an agent and with ssh, lost connections, work that outlives its caller, failing updates, entries that expire. Once no call is under way the page does not show the service as it was before the last one: not from a batch read before the call, nor because it was rebuilt between the two invalidations. Excused are the updates that were under way during a call, before its caller removed the batch, with what they store and publish (a batch read before the call and stored after it is of these: that the page recovers from it is the last property), machines that did not answer, and calls whose ssh timed out. An empty answer needs a cleared page or a failed update; and when everything comes to rest the page comes to show the service as it is. |
| `service_control` | Three overlapping calls on a service of each of the 36 kinds, with commands that fail with or without effect, time limits, jobs that outlive their caller, restarts of the serving process and deaths of the service. A service that is down has a stop, a failure or a restart under way behind it; and every step keeps the promise (`KeepsPromise`, refinement); for launchd, where the exit status proves nothing, a success promises nothing. |
| `service_itself` | Violation: "Then load" (`app.py:1395`). The dashboard's own launchd job is a service of its own list, and its restart unloads the process that was to load it again. |
| `config_store` | Three pages that save both files, with every overlap, every file operation failing, and the end of the process between any two steps. A whole copy of each file is left, unless its saves overlapped or one that was alone began on a torn file and copied that over the backup. What was answered as saved is what the next start loads, unless saves of the file overlapped or a restore was cut off or failed; of the services only if the machines have been saved too. |
| `security_monitor` | Two checks of any classes that fail and recover at any time, with commands that fail as often as they like, two faults among lost posts and restarts, and posts that overtake each other. When nothing is under way the channel agrees with the alerts unless a notice was lost, overtaken or forgotten; a failure that lasts is shown in the end if probes go on reading it. |
| `bot_history` | A message, `/ask`, `/pdf` and `/fetch` of one user at once, with `/clear` at any time and a deque of three. The conversation stays explained, and all texts of up to eight characters are split without loss for messages of three; nothing that is sent is longer, the code fence of `/fetch` included. |

Each property of a passing run has a mutant: a definition changed the way a
slip in the code would change it, under which TLC finds the property violated.

### Bounds

* `triage_tracker`: nine seconds hold two full rate windows and one pruning
  period (eight); with a cap of three, one IP can come back within the cap, and
  the three IPs can exhaust it and meet it again an hour later.
* `triage_pipeline`: two requests (`MaxRequests`), one retry, one crash, five
  clock values, and an hour of four, so that the delay of a post (three outside
  calls of `StageTime`) leaves an hour to speak of. One retry is enough for two live requests about one IP; the
  outside calls take at most `StageTime` ticks: an assumption about the outside,
  since httpx limits the single operations of a call and not the call.
* `alert_engine`: no bound on time. Breach counts stop at the sustained limit
  and ages at the cooldown, where the code stops telling them apart. The limits
  differ per key (2 and 1, 1 and 2), and the history keeps three events, so that
  it overflows.
* `library_update`: three instances, so that one can hold the lock, one can be
  between unlock and exec, and one can leave a mark; two reruns, the real cap.
* `remote_status`: one request thread beside the background thread gives two
  updates under way at once; one caller gives every order of its steps and
  theirs. Overlapping control calls are covered by the proofs, except for
  `StatusConverges`. Time is not counted at all.
* `service_control`: three callers, so that two can be in a restart while a third
  stops or starts; every kind of service. No other bound: what is left behind is
  a set, since two equal jobs do what one does.
* `config_store`: three pages, so that a third save can meet what two overlapping
  ones left behind. Each page saves once; `Restart` is not bounded.
* `security_monitor`: `Sustained` is two as in the code; `MaxFaults` (two) bounds
  lost posts and restarts together (failing commands are not bounded), and `MaxPosts` (two for one
  check, one for the other) the posts under way: a check with two has every
  overtaking, the other shows that checks do not disturb each other. `Probe`
  waits for room, as a post ends by its timeout long before the next minute.
* `bot_history`: a deque of three is odd and smaller than what three queries
  append, so that it drops a question before its answer arrives. Messages of three
  characters give up to four chunks of a text of eight, and a fence of one
  character on each side of chunks below two fits exactly; a text of ten is a PDF.
* Nothing else is bounded, and no state constraint is used. Symmetry is used for
  the callers of `service_control` and the pages of `config_store`, which check no
  liveness.

### Deadlock

Deadlock is checked everywhere but in `bot_history`, where the coroutines of the
instance may all have ended. `TriagePipeline` has an explicit `Quiescent`
step for the state in which all bounds are used up and all tasks have ended.

### Fairness

* `TriagePipeline`: weak fairness of every request's tasks. The event loop runs
  ready tasks, and each operation of an outside call has a timeout. None for the notifier, the
  clock or the crash.
* `AlertEngine`: weak fairness of the background thread. Its loop is
  `while True`, every exception in it is caught, and every call has a timeout.
* `LibraryUpdate`: weak fairness of the steps each instance takes by itself
  (`OwnStep`; `flock -n` does not wait, and the `curl` that posts has `-m 10`). None
  for the commands without a limit: a FileBot that is stuck holds the lock for ever
  (the script says so itself, lines 36-37), and that they come back is a premise of
  `EveryHookEnds`, for the instance itself only, and of `PendingServed`, for all.
  None for Zurg.

* `RemoteStatus`: weak fairness of every step of an update and of a control
  call (threads run, and every outside call has a timeout), of the loop's sleep,
  and of the expiry of entries, since time passes. None for new requests, new
  calls, failures or recoveries. `StatusConverges` has as its premise that, from
  some time on, the machine is up, no call is under way, the service does not
  change, and no update fails or times out at the port.
* `SecurityMonitor`: weak fairness of the evaluation of the next check (the loop
  catches every exception), of the end of a cooldown and of each post's end. None
  for the probe: `LastingFailureIsSeen` has "the host goes on being probed" as its
  premise, and that, from some time on, every reading of a count (panics) is of the
  log: a command that keeps failing hides its check for good. The bound on faults
  stands for one more: only finitely many posts are lost, and restarts end.

`ServiceControl`, `ConfigStore` and `BotHistory` state safety only.

## 5. What is proved

All proofs are checked by TLAPS and hold for every value of the constants under
the assumptions named in the modules.

**`TriageProofs`**, the tracker (assuming `TriageAssumption`: positive limits, and
a clock that starts above `DEDUPE_WINDOW`, as Unix time does).
`TrackerInvariant`, `TrackerTypes`, `SpendIsCapped`, `SummariesAreSpaced`,
`MemoryStaysBounded` and `TrackerImplementsPolicy`. The inductive invariant is `TypeOK /\ Bookkeeping`:
the admissions are in time order, the window is a suffix of the record whose
missing part is older than an hour, and the table still has every admission that
is younger than a de-duplication window. The cap and the spacing are not
inductive without it: they speak of admissions the code has forgotten. The
refinement maps each call to `Decide` and each restart to `Forget`; its core is
that the length of the purged window is the number of admissions of the last
hour when it matters.

**`TriageProofs`**, the pipeline (assuming `PipelineAssumption` besides: the
bounds are numbers, a stage may take a tick, and the alerts of a batch have IPs of
the tracker). `PipelineInvariant`, `PipelineTypes`,
`PipelineUsesTracker`, `OneEmbedPerWindow`, `EmbedsStayInBudget`,
`TasksStartOnTime` and `DuplicatesAreJustified`, for any number of requests,
retries and crashes. `PipelineUsesTracker` is the refinement: each step of the
pipeline is one call of the tracker, a restart, a tick, or leaves the tracker
alone, so that `TypeOK` and `Bookkeeping` hold in the pipeline too. The pipeline's
own facts (`PipelineFacts`) say what the tracker cannot know: a group that was
admitted in this life of the process is in the tracker's record, and nothing else
is (`TasksAreRecorded`, `RecordHasTasks`), the groups of one IP that were admitted
in one life began a window apart (`TasksAreSpaced`), each embed belongs to one of
them (`EmbedsHaveTasks`), and no stage is older than it may be (`Timely`). A step is
one of five kinds (`Quietly`, `Admits`, `Skips`, `Posts`, `Dies`), and each fact
is shown for each kind. The budget follows because every embed appears within three outside
calls of its admission, so that those of an hour less that delay map one to one to
admissions of one hour of the record, of which the tracker allows so many; the delay from
`Timely` by adding up the groups ahead. That a batch's groups are listed in
ascending order at all is shown from the least element of a finite set.
`RequestsRunToTheirEnd` is the part of `EveryGroupSettles` that needs no fairness:
only the running process holds open requests, each has at most four steps per
group before it (`StepsLeft`), and every step of its tasks leaves fewer.

**`AlertEngineProofs`** (assuming `AlertAssumption`: a list of distinct keys and
positive limits). `MemoryInvariant`, `EngineTypes`, `ActiveAlertsAreSustained`,
`BreachIsNeverSilent`, `NoticesTellTheTruth` and `EpisodesAreClosedOnce`. Statements about the end of a pass are not inductive, so
the invariant `IInv` says, for every step of the pass, which keys are done
(`Evaluated`), that a queued resolution belongs to such a key and the alert to
be sent to the current one (`Queued`), that an alert is active exactly if it is
about to be sent or was sent and its resolution is not queued (`Handed`), and
that a done key with a sustained breach has a young alert (`Answered`).
`OneResolutionPerEpisode` speaks of the recorded events only and is not inductive
either: `EInv` adds that an active alert was recorded after every resolution of
its key (`Reopened`), and that what the file holds, which a restart goes on with,
alternates as well (of firings and resolutions only the latter are claimed to be
separate: a restart forgets which alerts are active, so that two firings may
follow each other); dropping the oldest event shifts the history and leaves it
alternating (`KeepShifts`).

**`LibraryUpdateProofs`** (assuming `LibraryAssumption`: a list of distinct
libraries). `UpdateInvariant`, `UpdateTypes` and `SweepersAreAlone`: mutual
exclusion and `NothingForgotten`. The
strengthening says that an instance outside its sweep stands at the first
library, and that one which was allowed to rerun is below the cap.
`InstancesRunDown` is the part of `EveryHookEnds` that needs no fairness: the
commands an instance has before it (`CommandsLeft`) are bounded, every step of its
own leaves fewer, and nobody else's adds to them. It rests on the same two facts.

**`RemoteStatusProofs`** (assuming `RemoteAssumption`: the background thread
is not a request thread). `RemoteInvariant`, `StatusTypes`,
`ControlIsAlwaysShown` and `EmptyIsAlwaysExcused`, for any number of request threads and callers. The
invariant says that, while the caller of a call has not yet removed the batch,
every update in flight is excused, that otherwise none holds an old view, and that an entry which is or may
become old without an excuse still has a caller in front of its invalidation
(`Guarded`). Without the part about entries nothing follows for a page built from
a cached batch.

**`ServiceControlProofs`** (assuming `ControlAssumption`: the kinds are among
those of the code). `ControlTypes`, `DownIsAlwaysExplained` and
`ControlKeepsPromise`, for any number of callers. The invariant adds two facts:
the command a call is at is one its action can lead to (`Fits`), and nobody is
served while the serving process is itself down (`SelfIsServing`). The refinement
maps the calls to their action and the answer they are about to give, and what
was left to `stray`; a restart's stop and start are two steps of `Work`, and the
end of the serving process is `Late` with every open call ended.

**`ConfigStoreProofs`** (assuming `ConfigAssumption`: pages are not the marks for
absent and torn). `StoreTypes`, `AWholeCopyIsLeft` and `SavedIsAlwaysLoaded`, for
any number of pages. The argument: a save that has not overlapped with another one
owns the file's temporary and backup copies, so that at each of its steps one
knows what each copy holds; saves that overlap are in `mixed`, and of their file
nothing is claimed until a save has it alone again and succeeds. Excused are also
what the properties name: a lone save that begins on the torn file of a cut-off
restore (`spoilt`), and, for what is loaded, a restore that did not come to its end. Each step is shown to be
confined to its file (`Confined`), which leaves the other file's facts alone.

**`SecurityMonitorProofs`** (assuming `SecurityAssumption`: a list of distinct
checks and positive bounds). `MonitorTypes` and `ChannelAgrees`, for any list of
checks. `ShownAgrees` speaks of the moments without a post under way; the
invariant speaks of all: the notice that will be shown last, if none is lost or
overtaken, agrees with the alert (`ComingAgrees`), and there is room for the
notices of the checks that the pass has still to evaluate (`RoomAhead`).

**`BotHistoryProofs`** (assuming `BotAssumption`). `BotTypes`,
`ConversationIsExplained` and `RepliesAreSplitFaithfully`, for any number of
queries, any length of the deque, any limit of a message, any fence that leaves
room for itself and any texts that are not empty (an empty reply of the gateway is replaced before it is sent).
What is known of a query that waits must already say what will be true of its
answer: its question is there, or `/clear` removed it, or the deque is full
(`Waiting`). A full deque stays full until `/clear`, and drops a question before
its answer because the entries stay in order (`Ordered`, `Pushed`).
`split_message` is a loop, and `Chunks` a recursive function; that there is such
a function at all is proved first (`ChunksUnfold`: up to every length there is
one, and any two agree). What it computes is then shown of every text by looking
at the shortest one of which it would be false: its rest is shorter
(`RestIsShorter`), so the rest's chunks are faithful, and putting the first chunk
before them moves their positions by what was cut and stripped
(`PrependedIsFaithful`). The induction theorems of the library, which take an
operator as a parameter, are not used; a least counterexample takes their place.

Only model-checked: the liveness properties (`EveryGroupSettles`,
`PersistentBreachRepeats`, `EveryHookEnds`, `StatusConverges`,
`LastingFailureIsSeen`), which are beyond the prover; for `EveryGroupSettles` and
`EveryHookEnds` the measure that decreases is proved, and what is left to the
runs is that an instance or a request that has not ended can always take a step.
Every safety invariant, action property and refinement that a run checks is
proved; the three violation runs concern statements that are false.

## 6. Divergences seen

Three are checked by the violation runs above. Others were met while reading and
have no run:

* a verdict of the LLM whose fields are not strings raises while the embed is
  built, and the summary is dropped with a log line (`log-triage/app.py:988`);
* log-triage's README speaks of a `scenario::ip` key, the code uses the IP;
* a Discord post that is refused is not retried, while the IP stays
  de-duplicated for the window;
* a repeated alert overwrites the time it first fired, so that the duration in
  the resolution is too short (`alerts.py:257`);
* the IPs of a batch are not processed "in parallel" (`log-triage/app.py:1014`):
  background tasks of one request run one after the other;
* `alerts.py:56` promises a window without a second alert; a resolution forgets
  when the alert fired, so a metric that is normal for one sample is announced
  again some 130 seconds later;
* a command of the security probe that times out yields an empty answer, which
  counts as a stopped service, or as no panics at all
  (`security-health-probe.py:29`, against `alerts.py:520`);
* a save of the local services is answered as successful and ignored by the next
  start while `machines.json` has an entry for the machine itself
  (`app.py:164-191`); the save of the machines drops that entry and the settings
  of Authentik;
* the restore of `save_config_atomic` is the only step that can tear the live
  file, although a save that is alone has not touched that file when it fails
  (`app.py:108`); a restore that is cut off leaves the backup as the only whole
  copy, and the next save copies the torn file over it (`app.py:93`);
* two saves of one file share the temporary and the backup file; an overlap can
  leave neither whole (`app.py:91-95`);
* a change that the error post of `library-update.sh` should tell of is only in
  the system's log when there is no webhook or `curl` fails (lines 96 and 116-118);
* a probe command that keeps failing hides its check for good: the panics read as
  none, an unknown age or set is skipped (`alerts.py:488-504`);
* an action that no branch knows is reported as a success for OrbStack, Docker and
  PM2 services (`app.py:1282-1351`);
* a "resolved" notice that is lost, or whose alert a restart forgot, is never sent
  again (`alerts.py:608`); a lasting failure is, after the cooldown;
* a long reply that begins with its only newline in reach is split into an empty
  first chunk, which Discord refuses, and nothing of it is sent (`bot.py:238`);
* the website manager answers with success for a launchd component whatever
  launchctl did, and for the whole site also when systemctl or ssh failed
  (`app.py:2979-2989`, `3049`);
* "Start or stop all components of an app site at once" (`app.py:3028`) takes a
  container on another machine for a launchd job that does not exist and reports
  it as done; so does the single control of the database of a site of this
  machine, because the test for the site's host comes before the branch written
  for it (`app.py:2970` and `2992`);
* the agent's answers other than 200 are reported as "Agent unreachable"
  (`app.py:296` and `425`).

## 7. Not modelled

Text (prompts, embeds, messages, HTML), metric values and thresholds (a sample
is only breaching, normal or missing), authentication beyond the token test of
log-triage, the kill of a library-update instance, the effect of git-autopull on
files that are being saved, the bot's `/system` and `/model` (each overwrites one
value that the next query reads), the adding and removing of websites (a script
that rewrites two files on another machine), and the components marked "not planned" above,
which keep no state of their own or only forward calls.

## 8. What is left

1. The zurg health check and the media watchdog: `set -e` ends the check between
   stopping rclone and starting it again when zurg's restart fails, the cooldown
   has begun by then, and only the watchdog's post about the missing mount tells
   of it, which is tried once per half hour and marked as sent before it is. The
   property worth checking is that a mount that stays down is posted in the end.
2. The screen lock: an unlock answers with success whether or not the relock timer
   could be started (`app.py:3248`), while the comment at `app.py:3137` says that
   the display locks itself again after an hour.
3. Adding and removing websites: `sites.json` and the Caddyfile are read, changed
   and rewritten without a lock by scripts that may overlap, and a site that is in
   the first and not in the second can neither be added again nor served.
4. git-autopull as an environment of `ConfigStore`: a checkout that replaces the
   files between two steps of a save.
