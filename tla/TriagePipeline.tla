--------------------------- MODULE TriagePipeline ---------------------------
(***************************************************************************)
(* The webhook path of services/log-triage/app.py: CrowdSec's notifier     *)
(* (external: services/crowdsec/notifications/http_triage.yaml) posts a    *)
(* batch of alerts, alert_handler groups it by source IP and queues one    *)
(* background task per IP, and each task consults the shared tracker, asks *)
(* Loki and the LLM and posts one Discord embed.                           *)
(*                                                                         *)
(* Background tasks of one request run one after the other on the event    *)
(* loop once the 202 is sent; tasks of different requests interleave at    *)
(* every await.  Ready work runs before a clock tick passes; only the      *)
(* three outside services take time, each at most StageTime ticks (the     *)
(* httpx timeouts).  launchd restarts a crashed process with empty memory. *)
(***************************************************************************)
EXTENDS TriageState

CONSTANTS Batches,      \* what the notifier has to deliver
          Payloads,     \* per batch, its possible bodies
          MaxRetry,     \* max_retry of the notifier
          MaxRequests,  \* bound: deliveries that reach the handler
          StageTime,    \* the longest wait for an outside service, in ticks
          MaxCrashes    \* bound: restarts of the service

\* A body as the handler sees it: the token matches, the JSON is an object or an
\* array of objects, and the source IP of each alert (what else an alert says
\* only shapes texts, or makes its task raise).
Payload == [token : BOOLEAN, json : BOOLEAN, alerts : Seq(Keys)]

ASSUME PipelineAssumption ==
    /\ MaxRetry \in Nat /\ MaxRequests \in Nat /\ MaxCrashes \in Nat
    /\ StageTime \in Nat \ {0}
    /\ Payloads \in [Batches -> SUBSET Payload]

VARIABLES notifier,   \* per batch: payload, tries made, status
          requests,   \* accepted requests of all process lives, in order
          posted,     \* embeds: [ip, admittedAt, postedAt, life, request, group]
          life        \* number of restarts so far

pipelineVars == <<vars, notifier, requests, posted, life>>

Waiting == {"loki", "llm", "discord"}
Stages == Waiting \cup {"ready", "done"}
Shapes == {"verdict", "malformed", "prose", "failed"}
Admitted == {"running", "posted", "refused", "unrenderable"}
Fates == Admitted \cup {"queued", "rate_limited", "deduped", "lost", "aborted"}

-----------------------------------------------------------------------------
\* The members of a finite set of numbers, smallest first.
Ascending(S) ==
    CHOOSE f \in [1..Cardinality(S) -> S] :
        \A i, j \in 1..Cardinality(S) : i < j => f[i] < f[j]

\* alert_handler's by_ip: one group per source IP, in order of first alert.
GroupByIp(alerts) ==
    LET first == {i \in DOMAIN alerts : \A j \in 1..i - 1 : alerts[j] # alerts[i]}
        order == Ascending(first)
    IN  [g \in DOMAIN order |-> alerts[order[g]]]

\* A request as the event loop holds it: `at' is the task that runs.
NewRequest(b, alerts) ==
    LET groups == GroupByIp(alerts) IN
    [batch |-> b, life |-> life, accepted |-> now, groups |-> groups,
     at |-> 1, stage |-> IF groups = <<>> THEN "done" ELSE "ready",
     since |-> Epoch, renderable |-> TRUE,
     started |-> [g \in DOMAIN groups |-> Epoch],
     fate |-> [g \in DOMAIN groups |-> "queued"]]

Group(r) == requests[r].groups[requests[r].at]

\* The running task ends with this fate; the next task of the request is up.
Finished(q, fate) ==
    [q EXCEPT !.fate[q.at] = fate,
              !.at = q.at + 1,
              !.stage = IF q.at = Len(q.groups) THEN "done" ELSE "ready",
              !.since = Epoch,
              !.renderable = TRUE]

Enter(q, stage) == [q EXCEPT !.stage = stage, !.since = now]

Live(r) == requests[r].life = life /\ requests[r].stage # "done"

-----------------------------------------------------------------------------
PipelineInit ==
    /\ Init
    /\ \E body \in [Batches -> UNION {Payloads[b] : b \in Batches}] :
          /\ \A b \in Batches : body[b] \in Payloads[b]
          /\ notifier = [b \in Batches |-> [payload |-> body[b], tries |-> 0,
                                           status |-> "idle"]]
    /\ requests = <<>>
    /\ posted = {}
    /\ life = 0

\* Fault: one retry too many.
AttemptedOnceMore(b, answered) ==
    notifier' = [notifier EXCEPT
        ![b].tries = @ + 1,
        ![b].status = IF answered THEN "acked"
                      ELSE IF notifier[b].tries <= MaxRetry THEN "retry"
                      ELSE "gave_up"]

\* The notifier's view of one attempt: answered 2xx, or tried again while
\* retries are left.
Attempted(b, answered) ==
    LET n == notifier[b] IN
    notifier' = [notifier EXCEPT
        ![b].tries = n.tries + 1,
        ![b].status = IF answered THEN "acked"
                      ELSE IF n.tries < MaxRetry THEN "retry"
                      ELSE "gave_up"]

CanSend(b) == notifier[b].status \in {"idle", "retry"}

\* POST /alert: a wrong token (401) and a body that is not JSON (400) return
\* early, and so do a body that is neither an array nor an object (400) and an
\* alert that is no object, whose exception ends the request with a 500 before
\* any task runs: `json' stands for all three.  Otherwise the tasks are queued
\* and 202 is sent, which may arrive too late.
AlertHandler(b) ==
    LET p == notifier[b].payload IN
    /\ CanSend(b)
    /\ \/ /\ ~(p.token /\ p.json)
          /\ Attempted(b, FALSE)
          /\ UNCHANGED requests
       \/ /\ p.token /\ p.json
          /\ Len(requests) < MaxRequests
          /\ \E answered \in BOOLEAN : Attempted(b, answered)
          /\ requests' = Append(requests, NewRequest(b, p.alerts))
    /\ UNCHANGED <<vars, posted, life>>

\* The attempt never reaches the service (down or unreachable).
Unreachable(b) ==
    /\ CanSend(b)
    /\ Attempted(b, FALSE)
    /\ UNCHANGED <<vars, requests, posted, life>>

\* Fault: only duplicates are skipped.
BeginGroupUnlimited(r) ==
    LET q == requests[r] IN
    /\ Live(r) /\ q.stage = "ready"
    /\ Consult(Group(r))
    /\ LET begun == [q EXCEPT !.started[q.at] = now] IN
       requests' = [requests EXCEPT ![r] =
           IF decision'.reason # "deduped"
           THEN Enter([begun EXCEPT !.fate[q.at] = "running"], "loki")
           ELSE Finished(begun, decision'.reason)]
    /\ UNCHANGED <<now, notifier, posted, life>>

\* _process_ip_group up to its first outside call.
BeginGroup(r) ==
    LET q == requests[r] IN
    /\ Live(r) /\ q.stage = "ready"
    /\ Consult(Group(r))
    /\ LET begun == [q EXCEPT !.started[q.at] = now] IN
       requests' = [requests EXCEPT ![r] =
           IF decision'.reason = "ok"
           THEN Enter([begun EXCEPT !.fate[q.at] = "running"], "loki")
           ELSE Finished(begun, decision'.reason)]
    /\ UNCHANGED <<now, notifier, posted, life>>

\* A field of an alert is not what the lines before the try expect: the task
\* raises, and Starlette runs none of the tasks the request still has queued.
BeginGroupRaises(r) ==
    LET q == requests[r] IN
    /\ Live(r) /\ q.stage = "ready"
    /\ requests' = [requests EXCEPT
          ![r].fate = [g \in DOMAIN @ |-> IF @[g] = "queued" THEN "aborted" ELSE @[g]],
          ![r].stage = "done"]
    /\ UNCHANGED <<vars, notifier, posted, life>>

\* Fault: a failed query is retried until it succeeds.
LokiRetried(r) ==
    /\ Live(r) /\ requests[r].stage = "loki"
    /\ \E next \in {"loki", "llm"} :
          requests' = [requests EXCEPT ![r] = Enter(@, next)]
    /\ UNCHANGED <<vars, notifier, posted, life>>

\* Fault: no timeout, so that an answer which is lost is awaited for ever.
LokiHangs(r) ==
    /\ Live(r) /\ requests[r].stage = "loki"
    /\ now = requests[r].since
    /\ requests' = [requests EXCEPT ![r] = Enter(@, "llm")]
    /\ UNCHANGED <<vars, notifier, posted, life>>

\* fetch_loki_context returns lines, or [] on any error: the task goes on.
LokiAnswered(r) ==
    /\ Live(r) /\ requests[r].stage = "loki"
    /\ requests' = [requests EXCEPT ![r] = Enter(@, "llm")]
    /\ UNCHANGED <<vars, notifier, posted, life>>

\* Rendering calls .strip() on the verdict's fields; what it raises is caught
\* by _process_ip_group and only logged.
Renderable(shape) == shape # "malformed"

\* summarize returns the model's text, or a placeholder on any error.
\* "verdict" is a JSON object of the contract, "malformed" is JSON whose
\* fields are not the strings the contract asks for, "prose" is not JSON.
LlmAnswered(r) ==
    /\ Live(r) /\ requests[r].stage = "llm"
    /\ \E shape \in Shapes :
          requests' = [requests EXCEPT ![r] =
              [Enter(@, "discord") EXCEPT !.renderable = Renderable(shape)]]
    /\ UNCHANGED <<vars, notifier, posted, life>>

\* The embed about group g of request r, in the channel since time t: one of the
\* life that accepted r, for the admission its task was granted.
EmbedOf(r, g, t) == [ip |-> requests[r].groups[g], life |-> requests[r].life,
                  admittedAt |-> requests[r].started[g], postedAt |-> t,
                  request |-> r, group |-> g]

\* Fault: a refused post clears the IP, so that it may be tried again.
PostDiscordUnmarking(r) ==
    LET q == requests[r] IN
    /\ Live(r) /\ q.stage = "discord"
    /\ seen' = [seen EXCEPT ![Group(r)] = 0]
    /\ requests' = [requests EXCEPT ![r] = Finished(q, "refused")]
    /\ UNCHANGED <<now, hour_window, decision, admitted>>
    /\ UNCHANGED <<notifier, posted, life>>

\* post_discord: one attempt, no retry; a refused post is only logged.  The
\* channel may have the embed although the answer was lost.
PostDiscord(r) ==
    LET q == requests[r] IN
    /\ Live(r) /\ q.stage = "discord"
    /\ \E delivered, answered \in BOOLEAN :
        /\ answered => delivered
        /\ posted' = IF q.renderable /\ delivered
                     THEN posted \cup {EmbedOf(r, q.at, now)}
                     ELSE posted
        /\ requests' = [requests EXCEPT ![r] =
              Finished(q, IF ~q.renderable THEN "unrenderable"
                          ELSE IF answered THEN "posted" ELSE "refused")]
    /\ UNCHANGED <<vars, notifier, life>>

\* Time passes only while every live task waits for an outside service that
\* has time left.
PipelineTick ==
    /\ now < Horizon
    /\ \A r \in DOMAIN requests :
          Live(r) => /\ requests[r].stage \in Waiting
                     /\ now < requests[r].since + StageTime
    /\ now' = now + 1
    /\ UNCHANGED <<seen, hour_window, decision, admitted>>
    /\ UNCHANGED <<notifier, requests, posted, life>>

\* The process dies; queued and running tasks are gone, and the tracker too.
Crash ==
    /\ life < MaxCrashes
    /\ life' = life + 1
    /\ Restart
    /\ requests' = [r \in DOMAIN requests |->
          IF Live(r)
          THEN [requests[r] EXCEPT
                   !.stage = "done",
                   !.fate = [g \in DOMAIN @ |->
                                IF @[g] \in {"queued", "running"}
                                THEN "lost" ELSE @[g]]]
          ELSE requests[r]]
    /\ UNCHANGED <<notifier, posted>>

\* The bounds are reached and every task has ended.
Quiescent ==
    /\ now = Horizon /\ life = MaxCrashes
    /\ \A r \in DOMAIN requests : ~Live(r)
    /\ Len(requests) = MaxRequests \/ \A b \in Batches : ~CanSend(b)
    /\ UNCHANGED pipelineVars

Serve(r) == \/ BeginGroup(r)
            \/ BeginGroupRaises(r)
            \/ LokiAnswered(r)
            \/ LlmAnswered(r)
            \/ PostDiscord(r)

PipelineNext ==
    \/ \E b \in Batches : AlertHandler(b) \/ Unreachable(b)
    \/ \E r \in 1..MaxRequests : r \in DOMAIN requests /\ Serve(r)
    \/ PipelineTick
    \/ Crash
    \/ Quiescent

\* The event loop runs ready work and every outside call returns or times out.
Fairness == \A r \in 1..MaxRequests :
                WF_pipelineVars(r \in DOMAIN requests /\ Serve(r))

PipelineSpec == PipelineInit /\ [][PipelineNext]_pipelineVars /\ Fairness
-----------------------------------------------------------------------------
\* The shape of the state.
PipelineTypeOK ==
    /\ TypeOK
    /\ \A b \in Batches :
          /\ notifier[b].payload \in Payloads[b]
          /\ notifier[b].tries \in 0..MaxRetry + 1
          /\ notifier[b].status \in {"idle", "retry", "acked", "gave_up"}
    /\ Len(requests) <= MaxRequests
    /\ \A r \in DOMAIN requests :
          /\ requests[r].batch \in Batches
          /\ requests[r].stage \in Stages
          /\ requests[r].renderable \in BOOLEAN
          /\ \A g \in DOMAIN requests[r].groups :
                /\ requests[r].groups[g] \in Keys
                /\ requests[r].fate[g] \in Fates
                /\ requests[r].started[g] \in Times
    /\ life \in 0..MaxCrashes

Gap(e, f) == LET d == e.admittedAt - f.admittedAt IN IF d < 0 THEN -d ELSE d

\* A batch delivered twice (the 202 came too late and the notifier retried),
\* or two batches about one IP in flight at once, yield one embed per IP and
\* de-duplication window: the IP is marked before the first await of
\* _process_ip_group, so no interleaving of tasks posts it again.
NoDoubleEmbed ==
    \A e, f \in posted :
        e # f /\ e.ip = f.ip /\ e.life = f.life => Gap(e, f) >= DEDUPE_WINDOW

\* What the cap promises the channel.  Admissions are capped per hour, but an
\* embed appears up to three outside calls after its admission, so slow posts
\* may bunch: it is in an hour less that delay that one process life posts at
\* most MAX_PER_HOUR embeds, over all requests and however their tasks
\* interleave.
EmbedBudget ==
    \A t \in Times, l \in 0..MaxCrashes :
        Cardinality({e \in posted :
                        /\ e.life = l
                        /\ e.postedAt \in t..t + HOUR - 3 * StageTime})
            <= MAX_PER_HOUR

Started(q, g) == q.fate[g] \notin {"queued", "lost", "aborted"}

\* Tasks of one request run back to back: group g waits at most for the three
\* outside calls of each of the g - 1 groups before it, whatever other
\* requests do meanwhile.
QueueingDelay ==
    \A r \in DOMAIN requests : \A g \in DOMAIN requests[r].groups :
        Started(requests[r], g) =>
            requests[r].started[g] - requests[r].accepted
                <= (g - 1) * 3 * StageTime

\* An IP skipped as a duplicate was admitted by this process within the
\* window, and its task has not been forgotten: it posted, failed to post, or
\* is still running.
DuplicateHasOriginal ==
    \A r \in DOMAIN requests : \A g \in DOMAIN requests[r].groups :
        requests[r].fate[g] = "deduped" =>
            \E p \in DOMAIN requests : \E h \in DOMAIN requests[p].groups :
                LET original == requests[p] IN
                /\ original.life = requests[r].life
                /\ original.groups[h] = requests[r].groups[g]
                /\ original.fate[h] \in Admitted \cup {"lost"}
                /\ requests[r].started[g] - original.started[h]
                     \in 0..DEDUPE_WINDOW - 1

\* Every queued task of every accepted request reaches an end: it runs to one,
\* or is dropped because a task before it raised or the process died.
EveryGroupSettles ==
    \A r \in 1..MaxRequests :
        r \in DOMAIN requests ~>
            (r \in DOMAIN requests /\ requests[r].stage = "done")

\* Concurrent requests, retries and crashes use the shared tracker only
\* through whole calls of should_process.
UsesTracker == Spec

=============================================================================
