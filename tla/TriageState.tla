---------------------------- MODULE TriageState ----------------------------
(***************************************************************************)
(* class _State of services/log-triage/app.py: the in-memory de-duplication*)
(* table and hourly rate window that decide which source IPs get an LLM    *)
(* summary.  should_process holds an asyncio lock and awaits nothing while *)
(* it holds it, so one call is one action.                                 *)
(*                                                                         *)
(* `admitted' is a history variable: the admissions of the current process *)
(* life.  The code keeps only what it has not yet purged.                  *)
(***************************************************************************)
EXTENDS Integers, Sequences, FiniteSets

CONSTANTS Keys, HOUR, MAX_PER_HOUR, DEDUPE_WINDOW, Epoch, Horizon

\* Clock values are far above DEDUPE_WINDOW (they are Unix times), so that a
\* missing key, which the code reads as time 0, never looks recent.
ASSUME TriageAssumption ==
    /\ HOUR \in Nat \ {0}
    /\ MAX_PER_HOUR \in Nat \ {0}
    /\ DEDUPE_WINDOW \in Nat \ {0}
    /\ Epoch \in Nat /\ Epoch >= DEDUPE_WINDOW
    /\ Horizon \in Nat /\ Horizon >= Epoch

VARIABLES now,          \* time.time()
          seen,         \* _seen; 0 stands for "no entry", as in .get(key, 0)
          hour_window,  \* _hour_window, oldest admission first
          decision,     \* what the last call of should_process returned
          admitted      \* history: all admissions since the process started

limiter == <<seen, hour_window, decision, admitted>>
vars == <<now, limiter>>

Absent == 0
NoDecision == [key |-> "nobody", reason |-> "none"]
Reasons == {"ok", "rate_limited", "deduped"}

Init == /\ now = Epoch
        /\ seen = [k \in Keys |-> Absent]
        /\ hour_window = <<>>
        /\ decision = NoDecision
        /\ admitted = <<>>

\* Fault: `<=' instead of `<' in the purge loop.
PurgeStopsInclusive(w, k) ==
    /\ \A i \in 1..k : w[i] <= now - HOUR
    /\ k < Len(w) => w[k + 1] > now - HOUR

\* The purge loop: k entries are popped from the left, and it stops at the
\* first one that is not older than an hour.
PurgeStops(w, k) ==
    /\ \A i \in 1..k : w[i] < now - HOUR
    /\ k < Len(w) => w[k + 1] >= now - HOUR

Dropped(w, k) == SubSeq(w, k + 1, Len(w))

\* Faults: the retention divided instead of multiplied; no pruning at all.
PrunedEarly(table) == [k \in Keys |-> IF now - table[k] > DEDUPE_WINDOW \div 4
                                      THEN Absent ELSE table[k]]
NotPruned(table) == table

\* The admission's last statement drops every key older than four windows.
Pruned(table) == [k \in Keys |-> IF now - table[k] > DEDUPE_WINDOW * 4
                                 THEN Absent ELSE table[k]]

Refuse(key, window, reason) ==
    /\ hour_window' = window
    /\ decision' = [key |-> key, reason |-> reason]
    /\ UNCHANGED <<seen, admitted>>

\* Faults: the key is not recorded; key and time are swapped.
AdmitUnmarked(key, window) ==
    /\ seen' = Pruned(seen)
    /\ hour_window' = Append(window, now)
    /\ decision' = [key |-> key, reason |-> "ok"]
    /\ admitted' = Append(admitted, [at |-> now, key |-> key])

AdmitSwapped(key, window) ==
    /\ seen' = Pruned([seen EXCEPT ![key] = now])
    /\ hour_window' = Append(window, key)
    /\ decision' = [key |-> key, reason |-> "ok"]
    /\ admitted' = Append(admitted, [at |-> now, key |-> key])

Admit(key, window) ==
    /\ seen' = Pruned([seen EXCEPT ![key] = now])
    /\ hour_window' = Append(window, now)
    /\ decision' = [key |-> key, reason |-> "ok"]
    /\ admitted' = Append(admitted, [at |-> now, key |-> key])

\* Fault: the duplicate test comes before the rate test.
ConsultSwapped(key) ==
    \E k \in 0..Len(hour_window) :
        LET window == Dropped(hour_window, k) IN
        /\ PurgeStops(hour_window, k)
        /\ IF now - seen[key] < DEDUPE_WINDOW
           THEN Refuse(key, window, "deduped")
           ELSE IF Len(window) >= MAX_PER_HOUR
                THEN Refuse(key, window, "rate_limited")
                ELSE Admit(key, window)

\* Everything should_process(key) does to the tracker.
Consult(key) ==
    \E k \in 0..Len(hour_window) :
        LET window == Dropped(hour_window, k) IN
        /\ PurgeStops(hour_window, k)
        /\ \/ /\ Len(window) >= MAX_PER_HOUR
              /\ Refuse(key, window, "rate_limited")
           \/ /\ Len(window) < MAX_PER_HOUR
              /\ now - seen[key] < DEDUPE_WINDOW
              /\ Refuse(key, window, "deduped")
           \/ /\ Len(window) < MAX_PER_HOUR
              /\ now - seen[key] >= DEDUPE_WINDOW
              /\ Admit(key, window)

ShouldProcess(key) == Consult(key) /\ UNCHANGED now

Tick == /\ now < Horizon
        /\ now' \in now + 1 .. Horizon
        /\ UNCHANGED limiter

\* Fault: the table outlives the process.
ForgottenExceptTable == /\ UNCHANGED seen
                        /\ hour_window' = <<>>
                        /\ decision' = NoDecision
                        /\ admitted' = <<>>

\* The state is process-local: a restart builds a new _State().
Forgotten == /\ seen' = [k \in Keys |-> Absent]
             /\ hour_window' = <<>>
             /\ decision' = NoDecision
             /\ admitted' = <<>>

Restart == Forgotten /\ UNCHANGED now

Next == (\E key \in Keys : ShouldProcess(key)) \/ Tick \/ Restart

Spec == Init /\ [][Next]_vars

-----------------------------------------------------------------------------
Times == Epoch..Horizon
Admission == [at : Times, key : Keys]

\* The shape of the state: every remembered time is a clock value.
TypeOK == /\ now \in Times
          /\ seen \in [Keys -> Times \cup {Absent}]
          /\ hour_window \in Seq(Times)
          /\ decision \in {NoDecision} \cup [key : Keys, reason : Reasons]
          /\ admitted \in Seq(Admission)

\* The spend cap ("Total summaries capped at MAX_PER_HOUR"): within one
\* process life no closed interval of one hour holds more than MAX_PER_HOUR
\* admissions, wherever the interval starts and whatever was purged.
RateCap ==
    \A i \in 1..Len(admitted) :
        i + MAX_PER_HOUR <= Len(admitted) =>
            admitted[i + MAX_PER_HOUR].at - admitted[i].at > HOUR

\* Per-IP de-duplication: two admissions of one IP are at least
\* DEDUPE_WINDOW apart, although the table forgets old keys.
DedupeSpacing ==
    \A i, j \in 1..Len(admitted) :
        i < j /\ admitted[i].key = admitted[j].key =>
            admitted[j].at - admitted[i].at >= DEDUPE_WINDOW

\* The tracker keeps no more than one rate window of timestamps, and after an
\* admission no key older than four de-duplication windows: its memory is
\* bounded by recent traffic and not by the number of IPs ever seen.
MemoryBounded ==
    /\ Len(hour_window) <= MAX_PER_HOUR
    /\ admitted # <<>> =>
         \A k \in Keys : seen[k] # Absent =>
            admitted[Len(admitted)].at - seen[k] <= DEDUPE_WINDOW * 4

\* The bookkeeping invariant behind the properties above: the window is the
\* recent end of the admission record and everything popped from it is older
\* than an hour; a table entry is an admission of its key, and an admission
\* newer than a de-duplication window is still in the table.
Chronological ==
    /\ \A i, j \in 1..Len(admitted) : i < j => admitted[i].at <= admitted[j].at
    /\ \A i \in 1..Len(admitted) : admitted[i].at <= now

IsSuffix(w) ==
    /\ Len(w) <= Len(admitted)
    /\ \A i \in 1..Len(w) : w[i] = admitted[Len(admitted) - Len(w) + i].at

OldBefore(w) ==
    \A i \in 1..Len(admitted) - Len(w) : admitted[i].at < now - HOUR

TableIsLatest ==
    /\ \A k \in Keys : seen[k] # Absent =>
          \E i \in 1..Len(admitted) :
              admitted[i].key = k /\ admitted[i].at = seen[k]
    /\ \A i \in 1..Len(admitted) :
          \/ admitted[i].at <= seen[admitted[i].key]
          \/ now - admitted[i].at >= DEDUPE_WINDOW

Bookkeeping ==
    /\ Chronological
    /\ IsSuffix(hour_window)
    /\ OldBefore(hour_window)
    /\ Len(hour_window) <= MAX_PER_HOUR
    /\ TableIsLatest

\* Purging and pruning never change an answer: the tracker implements the
\* policy that is stated over all admissions of the process.
Policy == INSTANCE AdmissionPolicy
ImplementsPolicy == Policy!PolicySpec
=============================================================================
