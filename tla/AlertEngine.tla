---------------------------- MODULE AlertEngine ----------------------------
(***************************************************************************)
(* class AlertEngine of dashboard/alerts.py.  One background thread runs   *)
(* check_all every ten seconds: each (machine, metric) key with a sample is*)
(* evaluated, alerts fire after a sustained breach and repeat after a      *)
(* cooldown, resolutions are queued and sent at the end of the pass, the   *)
(* history file is rewritten on every event, and each post is handed to a  *)
(* daemon thread of its own, which nobody joins or retries.  What becomes  *)
(* of a post after that is outside this module.                            *)
(*                                                                         *)
(* Time is counted in passes.  _active_alerts holds the time an alert      *)
(* fired; the model holds its age, which only matters up to the cooldown,  *)
(* and a breach count only matters up to the sustained limit, so both      *)
(* saturate there and no clock bound is needed.                            *)
(***************************************************************************)
EXTENDS Integers, Sequences, Functions

CONSTANTS KeyOrder,   \* the keys in the order a pass evaluates them
          Sustained,  \* per key: consecutive breaches before it fires
          Cooldown,   \* per key: passes before it may fire again
          MaxHistory  \* MAX_HISTORY, the deque's maxlen

Keys == Range(KeyOrder)

ASSUME AlertAssumption ==
    /\ KeyOrder \in Seq(Keys) /\ KeyOrder # <<>> /\ IsInjective(KeyOrder)
    /\ Sustained \in [Keys -> Nat \ {0}]
    /\ Cooldown \in [Keys -> Nat \ {0}]
    /\ MaxHistory \in Nat \ {0}

VARIABLES pc,         \* where the background thread is
          at,         \* index of the key it evaluates
          breach,     \* _breach_counts; 0 stands for "no entry"
          active,     \* _active_alerts: age of the last firing, or Inactive
          history,    \* the deque, oldest first
          pending,    \* _pending_resolved
          outbox,     \* the alert to send after the running save
          file,       \* HISTORY_FILE, or Torn after an interrupted write
          said,       \* history variable: the last notice about the key that
                      \* this process handed to a post thread
          last,       \* history variable: last sample of the key
          unsaved     \* history variable: the last save failed

memory == <<breach, active, history, pending, outbox>>
ghosts == <<said, last, unsaved>>
vars == <<pc, at, memory, file, ghosts>>

Inactive == -1
Torn == <<[key |-> "torn", notice |-> "torn"]>>
Samples == {"missing", "ok", "breach"}
Notices == {"fired", "resolved"}
Event == [key : Keys, notice : Notices]

Init ==
    /\ pc = "idle" /\ at = 1
    /\ breach = [k \in Keys |-> 0]
    /\ active = [k \in Keys |-> Inactive]
    /\ history = <<>> /\ pending = <<>> /\ outbox = <<>>
    /\ file = <<>>
    /\ said = [k \in Keys |-> "none"]
    /\ last = [k \in Keys |-> "missing"]
    /\ unsaved = FALSE

Key == KeyOrder[at]

\* The thread turns to the next key, or to the pending resolutions.
Advance == IF at < Len(KeyOrder)
           THEN pc' = "check" /\ at' = at + 1
           ELSE pc' = "drain" /\ at' = 1

\* A fault: the deque is created without maxlen.
KeepAll(h) == h

Keep(h) == IF Len(h) > MaxHistory THEN Tail(h) ELSE h

Log(notice) == history' = Keep(Append(history, [key |-> Key, notice |-> notice]))

\* A new pass, ten seconds after the last.
StartPass ==
    /\ pc = "idle"
    /\ pc' = "check" /\ at' = 1
    /\ active' = [k \in Keys |->
                     IF active[k] \in 0..Cooldown[k] - 1 THEN active[k] + 1
                     ELSE active[k]]
    /\ UNCHANGED <<breach, history, pending, outbox, file, ghosts>>

\* A fault: a missing sample clears the count and leaves the alert active.
SkipResetting ==
    /\ pc = "check"
    /\ last' = [last EXCEPT ![Key] = "missing"]
    /\ breach' = [breach EXCEPT ![Key] = 0]
    /\ Advance
    /\ UNCHANGED <<active, history, pending, outbox, file, said, unsaved>>

\* No sample: the machine did not answer or lacks the sensor.  Nothing is
\* evaluated, so counts and active alerts stay as they are.
Skip ==
    /\ pc = "check"
    /\ last' = [last EXCEPT ![Key] = "missing"]
    /\ Advance
    /\ UNCHANGED <<memory, file, said, unsaved>>

Counted(k) == IF breach[k] < Sustained[k] THEN breach[k] + 1 ELSE breach[k]

\* Two faults: the window includes its end; an active alert never repeats.
InCooldownInclusive(k) == active[k] # Inactive /\ active[k] <= Cooldown[k]
InCooldownForever(k) == active[k] # Inactive

InCooldown(k) == active[k] # Inactive /\ active[k] < Cooldown[k]

\* A sample beyond its threshold (_evaluate, _maybe_fire_alert), or on
\* battery (_evaluate_power_state).
Breach ==
    /\ pc = "check"
    /\ last' = [last EXCEPT ![Key] = "breach"]
    /\ breach' = [breach EXCEPT ![Key] = Counted(Key)]
    /\ \/ /\ Counted(Key) < Sustained[Key] \/ InCooldown(Key)
          /\ Advance
          /\ UNCHANGED <<active, history, outbox>>
       \/ /\ Counted(Key) >= Sustained[Key] /\ ~InCooldown(Key)
          /\ active' = [active EXCEPT ![Key] = 0]
          /\ Log("fired")
          /\ outbox' = <<Key>>
          /\ pc' = "save" /\ UNCHANGED at
    /\ UNCHANGED <<pending, file, said, unsaved>>

\* Two faults: a resolution is recorded and not saved; it leaves the alert in
\* the table of active ones.
NormalUnsaved ==
    /\ pc = "check"
    /\ last' = [last EXCEPT ![Key] = "ok"]
    /\ breach' = [breach EXCEPT ![Key] = 0]
    /\ active' = [active EXCEPT ![Key] = Inactive]
    /\ IF active[Key] = Inactive
       THEN UNCHANGED <<history, pending>>
       ELSE Log("resolved") /\ pending' = Append(pending, Key)
    /\ Advance
    /\ UNCHANGED <<outbox, file, said, unsaved>>

NormalNotPopped ==
    /\ pc = "check"
    /\ last' = [last EXCEPT ![Key] = "ok"]
    /\ breach' = [breach EXCEPT ![Key] = 0]
    /\ IF active[Key] = Inactive
       THEN Advance /\ UNCHANGED <<history, pending>>
       ELSE /\ Log("resolved") /\ pending' = Append(pending, Key)
            /\ pc' = "save" /\ UNCHANGED at
    /\ UNCHANGED <<active, outbox, file, said, unsaved>>

\* A normal sample ends the count and, if the alert was active, records its
\* resolution (_record_resolved).
Normal ==
    /\ pc = "check"
    /\ last' = [last EXCEPT ![Key] = "ok"]
    /\ breach' = [breach EXCEPT ![Key] = 0]
    /\ active' = [active EXCEPT ![Key] = Inactive]
    /\ \/ /\ active[Key] = Inactive
          /\ Advance
          /\ UNCHANGED <<history, pending>>
       \/ /\ active[Key] # Inactive
          /\ Log("resolved")
          /\ pending' = Append(pending, Key)
          /\ pc' = "save" /\ UNCHANGED at
    /\ UNCHANGED <<outbox, file, said, unsaved>>

\* _save_history: open(.., 'w') truncates before json.dump writes; an error
\* in either is swallowed.
OpenFile ==
    /\ pc = "save"
    /\ \/ file' = Torn /\ pc' = "write" /\ UNCHANGED unsaved
       \/ UNCHANGED file /\ pc' = "send" /\ unsaved' = TRUE
    /\ UNCHANGED <<at, memory, said, last>>

WriteFile ==
    /\ pc = "write"
    /\ \/ file' = history /\ unsaved' = FALSE
       \/ UNCHANGED file /\ unsaved' = TRUE
    /\ pc' = "send"
    /\ UNCHANGED <<at, memory, said, last>>

\* _send_discord starts a thread for the post and returns.
Send(ks, notice) == said' = [k \in Keys |-> IF k \in ks THEN notice ELSE said[k]]

\* After the save, a fired alert is sent at once; a resolution waits.
SendFired ==
    /\ pc = "send"
    /\ Send(Range(outbox), "fired")
    /\ outbox' = <<>>
    /\ Advance
    /\ UNCHANGED <<breach, active, history, pending, file, last, unsaved>>

\* A fault: the queue is cleared before it is copied.
SendResolvedCleared ==
    /\ pc = "drain"
    /\ pending' = <<>>
    /\ pc' = "idle"
    /\ UNCHANGED <<at, breach, active, history, outbox, file, ghosts>>

\* The end of check_all: the queue is taken and cleared under the lock.
SendResolved ==
    /\ pc = "drain"
    /\ Send(Range(pending), "resolved")
    /\ pending' = <<>>
    /\ pc' = "idle"
    /\ UNCHANGED <<at, breach, active, history, outbox, file, last, unsaved>>

Loaded == IF file = Torn THEN <<>> ELSE file

\* The dashboard restarts: only the history is loaded again, silently empty
\* if the file is torn.
Restart ==
    /\ pc' = "idle" /\ at' = 1
    /\ breach' = [k \in Keys |-> 0]
    /\ active' = [k \in Keys |-> Inactive]
    /\ history' = Loaded
    /\ pending' = <<>> /\ outbox' = <<>>
    /\ said' = [k \in Keys |-> "none"]
    /\ last' = [k \in Keys |-> "missing"]
    /\ unsaved' = FALSE
    /\ UNCHANGED file

Thread == \/ StartPass \/ Skip \/ Breach \/ Normal
          \/ OpenFile \/ WriteFile \/ SendFired \/ SendResolved

Next == Thread \/ Restart

\* The loop never ends on its own: every call in it has a timeout, and
\* exceptions are caught (_bg_status_loop).
Spec == Init /\ [][Next]_vars /\ WF_vars(Thread)
-----------------------------------------------------------------------------
\* The shape of the state.
TypeOK ==
    /\ pc \in {"idle", "check", "save", "write", "send", "drain"}
    /\ at \in 1..Len(KeyOrder)
    /\ breach \in [Keys -> Nat] /\ \A k \in Keys : breach[k] <= Sustained[k]
    /\ active \in [Keys -> Int]
    /\ \A k \in Keys : active[k] \in {Inactive} \cup 0..Cooldown[k]
    /\ history \in Seq(Event) /\ Len(history) <= MaxHistory
    /\ pending \in Seq(Keys) /\ outbox \in Seq(Keys)
    /\ file = Torn \/ (file \in Seq(Event) /\ Len(file) <= MaxHistory)
    /\ said \in [Keys -> Notices \cup {"none"}]
    /\ last \in [Keys -> Samples]
    /\ unsaved \in BOOLEAN

\* An alert is active only while its breach lasts: the two dictionaries are
\* changed in different critical sections and must not drift apart, over
\* missing samples and restarts (_evaluate, _evaluate_power_state).
ActiveIsSustained ==
    \A k \in Keys : active[k] # Inactive => breach[k] = Sustained[k]

\* A sustained breach is never silent: whenever a pass ends on a breaching
\* sample, the alert is out and is younger than the cooldown
\* (_maybe_fire_alert).
NeverSilent ==
    pc = "idle" =>
        \A k \in Keys : last[k] = "breach" /\ breach[k] = Sustained[k] =>
            active[k] \in 0..Cooldown[k] - 1

\* Between saves a restart would load exactly the history in memory; only a
\* save that failed breaks it, and the next one that succeeds repairs it
\* (_save_history, _load_history).
HistoryOnDisk == pc \notin {"save", "write"} /\ ~unsaved => history = Loaded

\* Between passes the last notice this process sent about a key tells whether
\* its alert is active: no firing, repeat or resolution is left unsent, and
\* none is sent in the wrong order (check_all).
SaidAgrees ==
    pc = "idle" =>
        \A k \in Keys : active[k] # Inactive <=> said[k] = "fired"

Fired(k) == [key |-> k, notice |-> "fired"]
Resolved(k) == [key |-> k, notice |-> "resolved"]

\* A list of events in which a key's resolutions have a firing in between.
Alternates(h) ==
    \A i, j \in 1..Len(h), k \in Keys :
        i < j /\ h[i] = Resolved(k) /\ h[j] = Resolved(k) =>
            \E m \in i + 1..j - 1 : h[m] = Fired(k)

\* For each key, the recorded history never holds two resolutions without a
\* firing between them, even when a restart forgot the active alert or loaded
\* an older file (_record_resolved, _load_history).
OneResolutionPerEpisode == Alternates(history)

\* A breach that persists is announced again and again, whatever the other
\* keys and the disk do (check_all, _maybe_fire_alert).
PersistentBreachRepeats ==
    \A k \in Keys : <>[](last[k] = "breach") => []<>(k \in Range(outbox))
=============================================================================
