--------------------------- MODULE LibraryUpdate ---------------------------
(***************************************************************************)
(* linux/scripts/library-update.sh.  Zurg starts one instance of the script*)
(* per change of the library.  An instance that finds the lock taken leaves*)
(* a PENDING file and ends; the one that holds it sweeps every library and,*)
(* if PENDING is there at the end, unlocks and executes itself again, at   *)
(* most MAX_RERUNS times.  Each line that touches the lock or the file is a*)
(* step of its own, since instances interleave between any two of them.    *)
(* The commands it runs between them (find, mountpoint, FileBot, sops) have*)
(* no time limit, but for ls and curl: any of them may never come back.    *)
(***************************************************************************)
EXTENDS Integers, Sequences, Functions

CONSTANTS Hooks,      \* instances of the script that may exist at once
          Sweeps,     \* the libraries, in the order FileBot sweeps them
          MaxReruns,  \* MAX_RERUNS
          Nobody      \* holder of a free lock

Libraries == Range(Sweeps)

ASSUME LibraryAssumption ==
    /\ Nobody \notin Hooks
    /\ Sweeps \in Seq(Libraries) /\ Sweeps # <<>> /\ IsInjective(Sweeps)
    /\ MaxReruns \in Nat

VARIABLES pc,       \* per instance: the next command; "none" if not running
          sweep,    \* per instance: index of the next library to sweep
          rerun,    \* per instance: LIBRARY_UPDATE_RERUN_COUNT
          errors,   \* per instance: ERRORS, as what they are about
          lock,     \* holder of LOCK_FILE
          pending,  \* PENDING_FILE exists
          unseen,   \* history variable: libraries with a change that no sweep
                    \* began after
          told,     \* history variable: libraries whose last failed sweep was
                    \* posted to Discord
          unposted  \* history variable: those whose last failed sweep an EXIT
                    \* trap could not post, and left to the system's log

vars == <<pc, sweep, rerun, errors, lock, pending, unseen, told, unposted>>

Scan == "scan"  \* an error about API keys or a media server
Locked == {"clear", "mount", "sweep", "scan", "check", "remove", "unlock", "exit"}

Init ==
    /\ pc = [h \in Hooks |-> "none"]
    /\ sweep = [h \in Hooks |-> 1]
    /\ rerun = [h \in Hooks |-> 0]
    /\ errors = [h \in Hooks |-> {}]
    /\ lock = Nobody /\ pending = FALSE
    /\ unseen = {} /\ told = {} /\ unposted = {}

Goto(h, label) == pc' = [pc EXCEPT ![h] = label]

\* Zurg changes a library and calls the hook.
Change(h, l) ==
    /\ pc[h] = "none"
    /\ Goto(h, "lock")
    /\ unseen' = unseen \cup {l}
    /\ told' = told \ {l} /\ unposted' = unposted \ {l}
    /\ UNCHANGED <<sweep, rerun, errors, lock, pending>>

\* flock -n
TryLock(h) ==
    /\ pc[h] = "lock"
    /\ \/ lock = Nobody /\ lock' = h /\ Goto(h, "clear")
       \/ lock # Nobody /\ Goto(h, "touch") /\ UNCHANGED lock
    /\ UNCHANGED <<sweep, rerun, errors, pending, unseen, told, unposted>>

\* The lock was taken: leave the mark and end.
Touch(h) ==
    /\ pc[h] = "touch"
    /\ pending' = TRUE
    /\ rerun' = [rerun EXCEPT ![h] = 0]
    /\ Goto(h, "none")
    /\ UNCHANGED <<sweep, errors, lock, unseen, told, unposted>>

\* The pass to come serves every mark left so far.
Clear(h) ==
    /\ pc[h] = "clear"
    /\ pending' = FALSE
    /\ Goto(h, "mount")
    /\ UNCHANGED <<sweep, rerun, errors, lock, unseen, told, unposted>>

\* A mount that is gone or stale ends the pass at once.
CheckMount(h) ==
    /\ pc[h] = "mount"
    /\ \/ Goto(h, "sweep") /\ UNCHANGED errors
       \/ Goto(h, "exit") /\ errors' = [errors EXCEPT ![h] = Libraries]
    /\ UNCHANGED <<sweep, rerun, lock, pending, unseen, told, unposted>>

\* FileBot begins to read a library; what changes later is not certain to be
\* seen.  If it crashes the error is kept and the script goes on; it also ends
\* with an error code if nothing was new, so only a Java trace is an error, and
\* any other end is taken for a sweep (lines 166-175).
Sweep(h) ==
    LET l == Sweeps[sweep[h]]
    IN /\ pc[h] = "sweep"
       /\ \/ /\ unseen' = unseen \ {l}
             /\ told' = told \ {l} /\ unposted' = unposted \ {l}
             /\ UNCHANGED errors
          \/ /\ errors' = [errors EXCEPT ![h] = @ \cup {l}]
             /\ UNCHANGED <<unseen, told, unposted>>
       /\ IF sweep[h] < Len(Sweeps)
          THEN sweep' = [sweep EXCEPT ![h] = @ + 1] /\ UNCHANGED pc
          ELSE Goto(h, "scan") /\ sweep' = [sweep EXCEPT ![h] = 1]
       /\ UNCHANGED <<rerun, lock, pending>>

\* API keys and scans of Emby and Plex; any of them may fail.
TriggerScans(h) ==
    /\ pc[h] = "scan"
    /\ errors' \in {errors, [errors EXCEPT ![h] = @ \cup {Scan}]}
    /\ Goto(h, "check")
    /\ UNCHANGED <<sweep, rerun, lock, pending, unseen, told, unposted>>

\* A fault: the cap is off by one.
MayRerunOnceMore(h) == pending /\ rerun[h] <= MaxReruns

MayRerun(h) == pending /\ rerun[h] < MaxReruns

\* A fault: the mark is removed although the cap forbids to serve it.
CheckPendingDropping(h) ==
    /\ pc[h] = "check"
    /\ Goto(h, IF MayRerun(h) THEN "remove" ELSE "exit")
    /\ pending' = (pending /\ MayRerun(h))
    /\ UNCHANGED <<sweep, rerun, errors, lock, unseen, told, unposted>>

CheckPending(h) ==
    /\ pc[h] = "check"
    /\ Goto(h, IF MayRerun(h) THEN "remove" ELSE "exit")
    /\ UNCHANGED <<sweep, rerun, errors, lock, pending, unseen, told, unposted>>

RemovePending(h) ==
    /\ pc[h] = "remove"
    /\ pending' = FALSE
    /\ Goto(h, "unlock")
    /\ UNCHANGED <<sweep, rerun, errors, lock, unseen, told, unposted>>

\* Two faults: the new image takes the lock for granted; it does not know that
\* it is a rerun.
RerunUnlocked(h) ==
    /\ pc[h] = "unlock"
    /\ lock' = Nobody
    /\ rerun' = [rerun EXCEPT ![h] = @ + 1]
    /\ errors' = [errors EXCEPT ![h] = {}]
    /\ Goto(h, "clear")
    /\ UNCHANGED <<sweep, pending, unseen, told, unposted>>

RerunUncounted(h) ==
    /\ pc[h] = "unlock"
    /\ lock' = Nobody
    /\ errors' = [errors EXCEPT ![h] = {}]
    /\ Goto(h, "lock")
    /\ UNCHANGED <<sweep, rerun, pending, unseen, told, unposted>>

\* flock -u and exec.  The new image begins with no errors and must take the
\* lock like any other instance; exec runs no EXIT trap.
Rerun(h) ==
    /\ pc[h] = "unlock"
    /\ lock' = Nobody
    /\ rerun' = [rerun EXCEPT ![h] = @ + 1]
    /\ errors' = [errors EXCEPT ![h] = {}]
    /\ Goto(h, "lock")
    /\ UNCHANGED <<sweep, pending, unseen, told, unposted>>

\* The EXIT trap posts what failed.  Without a webhook, or if curl fails, it only
\* writes to the system's log that it could not.
PostFailure(h) ==
    LET failed == errors[h] \cap Libraries
    IN \/ told' = told \cup failed /\ unposted' = unposted \ failed
       \/ unposted' = unposted \cup failed /\ UNCHANGED told

\* The script ends, and the lock with the process.
Exit(h) ==
    /\ pc[h] = "exit"
    /\ PostFailure(h)
    /\ errors' = [errors EXCEPT ![h] = {}]
    /\ rerun' = [rerun EXCEPT ![h] = 0]
    /\ lock' = Nobody
    /\ Goto(h, "none")
    /\ UNCHANGED <<sweep, pending, unseen>>

\* The steps the script takes by itself: flock -n does not wait, curl has -m 10.
OwnStep(h) == \/ TryLock(h) \/ Touch(h) \/ Clear(h) \/ CheckPending(h)
              \/ RemovePending(h) \/ Rerun(h) \/ Exit(h)

Step(h) == OwnStep(h) \/ CheckMount(h) \/ Sweep(h) \/ TriggerScans(h)

Next == \E h \in Hooks : Step(h) \/ \E l \in Libraries : Change(h, l)

\* A script that is not in a command without a limit goes on; nothing makes
\* such a command come back, nor Zurg call the script.
Spec == Init /\ [][Next]_vars /\ \A h \in Hooks : WF_vars(OwnStep(h))
-----------------------------------------------------------------------------
\* The shape of the state.
TypeOK ==
    /\ pc \in [Hooks -> {"none", "lock", "touch"} \cup Locked]
    /\ sweep \in [Hooks -> 1..Len(Sweeps)]
    /\ rerun \in [Hooks -> 0..MaxReruns]
    /\ errors \in [Hooks -> SUBSET (Libraries \cup {Scan})]
    /\ lock \in Hooks \cup {Nobody}
    /\ pending \in BOOLEAN
    /\ unseen \subseteq Libraries
    /\ told \subseteq Libraries /\ unposted \subseteq Libraries

\* Only the holder of the lock is past line 46, so that two sweeps never race
\* on one directory tree, reruns included.
OneSweeper == \A h \in Hooks : pc[h] \in Locked => lock = h

\* An instance that will begin to sweep l, or leave the mark, in the pass it is
\* in or is about to begin.
WillSweep(h, l) ==
    \/ pc[h] \in {"unlock", "lock", "touch", "clear", "mount"}
    \/ pc[h] = "sweep" /\ \E i \in sweep[h]..Len(Sweeps) : Sweeps[i] = l

\* No change is forgotten by the lock, the mark and the reruns: until a sweep
\* that began after it, some instance is on its way, or the mark is there for
\* one, or the failure is in an error list, or was posted, or an EXIT trap tried
\* to post it and could not (lines 42-47, 96, 116-121 and 255-259).
NothingForgotten ==
    \A l \in unseen :
        \/ pending \/ l \in told \/ l \in unposted
        \/ \E h \in Hooks : WillSweep(h, l) \/ l \in errors[h]

\* h waits for a command that has no limit.
InCommand(h) == pc[h] \in {"mount", "sweep", "scan"}

\* An instance whose own commands come back ends, however often Zurg calls and
\* even if another hangs for ever with the lock: reruns are capped and nothing
\* waits for the lock.
EveryHookEnds ==
    \A h \in Hooks :
        []<>~InCommand(h) => (pc[h] # "none" ~> pc[h] = "none")

\* "The running instance will pick up our changes by re-running": while every
\* command comes back, no pass fails and the cap is not reached, a mark is served
\* (lines 34-36).
PendingServed ==
    (/\ \A h \in Hooks : []<>~InCommand(h)
     /\ [](\A h \in Hooks : errors[h] = {} /\ rerun[h] < MaxReruns))
        => (pending ~> ~pending)

\* "POSTs a single Discord alert at the end so nothing fails silently": an
\* instance gives up its errors only in the EXIT trap (lines 14-16).
ErrorsReported ==
    [][\A h \in Hooks : errors[h] # {} /\ errors'[h] = {} => pc[h] = "exit"]_vars
=============================================================================
