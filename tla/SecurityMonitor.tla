--------------------------- MODULE SecurityMonitor ---------------------------
(***************************************************************************)
(* class SecurityHealthMonitor of dashboard/alerts.py, with the probe      *)
(* security-health-probe.py that it runs over ssh on the watched host, and *)
(* the channel its posts go to.  The background loop probes once a minute  *)
(* and evaluates the checks one after the other; every notice is handed to *)
(* a daemon thread of its own, which is not joined and tries only once.    *)
(*                                                                         *)
(* A probe that fails as a whole (ssh, its 20 seconds, its output) changes *)
(* nothing and is a stuttering step.  Time is not counted: a cooldown ends *)
(* sooner or later.                                                        *)
(***************************************************************************)
EXTENDS Naturals, SequencesExt

CONSTANTS CheckOrder,  \* the checks in the order of _check_host
          Sustained,   \* SUSTAINED_CHECKS
          MaxFaults,   \* bound: lost posts and restarts of the dashboard
          MaxPosts     \* bound, per check: posts under way about it

Checks == Range(CheckOrder)

ASSUME SecurityAssumption ==
    /\ CheckOrder \in Seq(Checks) /\ CheckOrder # <<>> /\ IsInjective(CheckOrder)
    /\ Sustained \in Nat \ {0} /\ MaxFaults \in Nat /\ MaxPosts \in [Checks -> Nat \ {0}]

VARIABLES class,   \* per check: what its command looks at
          bad,     \* per check: whether the host has the failure now
          at,      \* index of the check to evaluate, 0 between passes
          reading, \* what the probe found
          breach,  \* _breach_counts, saturated at Sustained
          active,  \* _active_alerts: "young" while its cooldown lasts
          posts,   \* per check: the notices under way, oldest first
          shown,   \* per check: the last notice that the channel got
          upset,   \* history variable: notices got lost, overtaken or forgotten
                   \* since the last one that was sent with no other under way
          faults   \* how many posts were lost and restarts there were

memory == <<breach, active>>
channel == <<posts, shown, upset>>
vars == <<class, bad, at, reading, memory, channel, faults>>

\* A service is "active" or not; panics are counted in a log; the age of the
\* last pull and the drift of the ipset may be unknown.
Classes == {"service", "count", "optional"}
Notices == {"fired", "resolved"}

Init ==
    /\ class \in [Checks -> Classes]
    /\ bad \in [Checks -> BOOLEAN]
    /\ at = 0 /\ reading = [k \in Checks |-> "none"]
    /\ breach = [k \in Checks |-> 0]
    /\ active = [k \in Checks |-> "no"]
    /\ posts = [k \in Checks |-> <<>>]
    /\ shown = [k \in Checks |-> "none"]
    /\ upset = [k \in Checks |-> FALSE]
    /\ faults = 0

Spend == faults < MaxFaults /\ faults' = faults + 1

\* The failure appears on the host or goes away.
Change(k) ==
    /\ bad' = [bad EXCEPT ![k] = ~@]
    /\ UNCHANGED <<class, at, reading, memory, channel, faults>>

-----------------------------------------------------------------------------
(* The probe.  run gives "" for a command that fails or takes 8 seconds, as*)
(* often as it likes: sudo may always refuse, the ipset may be gone.       *)

\* A fault: the empty output is passed on.
UnreadRaw(k) == ""

\* "" is not "active", holds no panics, and yields no age and no count.
Unread(k) == CASE class[k] = "service" -> "bad"
               [] class[k] = "count" -> "ok"
               [] class[k] = "optional" -> "none"

Read(k) == IF bad[k] THEN "bad" ELSE "ok"

Probe ==
    /\ at = 0
    /\ \A k \in Checks : Len(posts[k]) < MaxPosts[k]
    /\ \E failing \in SUBSET Checks :
          reading' = [k \in Checks |-> IF k \in failing THEN Unread(k) ELSE Read(k)]
    /\ at' = 1
    /\ UNCHANGED <<class, bad, memory, channel, faults>>

-----------------------------------------------------------------------------
(* _eval_binary, check by check.                                           *)

Key == CheckOrder[at]
Advance == at' = IF at < Len(CheckOrder) THEN at + 1 ELSE 0

Post(notice) ==
    /\ posts' = [posts EXCEPT ![Key] = Append(@, notice)]
    /\ upset' = [upset EXCEPT ![Key] = @ /\ posts[Key] # <<>>]
    /\ UNCHANGED shown

\* An age or a drift that is not known is not evaluated.
Skip ==
    /\ at # 0 /\ reading[Key] = "none"
    /\ Advance
    /\ UNCHANGED <<class, bad, reading, memory, channel, faults>>

\* A fault: the end of an alert is not announced.
FineSilently ==
    /\ at # 0 /\ reading[Key] = "ok"
    /\ Advance
    /\ breach' = [breach EXCEPT ![Key] = 0]
    /\ active' = [active EXCEPT ![Key] = "no"]
    /\ UNCHANGED <<class, bad, reading, channel, faults>>

Fine ==
    /\ at # 0 /\ reading[Key] = "ok"
    /\ Advance
    /\ breach' = [breach EXCEPT ![Key] = 0]
    /\ active' = [active EXCEPT ![Key] = "no"]
    /\ IF active[Key] = "no" THEN UNCHANGED channel ELSE Post("resolved")
    /\ UNCHANGED <<class, bad, reading, faults>>

Counted == IF breach[Key] < Sustained THEN breach[Key] + 1 ELSE breach[Key]

\* A fault: an alert is announced once.
QuietOnce == Counted < Sustained \/ active[Key] # "no"

Quiet == Counted < Sustained \/ active[Key] = "young"

Breaching ==
    /\ at # 0 /\ reading[Key] = "bad"
    /\ Advance
    /\ breach' = [breach EXCEPT ![Key] = Counted]
    /\ IF Quiet THEN UNCHANGED <<active, channel>>
                ELSE active' = [active EXCEPT ![Key] = "young"] /\ Post("fired")
    /\ UNCHANGED <<class, bad, reading, faults>>

Evaluate == Skip \/ Fine \/ Breaching

CooldownEnds(k) ==
    /\ active[k] = "young"
    /\ active' = [active EXCEPT ![k] = "old"]
    /\ UNCHANGED <<class, bad, at, reading, breach, channel, faults>>

-----------------------------------------------------------------------------
(* _post, in threads that may overtake each other.                         *)

Arrive(k) ==
    /\ \E i \in 1..Len(posts[k]) :
          /\ shown' = [shown EXCEPT ![k] = posts[k][i]]
          /\ posts' = [posts EXCEPT ![k] = RemoveAt(@, i)]
          /\ upset' = [upset EXCEPT ![k] = @ \/ i > 1]
    /\ UNCHANGED <<class, bad, at, reading, memory, faults>>

\* The webhook cannot be reached or refuses: nobody learns of it.
Lose(k) ==
    /\ Spend
    /\ \E i \in 1..Len(posts[k]) : posts' = [posts EXCEPT ![k] = RemoveAt(@, i)]
    /\ upset' = [upset EXCEPT ![k] = TRUE]
    /\ UNCHANGED <<class, bad, at, reading, memory, shown>>

\* The dashboard forgets its alerts, and its posts end with it.
Restart ==
    /\ Spend
    /\ at' = 0 /\ reading' = [k \in Checks |-> "none"]
    /\ breach' = [k \in Checks |-> 0]
    /\ active' = [k \in Checks |-> "no"]
    /\ posts' = [k \in Checks |-> <<>>]
    /\ upset' = [k \in Checks |-> upset[k] \/ active[k] # "no" \/ posts[k] # <<>>]
    /\ UNCHANGED <<class, bad, shown>>

Next == \/ Probe \/ Skip \/ Fine \/ Breaching \/ Restart
        \/ \E k \in Checks : Change(k) \/ CooldownEnds(k) \/ Arrive(k) \/ Lose(k)

\* The loop catches every exception of a pass, time goes by, and a post ends by
\* its timeout.  That probes get through is not assumed here.
Spec == /\ Init /\ [][Next]_vars
        /\ WF_vars(Evaluate)
        /\ \A k \in Checks : WF_vars(CooldownEnds(k)) /\ WF_vars(Arrive(k))
-----------------------------------------------------------------------------
\* The shape of the state.
TypeOK ==
    /\ class \in [Checks -> Classes] /\ bad \in [Checks -> BOOLEAN]
    /\ at \in 0..Len(CheckOrder)
    /\ reading \in [Checks -> {"ok", "bad", "none"}]
    /\ breach \in [Checks -> 0..Sustained]
    /\ active \in [Checks -> {"no", "young", "old"}]
    /\ posts \in [Checks -> Seq(Notices)]
    /\ \A k \in Checks : Len(posts[k]) <= MaxPosts[k]
    /\ shown \in [Checks -> Notices \cup {"none"}]
    /\ upset \in [Checks -> BOOLEAN]
    /\ faults \in 0..MaxFaults

\* With no post about it under way, the channel shows a check as failing just
\* while its alert is active, however often it failed and recovered; the one
\* excuse is that a notice was lost or overtaken, or the dashboard restarted,
\* since the last notice that went out alone (_eval_binary, _post).
ShownAgrees ==
    \A k \in Checks :
        posts[k] = <<>> /\ ~upset[k] => (shown[k] = "fired" <=> active[k] # "no")

\* A failure that lasts is seen in the end, after however many lost posts and
\* restarts, provided probes go on reading it: readings that are unknown in
\* between neither end nor delay its count for ever.  For panics every reading
\* must be of the log, since one that failed counts as none.  A command that
\* fails from some time on does hide its failure for good, and so would posts
\* that are always lost (_check_host, _eval_binary).
LastingFailureIsSeen ==
    \A k \in Checks :
        (/\ <>[]bad[k]
         /\ []<>(at # 0 /\ reading[k] = "bad")
         /\ <>[](class[k] = "count" /\ at # 0 => reading[k] = "bad"))
        => <>[](shown[k] = "fired")
=============================================================================
