------------------------ MODULE SecurityMonitorProofs ------------------------
(***************************************************************************)
(* What holds of the security monitor for any list of checks, any number   *)
(* of sustained readings and any bounds: the state keeps its shape, and    *)
(* the channel agrees with the alerts unless a notice went astray.         *)
(***************************************************************************)
EXTENDS SecurityMonitor, TLAPS

\* What the channel shows once the notices under way have arrived.
Coming(k) == IF posts[k] = <<>> THEN shown[k] ELSE posts[k][Len(posts[k])]

\* The last notice handed out says whether the alert is active.
ComingAgrees ==
    \A k \in Checks : ~upset[k] => (Coming(k) = "fired" <=> active[k] # "no")

\* There is room for a notice about each check that the pass has still to see.
RoomAhead ==
    at # 0 => \A i \in at..Len(CheckOrder) :
                 Len(posts[CheckOrder[i]]) < MaxPosts[CheckOrder[i]]

IInv == TypeOK /\ ComingAgrees /\ RoomAhead

-----------------------------------------------------------------------------
(* The list of checks and the posts.                                       *)

\* Each check has one place in the list.
LEMMA CheckFacts ==
    /\ Len(CheckOrder) \in Nat /\ Len(CheckOrder) > 0
    /\ \A i \in 1..Len(CheckOrder) : CheckOrder[i] \in Checks
    /\ \A i, j \in 1..Len(CheckOrder) : CheckOrder[i] = CheckOrder[j] => i = j
<1>1. Len(CheckOrder) \in Nat /\ DOMAIN CheckOrder = 1..Len(CheckOrder) /\ Len(CheckOrder) # 0
    BY SecurityAssumption
<1>2. \A i \in DOMAIN CheckOrder : CheckOrder[i] \in Checks
    BY DEF Checks, Range
<1>3. \A i, j \in DOMAIN CheckOrder : CheckOrder[i] = CheckOrder[j] => i = j
    BY SecurityAssumption DEF IsInjective
<1> QED
    BY <1>1, <1>2, <1>3

\* The check that is evaluated.
LEMMA KeyFacts ==
    ASSUME TypeOK, at # 0
    PROVE  Key \in Checks /\ at \in 1..Len(CheckOrder) /\ Key = CheckOrder[at]
BY CheckFacts DEF TypeOK, Key

\* A queue without one of its notices.
LEMMA Removed ==
    ASSUME NEW s \in Seq(Notices), NEW i \in 1..Len(s)
    PROVE  /\ RemoveAt(s, i) \in Seq(Notices)
           /\ Len(RemoveAt(s, i)) = Len(s) - 1
           /\ i = 1 /\ RemoveAt(s, i) = <<>> => s[i] = s[Len(s)]
           /\ i = 1 /\ RemoveAt(s, i) # <<>> =>
                 RemoveAt(s, i)[Len(RemoveAt(s, i))] = s[Len(s)]
<1>1. SubSeq(s, 1, i - 1) \in Seq(Notices) /\ SubSeq(s, i + 1, Len(s)) \in Seq(Notices)
    OBVIOUS
<1>2. Len(SubSeq(s, 1, i - 1)) = i - 1 /\ Len(SubSeq(s, i + 1, Len(s))) = Len(s) - i
    OBVIOUS
<1>3. RemoveAt(s, i) \in Seq(Notices) /\ Len(RemoveAt(s, i)) = Len(s) - 1
    <2> DEFINE before == SubSeq(s, 1, i - 1)
               after == SubSeq(s, i + 1, Len(s))
    <2>1. RemoveAt(s, i) = before \o after
        BY DEF RemoveAt
    <2>2. before \in Seq(Notices) /\ after \in Seq(Notices)
          /\ Len(before) = i - 1 /\ Len(after) = Len(s) - i
        BY <1>1, <1>2
    <2> HIDE DEF before, after
    <2>3. before \o after \in Seq(Notices) /\ Len(before \o after) = Len(before) + Len(after)
        BY <2>2
    <2> QED
        BY <2>1, <2>2, <2>3
<1>4. i = 1 /\ RemoveAt(s, i) = <<>> => s[i] = s[Len(s)]
    BY <1>3
<1>5. ASSUME i = 1, RemoveAt(s, i) # <<>>
      PROVE  RemoveAt(s, i)[Len(RemoveAt(s, i))] = s[Len(s)]
    <2>1. Len(s) > 1
        BY <1>3, <1>5
    <2>2. (SubSeq(s, 1, i - 1) \o SubSeq(s, i + 1, Len(s)))[Len(s) - 1]
             = SubSeq(s, i + 1, Len(s))[Len(s) - 1]
        BY <1>1, <1>2, <1>5, <2>1
    <2>3. SubSeq(s, i + 1, Len(s))[Len(s) - 1] = s[Len(s)]
        BY <1>5, <2>1
    <2> QED
        BY <1>3, <2>2, <2>3 DEF RemoveAt
<1> QED
    BY <1>3, <1>4, <1>5

-----------------------------------------------------------------------------
(* The steps.                                                              *)

\* The state has its shape at first, and the channel has shown nothing.
LEMMA IInvInit == Init => IInv
<1> SUFFICES ASSUME Init PROVE IInv
    OBVIOUS
<1>1. TypeOK
    BY SecurityAssumption, CheckFacts DEF Init, TypeOK
<1> QED
    BY <1>1 DEF Init, IInv, ComingAgrees, Coming, RoomAhead

\* A change of the host and the end of a cooldown.
LEMMA WorldKeeps ==
    ASSUME IInv, NEW k \in Checks, Change(k) \/ CooldownEnds(k)
    PROVE  IInv'
<1>1. CASE Change(k)
    BY <1>1 DEF Change, IInv, TypeOK, ComingAgrees, Coming, RoomAhead, memory, channel
<1>2. CASE CooldownEnds(k)
    BY <1>2 DEF CooldownEnds, IInv, TypeOK, ComingAgrees, Coming, RoomAhead, channel
<1> QED
    BY <1>1, <1>2

\* A probe begins a pass only where there is room.
LEMMA ProbeKeeps ==
    ASSUME IInv, Probe
    PROVE  IInv'
<1>1. PICK failing \in SUBSET Checks :
          reading' = [k \in Checks |-> IF k \in failing THEN Unread(k) ELSE Read(k)]
    BY DEF Probe
<1>2. \A k \in Checks : Unread(k) \in {"ok", "bad", "none"} /\ Read(k) \in {"ok", "bad"}
    BY DEF Unread, Read, IInv, TypeOK, Classes
<1>3. reading' \in [Checks -> {"ok", "bad", "none"}]
    BY <1>1, <1>2
<1>4. TypeOK'
    BY <1>3, CheckFacts DEF Probe, IInv, TypeOK, memory, channel
<1>5. RoomAhead'
    BY CheckFacts DEF Probe, RoomAhead, channel
<1> QED
    BY <1>4, <1>5 DEF Probe, IInv, ComingAgrees, Coming, memory, channel

\* Where the pass goes on to.
LEMMA AdvanceTypes ==
    ASSUME IInv, at # 0, Advance
    PROVE  at' \in 0..Len(CheckOrder) /\ at' \in {0, at + 1}
BY CheckFacts DEF Advance, IInv, TypeOK

\* A notice about the check that is evaluated.
LEMMA PostKeeps ==
    ASSUME IInv, at # 0, NEW notice \in Notices, Post(notice), Advance,
           UNCHANGED <<class, bad, reading, faults>>,
           breach' \in [Checks -> 0..Sustained],
           active' \in [Checks -> {"no", "young", "old"}],
           notice = "fired" <=> active'[Key] # "no",
           \A k \in Checks \ {Key} : active'[k] = active[k]
    PROVE  IInv'
<1>1. Key \in Checks /\ at \in 1..Len(CheckOrder) /\ Key = CheckOrder[at]
    BY KeyFacts DEF IInv
<1>2. posts[Key] \in Seq(Notices) /\ MaxPosts[Key] \in Nat /\ Len(posts[Key]) < MaxPosts[Key]
    BY <1>1, CheckFacts, SecurityAssumption DEF IInv, TypeOK, RoomAhead
<1> DEFINE queue == Append(posts[Key], notice)
<1>3. /\ queue \in Seq(Notices) /\ queue # <<>> /\ Len(queue) = Len(posts[Key]) + 1
      /\ queue[Len(queue)] = notice
    BY <1>2
<1>4. posts' = [posts EXCEPT ![Key] = queue]
    BY DEF Post
<1> HIDE DEF queue
<1>5. TypeOK'
    <2>1. posts' \in [Checks -> Seq(Notices)]
        BY <1>1, <1>3, <1>4 DEF IInv, TypeOK
    <2>2. \A k \in Checks : Len(posts'[k]) <= MaxPosts[k]
        BY <1>1, <1>2, <1>3, <1>4 DEF IInv, TypeOK
    <2>3. upset' \in [Checks -> BOOLEAN]
        BY <1>1 DEF Post, IInv, TypeOK
    <2> QED
        BY <2>1, <2>2, <2>3, AdvanceTypes DEF Post, IInv, TypeOK
<1>6. RoomAhead'
    <2> SUFFICES ASSUME at' # 0, NEW i \in at'..Len(CheckOrder)
                 PROVE  Len(posts'[CheckOrder[i]]) < MaxPosts[CheckOrder[i]]
        BY DEF RoomAhead
    <2>1. i \in at..Len(CheckOrder) /\ i # at /\ i \in 1..Len(CheckOrder)
        BY <1>1, AdvanceTypes
    <2>2. CheckOrder[i] # Key /\ CheckOrder[i] \in Checks
        BY <1>1, <2>1, CheckFacts
    <2> QED
        BY <1>1, <1>4, <2>1, <2>2 DEF IInv, TypeOK, RoomAhead
<1>7. ComingAgrees'
    <2> SUFFICES ASSUME NEW k \in Checks, ~upset'[k]
                 PROVE  Coming(k)' = "fired" <=> active'[k] # "no"
        BY DEF ComingAgrees
    <2>1. CASE k = Key
        BY <1>1, <1>3, <1>4, <2>1 DEF Coming, IInv, TypeOK
    <2>2. CASE k # Key
        <3>1. ~upset[k] /\ posts'[k] = posts[k] /\ shown'[k] = shown[k]
            BY <1>1, <1>4, <2>2 DEF Post, IInv, TypeOK
        <3> QED
            BY <2>2, <3>1 DEF Coming, IInv, ComingAgrees
    <2> QED
        BY <2>1, <2>2
<1> QED
    BY <1>5, <1>6, <1>7 DEF IInv

\* An evaluation that posts nothing leaves it open or closed as it was.
LEMMA QuietKeeps ==
    ASSUME IInv, at # 0, Advance, UNCHANGED <<class, bad, reading, faults, active, channel>>,
           breach' \in [Checks -> 0..Sustained]
    PROVE  IInv'
<1>1. TypeOK'
    BY AdvanceTypes DEF IInv, TypeOK, channel
<1>2. RoomAhead'
    BY AdvanceTypes, CheckFacts DEF IInv, TypeOK, RoomAhead, channel
<1> QED
    BY <1>1, <1>2 DEF IInv, ComingAgrees, Coming, channel

\* An evaluation keeps the invariant.
LEMMA EvaluateKeeps ==
    ASSUME IInv, Evaluate
    PROVE  IInv'
<1>0. at # 0 /\ Advance
    BY DEF Evaluate, Skip, Fine, Breaching
<1>1. Key \in Checks
    BY <1>0, KeyFacts DEF IInv
<1>2. Sustained \in Nat /\ Sustained > 0
    BY SecurityAssumption
<1>3. CASE Skip
    BY <1>0, <1>3, QuietKeeps DEF Skip, memory, IInv, TypeOK
<1>4. CASE Fine
    <2>1. breach' \in [Checks -> 0..Sustained]
        BY <1>1, <1>2, <1>4 DEF Fine, IInv, TypeOK
    <2>2. /\ active' \in [Checks -> {"no", "young", "old"}]
          /\ active'[Key] = "no" /\ \A k \in Checks \ {Key} : active'[k] = active[k]
        BY <1>1, <1>4 DEF Fine, IInv, TypeOK
    <2>3. CASE active[Key] = "no"
        <3>1. active' = active
            BY <1>4, <2>3 DEF Fine, IInv, TypeOK
        <3> QED
            BY <1>0, <1>4, <2>1, <2>3, <3>1, QuietKeeps DEF Fine
    <2>4. CASE active[Key] # "no"
        BY <1>0, <1>4, <2>1, <2>2, <2>4, PostKeeps DEF Fine, Notices
    <2> QED
        BY <2>3, <2>4
<1>5. CASE Breaching
    <2>1. breach' \in [Checks -> 0..Sustained]
        BY <1>1, <1>2, <1>5 DEF Breaching, Counted, IInv, TypeOK
    <2>2. CASE Quiet
        BY <1>0, <1>5, <2>1, <2>2, QuietKeeps DEF Breaching
    <2>3. CASE ~Quiet
        <3>1. /\ active' \in [Checks -> {"no", "young", "old"}]
              /\ active'[Key] = "young" /\ \A k \in Checks \ {Key} : active'[k] = active[k]
            BY <1>1, <1>5, <2>3 DEF Breaching, IInv, TypeOK
        <3> QED
            BY <1>0, <1>5, <2>1, <2>3, <3>1, PostKeeps DEF Breaching, Notices
    <2> QED
        BY <2>2, <2>3
<1> QED
    BY <1>3, <1>4, <1>5 DEF Evaluate

\* A notice leaves the queue: it arrives, or is lost.
LEMMA LeaveKeeps ==
    ASSUME IInv, NEW k \in Checks, Arrive(k) \/ Lose(k)
    PROVE  IInv'
<1>1. PICK i \in 1..Len(posts[k]) : posts' = [posts EXCEPT ![k] = RemoveAt(posts[k], i)]
                                    /\ (Arrive(k) => shown' = [shown EXCEPT ![k] = posts[k][i]]
                                                  /\ upset' = [upset EXCEPT ![k] = @ \/ i > 1])
    BY DEF Arrive, Lose
<1>2. posts[k] \in Seq(Notices) /\ Len(posts[k]) \in Nat /\ posts[k][i] \in Notices
    BY DEF IInv, TypeOK
<1> DEFINE rest == RemoveAt(posts[k], i)
<1>3. /\ rest \in Seq(Notices) /\ Len(rest) = Len(posts[k]) - 1
      /\ i = 1 /\ rest = <<>> => posts[k][i] = posts[k][Len(posts[k])]
      /\ i = 1 /\ rest # <<>> => rest[Len(rest)] = posts[k][Len(posts[k])]
    BY <1>2, Removed
<1>4. posts' = [posts EXCEPT ![k] = rest]
    BY <1>1
<1>5. posts[k] # <<>>
    BY <1>2
<1> HIDE DEF rest
<1>6. /\ posts' \in [Checks -> Seq(Notices)]
      /\ \A c \in Checks : Len(posts'[c]) <= Len(posts[c]) /\ Len(posts[c]) \in Nat
                           /\ Len(posts'[c]) \in Nat
    BY <1>2, <1>3, <1>4 DEF IInv, TypeOK
<1>7. RoomAhead'
    <2>1. at' = at
        BY DEF Arrive, Lose
    <2>2. ASSUME NEW j \in 1..Len(CheckOrder), at # 0, j >= at
          PROVE  Len(posts'[CheckOrder[j]]) < MaxPosts[CheckOrder[j]]
        <3>1. CheckOrder[j] \in Checks /\ MaxPosts[CheckOrder[j]] \in Nat
            BY CheckFacts, SecurityAssumption
        <3>2. Len(posts[CheckOrder[j]]) < MaxPosts[CheckOrder[j]]
            BY <2>2 DEF IInv, RoomAhead
        <3> QED
            BY <1>6, <3>1, <3>2
    <2>3. at \in Nat
        BY CheckFacts DEF IInv, TypeOK
    <2> QED
        BY <2>1, <2>2, <2>3, CheckFacts DEF RoomAhead
<1>8. \A c \in Checks : Len(posts'[c]) <= MaxPosts[c]
    BY <1>6, SecurityAssumption DEF IInv, TypeOK
<1>9. CASE Arrive(k)
    <2>1. TypeOK'
        BY <1>1, <1>2, <1>6, <1>8, <1>9 DEF Arrive, IInv, TypeOK, memory
    <2>2. ASSUME NEW c \in Checks, ~upset'[c]
          PROVE  Coming(c)' = "fired" <=> active'[c] # "no"
        <3>1. CASE c = k
            <4>1. i = 1 /\ ~upset[k]
                <5>1. upset' = [upset EXCEPT ![k] = @ \/ i > 1]
                    BY <1>1, <1>9
                <5>2. upset \in [Checks -> BOOLEAN]
                    BY DEF IInv, TypeOK
                <5>3. upset'[k] = (upset[k] \/ i > 1)
                    BY <5>1, <5>2
                <5>4. ~upset[k] /\ ~(i > 1)
                    BY <2>2, <3>1, <5>3, Zenon
                <5> QED
                    BY <5>4
            <4>2. Coming(k)' = Coming(k)
                BY <1>1, <1>3, <1>4, <1>5, <1>9, <4>1 DEF Coming, IInv, TypeOK
            <4> QED
                BY <1>9, <3>1, <4>1, <4>2 DEF Arrive, IInv, ComingAgrees, memory
        <3>2. CASE c # k
            BY <1>1, <1>4, <1>9, <2>2, <3>2 DEF Arrive, IInv, TypeOK, ComingAgrees, Coming, memory
        <3> QED
            BY <3>1, <3>2
    <2> QED
        BY <1>7, <2>1, <2>2 DEF IInv, ComingAgrees
<1>10. CASE Lose(k)
    <2>1. upset' \in [Checks -> BOOLEAN] /\ upset'[k] = TRUE
          /\ \A c \in Checks \ {k} : upset'[c] = upset[c]
        BY <1>10 DEF Lose, IInv, TypeOK
    <2>2. faults' \in 0..MaxFaults
        BY <1>10, SecurityAssumption DEF Lose, Spend, IInv, TypeOK
    <2>3. TypeOK'
        BY <1>6, <1>8, <1>10, <2>1, <2>2 DEF Lose, IInv, TypeOK, memory
    <2>4. ComingAgrees'
        BY <1>4, <1>10, <2>1 DEF Lose, IInv, TypeOK, ComingAgrees, Coming, memory
    <2> QED
        BY <1>7, <2>3, <2>4 DEF IInv
<1> QED
    BY <1>9, <1>10

\* A restart keeps the invariant: an alert that is forgotten excuses the channel.
LEMMA RestartKeeps ==
    ASSUME IInv, Restart
    PROVE  IInv'
<1>1. faults' \in 0..MaxFaults
    BY SecurityAssumption DEF Restart, Spend, IInv, TypeOK
<1>2. \A k \in Checks : <<>> \in Seq(Notices) /\ Len(<<>>) <= MaxPosts[k]
    BY SecurityAssumption
<1>3. TypeOK'
    BY <1>1, <1>2, CheckFacts, SecurityAssumption DEF Restart, IInv, TypeOK
<1>4. ComingAgrees'
    BY DEF Restart, IInv, TypeOK, ComingAgrees, Coming
<1> QED
    BY <1>3, <1>4 DEF Restart, IInv, RoomAhead

\* Every step keeps the invariant.
LEMMA IInvStep == IInv /\ [Next]_vars => IInv'
<1> SUFFICES ASSUME IInv, [Next]_vars PROVE IInv'
    OBVIOUS
<1>1. CASE UNCHANGED vars
    BY <1>1 DEF vars, memory, channel, IInv, TypeOK, ComingAgrees, Coming, RoomAhead
<1>2. CASE Next
    BY <1>2, WorldKeeps, ProbeKeeps, EvaluateKeeps, LeaveKeeps, RestartKeeps
       DEF Next, Evaluate
<1> QED
    BY <1>1, <1>2

-----------------------------------------------------------------------------
\* The state keeps its shape, for any checks and bounds.
THEOREM MonitorTypes == Spec => []TypeOK
<1>1. IInv => TypeOK
    BY DEF IInv
<1> QED
    BY <1>1, IInvInit, IInvStep, PTL DEF Spec

\* With no post under way the channel agrees with the alerts, unless a notice was
\* lost, overtaken or forgotten (_eval_binary, _post).
THEOREM ChannelAgrees == Spec => []ShownAgrees
<1>1. IInv => ShownAgrees
    BY DEF IInv, ComingAgrees, Coming, ShownAgrees
<1> QED
    BY <1>1, IInvInit, IInvStep, PTL DEF Spec
=============================================================================
