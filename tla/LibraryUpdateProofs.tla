------------------------ MODULE LibraryUpdateProofs ------------------------
(***************************************************************************)
(* Proofs about LibraryUpdate for every set of instances, every list of    *)
(* libraries and every cap on reruns.                                      *)
(***************************************************************************)
EXTENDS LibraryUpdate, TLAPS

\* The strengthening: an instance outside a sweep is at the first library, so
\* that the pass it is in or comes to begins with all of them.
AtFirst == \A h \in Hooks : pc[h] # "sweep" => sweep[h] = 1

\* An instance that was allowed to rerun is below the cap.
BelowCap == \A h \in Hooks : pc[h] \in {"remove", "unlock"} => rerun[h] < MaxReruns

IInv == TypeOK /\ OneSweeper /\ AtFirst /\ BelowCap /\ NothingForgotten

LEMMA SweepFacts ==
    /\ Len(Sweeps) \in Nat /\ 1 \in 1..Len(Sweeps)
    /\ \A i \in 1..Len(Sweeps) : Sweeps[i] \in Libraries
    /\ \A l \in Libraries : \E i \in 1..Len(Sweeps) : Sweeps[i] = l
    /\ MaxReruns \in Nat /\ Nobody \notin Hooks
<1>1. Len(Sweeps) \in Nat /\ DOMAIN Sweeps = 1..Len(Sweeps) /\ Len(Sweeps) # 0
  BY LibraryAssumption
<1>2. \A l \in Libraries : \E i \in DOMAIN Sweeps : Sweeps[i] = l
  BY DEF Libraries, Range
<1>3. \A i \in DOMAIN Sweeps : Sweeps[i] \in Libraries
  BY DEF Libraries, Range
<1> QED
  BY <1>1, <1>2, <1>3, LibraryAssumption

LEMMA InitIInv == Init => IInv
<1> SUFFICES ASSUME Init PROVE IInv
  OBVIOUS
<1>1. TypeOK
  <2>1. pc \in [Hooks -> {"none", "lock", "touch"} \cup Locked]
    BY DEF Init
  <2>2. sweep \in [Hooks -> 1..Len(Sweeps)] /\ rerun \in [Hooks -> 0..MaxReruns]
    BY SweepFacts DEF Init
  <2>3. errors \in [Hooks -> SUBSET (Libraries \cup {Scan})]
    BY DEF Init
  <2> QED
    BY <2>1, <2>2, <2>3 DEF Init, TypeOK
<1>2. OneSweeper /\ AtFirst /\ BelowCap
  BY DEF Init, OneSweeper, AtFirst, BelowCap, Locked
<1>3. NothingForgotten
  BY DEF Init, NothingForgotten
<1> QED
  BY <1>1, <1>2, <1>3 DEF IInv

\* Every step keeps the types.
LEMMA TypeStep == IInv /\ [Next]_vars => TypeOK'
<1> SUFFICES ASSUME IInv, [Next]_vars PROVE TypeOK'
  OBVIOUS
<1> USE SweepFacts DEF IInv, TypeOK, Goto, Locked
<1>1. CASE UNCHANGED vars
  BY <1>1 DEF vars
<1>2. ASSUME NEW h \in Hooks, NEW l \in Libraries, Change(h, l) PROVE TypeOK'
  BY <1>2 DEF Change
<1>3. ASSUME NEW h \in Hooks, TryLock(h) PROVE TypeOK'
  BY <1>3 DEF TryLock
<1>4. ASSUME NEW h \in Hooks, Touch(h) PROVE TypeOK'
  BY <1>4 DEF Touch
<1>5. ASSUME NEW h \in Hooks, Clear(h) PROVE TypeOK'
  BY <1>5 DEF Clear
<1>6. ASSUME NEW h \in Hooks, CheckMount(h) PROVE TypeOK'
  BY <1>6 DEF CheckMount
<1>7. ASSUME NEW h \in Hooks, Sweep(h) PROVE TypeOK'
  <2>1. sweep[h] \in 1..Len(Sweeps) /\ Sweeps[sweep[h]] \in Libraries
    OBVIOUS
  <2>2. errors' \in {errors, [errors EXCEPT ![h] = @ \cup {Sweeps[sweep[h]]}]}
    BY <1>7 DEF Sweep
  <2>3. errors[h] \cup {Sweeps[sweep[h]]} \in SUBSET (Libraries \cup {Scan})
    BY <2>1
  <2>4. errors' \in [Hooks -> SUBSET (Libraries \cup {Scan})]
    BY <2>2, <2>3
  <2>5. sweep' \in [Hooks -> 1..Len(Sweeps)]
    <3>1. CASE sweep[h] < Len(Sweeps)
      <4>1. sweep' = [sweep EXCEPT ![h] = @ + 1]
        BY <1>7, <3>1 DEF Sweep
      <4>2. sweep[h] + 1 \in 1..Len(Sweeps)
        BY <2>1, <3>1
      <4> QED
        BY <4>1, <4>2
    <3>2. CASE ~(sweep[h] < Len(Sweeps))
      <4>1. sweep' = [sweep EXCEPT ![h] = 1]
        BY <1>7, <3>2 DEF Sweep
      <4> QED
        BY <4>1
    <3> QED
      BY <3>1, <3>2
  <2>6. pc' \in {pc, [pc EXCEPT ![h] = "scan"]}
    BY <1>7 DEF Sweep
  <2>7. pc' \in [Hooks -> {"none", "lock", "touch"} \cup Locked]
    BY <2>6
  <2>8. /\ unseen' \subseteq Libraries /\ told' \subseteq Libraries
        /\ unposted' \subseteq Libraries
        /\ UNCHANGED <<rerun, lock, pending>>
    BY <1>7 DEF Sweep
  <2> QED
    BY <2>4, <2>5, <2>7, <2>8
<1>8. ASSUME NEW h \in Hooks, TriggerScans(h) PROVE TypeOK'
  BY <1>8 DEF TriggerScans
<1>9. ASSUME NEW h \in Hooks, CheckPending(h) PROVE TypeOK'
  BY <1>9 DEF CheckPending
<1>10. ASSUME NEW h \in Hooks, RemovePending(h) PROVE TypeOK'
  BY <1>10 DEF RemovePending
<1>11. ASSUME NEW h \in Hooks, Rerun(h) PROVE TypeOK'
  <2>1. rerun[h] + 1 \in 0..MaxReruns
    BY <1>11 DEF Rerun, BelowCap
  <2>2. /\ rerun' = [rerun EXCEPT ![h] = @ + 1]
        /\ errors' = [errors EXCEPT ![h] = {}]
        /\ pc' = [pc EXCEPT ![h] = "lock"]
        /\ lock' = Nobody /\ UNCHANGED <<sweep, pending, unseen, told, unposted>>
    BY <1>11 DEF Rerun
  <2> QED
    BY <2>1, <2>2
<1>12. ASSUME NEW h \in Hooks, Exit(h) PROVE TypeOK'
  BY <1>12 DEF Exit, PostFailure
<1> QED
  BY <1>1, <1>2, <1>3, <1>4, <1>5, <1>6, <1>7, <1>8, <1>9, <1>10, <1>11, <1>12
     DEF Next, Step, OwnStep

\* The lock protects everything behind line 46.
LEMMA LockStep == IInv /\ [Next]_vars => OneSweeper'
<1> SUFFICES ASSUME IInv, [Next]_vars PROVE OneSweeper'
  OBVIOUS
<1> USE SweepFacts DEF IInv, TypeOK, Goto, OneSweeper, Locked
<1>1. CASE UNCHANGED vars
  BY <1>1 DEF vars
<1>2. ASSUME NEW h \in Hooks, NEW l \in Libraries, Change(h, l) PROVE OneSweeper'
  BY <1>2 DEF Change
<1>3. ASSUME NEW h \in Hooks, TryLock(h) PROVE OneSweeper'
  BY <1>3 DEF TryLock
<1>4. ASSUME NEW h \in Hooks, Touch(h) PROVE OneSweeper'
  BY <1>4 DEF Touch
<1>5. ASSUME NEW h \in Hooks, Clear(h) PROVE OneSweeper'
  BY <1>5 DEF Clear
<1>6. ASSUME NEW h \in Hooks, CheckMount(h) PROVE OneSweeper'
  BY <1>6 DEF CheckMount
<1>7. ASSUME NEW h \in Hooks, Sweep(h) PROVE OneSweeper'
  BY <1>7 DEF Sweep
<1>8. ASSUME NEW h \in Hooks, TriggerScans(h) PROVE OneSweeper'
  BY <1>8 DEF TriggerScans
<1>9. ASSUME NEW h \in Hooks, CheckPending(h) PROVE OneSweeper'
  BY <1>9 DEF CheckPending
<1>10. ASSUME NEW h \in Hooks, RemovePending(h) PROVE OneSweeper'
  BY <1>10 DEF RemovePending
<1>11. ASSUME NEW h \in Hooks, Rerun(h) PROVE OneSweeper'
  BY <1>11 DEF Rerun
<1>12. ASSUME NEW h \in Hooks, Exit(h) PROVE OneSweeper'
  BY <1>12 DEF Exit, PostFailure
<1> QED
  BY <1>1, <1>2, <1>3, <1>4, <1>5, <1>6, <1>7, <1>8, <1>9, <1>10, <1>11, <1>12
     DEF Next, Step, OwnStep

\* Passes begin with the first library, and a rerun was below the cap.
LEMMA FirstStep == IInv /\ [Next]_vars => (AtFirst /\ BelowCap)'
<1> SUFFICES ASSUME IInv, [Next]_vars PROVE (AtFirst /\ BelowCap)'
  OBVIOUS
<1> USE SweepFacts DEF IInv, TypeOK, Goto, AtFirst, BelowCap, MayRerun
<1>1. CASE UNCHANGED vars
  BY <1>1 DEF vars
<1>2. ASSUME NEW h \in Hooks, NEW l \in Libraries, Change(h, l) PROVE (AtFirst /\ BelowCap)'
  BY <1>2 DEF Change
<1>3. ASSUME NEW h \in Hooks, TryLock(h) PROVE (AtFirst /\ BelowCap)'
  BY <1>3 DEF TryLock
<1>4. ASSUME NEW h \in Hooks, Touch(h) PROVE (AtFirst /\ BelowCap)'
  BY <1>4 DEF Touch
<1>5. ASSUME NEW h \in Hooks, Clear(h) PROVE (AtFirst /\ BelowCap)'
  BY <1>5 DEF Clear
<1>6. ASSUME NEW h \in Hooks, CheckMount(h) PROVE (AtFirst /\ BelowCap)'
  BY <1>6 DEF CheckMount
<1>7. ASSUME NEW h \in Hooks, Sweep(h) PROVE (AtFirst /\ BelowCap)'
  BY <1>7 DEF Sweep
<1>8. ASSUME NEW h \in Hooks, TriggerScans(h) PROVE (AtFirst /\ BelowCap)'
  BY <1>8 DEF TriggerScans
<1>9. ASSUME NEW h \in Hooks, CheckPending(h) PROVE (AtFirst /\ BelowCap)'
  BY <1>9 DEF CheckPending
<1>10. ASSUME NEW h \in Hooks, RemovePending(h) PROVE (AtFirst /\ BelowCap)'
  BY <1>10 DEF RemovePending
<1>11. ASSUME NEW h \in Hooks, Rerun(h) PROVE (AtFirst /\ BelowCap)'
  BY <1>11 DEF Rerun
<1>12. ASSUME NEW h \in Hooks, Exit(h) PROVE (AtFirst /\ BelowCap)'
  BY <1>12 DEF Exit, PostFailure
<1> QED
  BY <1>1, <1>2, <1>3, <1>4, <1>5, <1>6, <1>7, <1>8, <1>9, <1>10, <1>11, <1>12
     DEF Next, Step, OwnStep

\* No step forgets a change.
LEMMA ForgottenStep == IInv /\ [Next]_vars => NothingForgotten'
<1> SUFFICES ASSUME IInv, [Next]_vars PROVE NothingForgotten'
  OBVIOUS
<1> USE SweepFacts DEF IInv, TypeOK, Goto, NothingForgotten, WillSweep, AtFirst
<1>1. CASE UNCHANGED vars
  BY <1>1 DEF vars
<1>2. ASSUME NEW h \in Hooks, NEW l \in Libraries, Change(h, l) PROVE NothingForgotten'
  BY <1>2 DEF Change
<1>3. ASSUME NEW h \in Hooks, TryLock(h) PROVE NothingForgotten'
  BY <1>3 DEF TryLock
<1>4. ASSUME NEW h \in Hooks, Touch(h) PROVE NothingForgotten'
  BY <1>4 DEF Touch
<1>5. ASSUME NEW h \in Hooks, Clear(h) PROVE NothingForgotten'
  BY <1>5 DEF Clear
<1>6. ASSUME NEW h \in Hooks, CheckMount(h) PROVE NothingForgotten'
  BY <1>6 DEF CheckMount
<1>7. ASSUME NEW h \in Hooks, Sweep(h) PROVE NothingForgotten'
  <2> SUFFICES ASSUME NEW m \in unseen'
               PROVE  \/ pending' \/ m \in told' \/ m \in unposted'
                      \/ \E g \in Hooks : WillSweep(g, m)' \/ m \in errors'[g]
    BY DEF NothingForgotten
  <2>1. /\ m \in unseen /\ (m \in told => m \in told')
        /\ m \in unposted => m \in unposted'
        /\ pending' = pending
        /\ m = Sweeps[sweep[h]] => m \in errors'[h]
        /\ errors[h] \subseteq errors'[h]
    BY <1>7 DEF Sweep
  <2>2. \A g \in Hooks \ {h} : /\ pc'[g] = pc[g] /\ sweep'[g] = sweep[g]
                              /\ errors'[g] = errors[g]
    BY <1>7 DEF Sweep
  <2>3. CASE pending \/ m \in told \/ m \in unposted
    BY <2>1, <2>3
  <2>4. ASSUME NEW g \in Hooks, WillSweep(g, m) \/ m \in errors[g], g # h
        PROVE  WillSweep(g, m)' \/ m \in errors'[g]
    BY <2>2, <2>4
  <2>5. CASE m \in errors[h]
    BY <2>1, <2>5
  <2>6. CASE WillSweep(h, m)
    <3>1. PICK i \in sweep[h]..Len(Sweeps) : Sweeps[i] = m
      BY <1>7, <2>6 DEF Sweep
    <3>2. CASE i = sweep[h]
      BY <2>1, <3>1, <3>2
    <3>3. CASE i # sweep[h]
      <4>1. sweep[h] \in Int /\ Len(Sweeps) \in Int
        OBVIOUS
      <4>2. sweep[h] < Len(Sweeps) /\ i \in (sweep[h] + 1)..Len(Sweeps)
        BY <3>3, <4>1
      <4>3. sweep'[h] = sweep[h] + 1 /\ pc'[h] = "sweep"
        BY <1>7, <4>2 DEF Sweep
      <4>4. WillSweep(h, m)'
        BY <3>1, <4>2, <4>3
      <4> QED
        BY <4>4
    <3> QED
      BY <3>2, <3>3
  <2> QED
    BY <2>1, <2>3, <2>4, <2>5, <2>6
<1>8. ASSUME NEW h \in Hooks, TriggerScans(h) PROVE NothingForgotten'
  BY <1>8 DEF TriggerScans
<1>9. ASSUME NEW h \in Hooks, CheckPending(h) PROVE NothingForgotten'
  BY <1>9 DEF CheckPending
<1>10. ASSUME NEW h \in Hooks, RemovePending(h) PROVE NothingForgotten'
  BY <1>10 DEF RemovePending
<1>11. ASSUME NEW h \in Hooks, Rerun(h) PROVE NothingForgotten'
  BY <1>11 DEF Rerun
<1>12. ASSUME NEW h \in Hooks, Exit(h) PROVE NothingForgotten'
  BY <1>12 DEF Exit, PostFailure
<1> QED
  BY <1>1, <1>2, <1>3, <1>4, <1>5, <1>6, <1>7, <1>8, <1>9, <1>10, <1>11, <1>12
     DEF Next, Step, OwnStep

LEMMA Inductive == IInv /\ [Next]_vars => IInv'
  BY TypeStep, LockStep, FirstStep, ForgottenStep DEF IInv

\* For every number of instances and libraries: the types hold, at most one
\* instance is behind the lock, and a change that no sweep began after has an
\* instance on its way to it, a mark, an error still listed, a post, or a post
\* that an EXIT trap tried in vain.
THEOREM UpdateInvariant == Spec => [](TypeOK /\ OneSweeper /\ NothingForgotten)
<1>1. IInv => TypeOK /\ OneSweeper /\ NothingForgotten
  BY DEF IInv
<1> QED
  BY InitIInv, Inductive, <1>1, PTL DEF Spec

\* For every number of instances, libraries and reruns the variables keep their
\* shape; no instance runs again more often than the cap allows (MAX_RERUNS).
THEOREM UpdateTypes == Spec => []TypeOK
BY UpdateInvariant, PTL

\* However many instances zurg starts, at most one is past the lock and sweeps
\* (LOCK_FILE and the execution of itself with the lock released before).
THEOREM SweepersAreAlone == Spec => []OneSweeper
BY UpdateInvariant, PTL

-----------------------------------------------------------------------------
(* What EveryHookEnds rests on, besides fairness: an instance has only so   *)
(* many commands before it, whatever the others do.                        *)

\* The commands of a pass from the lock to the exec.
PassLength == 7 + Len(Sweeps)

\* The most commands an instance has before it in the pass it is in.
LeftInPass(h) ==
    CASE pc[h] = "none"   -> 0
      [] pc[h] = "touch"  -> 1
      [] pc[h] = "exit"   -> 1
      [] pc[h] = "unlock" -> 1
      [] pc[h] = "remove" -> 2
      [] pc[h] = "check"  -> 3
      [] pc[h] = "scan"   -> 4
      [] pc[h] = "sweep"  -> 5 + Len(Sweeps) - sweep[h]
      [] pc[h] = "mount"  -> 5 + Len(Sweeps)
      [] pc[h] = "clear"  -> 6 + Len(Sweeps)
      [] pc[h] = "lock"   -> PassLength

CommandsLeft(h) ==
    IF pc[h] = "none" THEN 0
    ELSE (MaxReruns - rerun[h]) * PassLength + LeftInPass(h)

\* What a running instance still has to do is a number within one bound.
HooksAreBounded ==
    \A h \in Hooks : /\ CommandsLeft(h) \in 0..(MaxReruns + 1) * PassLength
                     /\ pc[h] = "none" <=> CommandsLeft(h) = 0

\* Each of its steps makes it less; the steps of others leave it alone.
HooksRunDown ==
    \A h \in Hooks : pc[h] # "none" =>
        IF Step(h) THEN CommandsLeft(h)' < CommandsLeft(h)
        ELSE CommandsLeft(h)' = CommandsLeft(h)

\* Products, for the provers: reruns that are left cost a pass each.
LEMMA Products ==
    ASSUME NEW W \in Nat, NEW M \in Nat, NEW r \in 0..M
    PROVE  /\ (M - r) * W \in Nat /\ (M - r) * W <= M * W
           /\ (M + 1) * W = M * W + W
           /\ r < M => (M - (r + 1)) * W + W = (M - r) * W
<1>1. M - r \in Nat /\ M \in Nat /\ M - r <= M
  OBVIOUS
<1>2. (M - r) * W \in Nat /\ M * W \in Nat
  BY <1>1
<1>3. (M - r) * W + r * W = M * W /\ r * W \in Nat
  OBVIOUS
<1>4. (M + 1) * W = M * W + W
  OBVIOUS
<1>5. ASSUME r < M PROVE (M - (r + 1)) * W + W = (M - r) * W
  OBVIOUS
<1> QED
  BY <1>2, <1>3, <1>4, <1>5

LEMMA Bounded == IInv => HooksAreBounded
<1> SUFFICES ASSUME IInv, NEW h \in Hooks
             PROVE  /\ CommandsLeft(h) \in 0..(MaxReruns + 1) * PassLength
                    /\ pc[h] = "none" <=> CommandsLeft(h) = 0
  BY DEF HooksAreBounded
<1> DEFINE P == (MaxReruns - rerun[h]) * PassLength
<1>1. PassLength \in Nat /\ Len(Sweeps) \in Nat
  BY SweepFacts DEF PassLength
<1>2. /\ P \in Nat /\ P <= MaxReruns * PassLength
      /\ (MaxReruns + 1) * PassLength = MaxReruns * PassLength + PassLength
  BY <1>1, SweepFacts, Products DEF IInv, TypeOK
<1>3. MaxReruns * PassLength \in Nat
  BY <1>1, SweepFacts
<1>4. /\ pc[h] \in {"none", "lock", "touch"} \cup Locked
      /\ sweep[h] \in 1..Len(Sweeps)
  BY DEF IInv, TypeOK
<1>5. /\ pc[h] # "none" => LeftInPass(h) \in 1..PassLength
      /\ pc[h] = "none" => CommandsLeft(h) = 0
      /\ pc[h] # "none" => CommandsLeft(h) = P + LeftInPass(h)
  <2>1. pc[h] # "none" => LeftInPass(h) \in 1..PassLength
    <3>1. CASE pc[h] = "sweep"
      <4>1. LeftInPass(h) = 5 + Len(Sweeps) - sweep[h] /\ PassLength = 7 + Len(Sweeps)
        BY <3>1 DEF LeftInPass, PassLength
      <4> QED
        BY <1>1, <1>4, <4>1
    <3>2. CASE pc[h] \in {"mount", "clear", "lock"}
      <4>1. \E n \in {5, 6, 7} : LeftInPass(h) = n + Len(Sweeps)
        BY <3>2 DEF LeftInPass, PassLength
      <4> QED
        BY <1>1, <4>1 DEF PassLength
    <3>3. CASE pc[h] \in {"touch", "exit", "unlock", "remove", "check", "scan"}
      <4>1. LeftInPass(h) \in 1..4
        BY <3>3 DEF LeftInPass
      <4>2. PassLength >= 7
        BY <1>1 DEF PassLength
      <4> QED
        BY <1>1, <4>1, <4>2
    <3> QED
      BY <1>4, <3>1, <3>2, <3>3 DEF Locked
  <2> QED
    BY <2>1 DEF CommandsLeft
<1> HIDE DEF P
<1> QED
  BY <1>1, <1>2, <1>3, <1>5

LEMMA RunningDown == IInv /\ [Next]_vars => HooksRunDown
<1> SUFFICES ASSUME IInv, [Next]_vars, NEW h \in Hooks, pc[h] # "none"
             PROVE  IF Step(h) THEN CommandsLeft(h)' < CommandsLeft(h)
                    ELSE CommandsLeft(h)' = CommandsLeft(h)
  BY DEF HooksRunDown
<1>1. /\ pc \in [Hooks -> {"none", "lock", "touch"} \cup Locked]
      /\ sweep \in [Hooks -> 1..Len(Sweeps)] /\ rerun \in [Hooks -> 0..MaxReruns]
      /\ Len(Sweeps) \in Nat /\ PassLength \in Nat /\ MaxReruns \in Nat
  BY SweepFacts DEF IInv, TypeOK, PassLength
<1>2. CommandsLeft(h) \in Nat /\ CommandsLeft(h) # 0
  <2>1. (MaxReruns + 1) * PassLength \in Nat
    BY <1>1
  <2> QED
    BY <2>1, Bounded DEF HooksAreBounded
<1>3. ASSUME Step(h) PROVE CommandsLeft(h)' < CommandsLeft(h)
  <2>1. CASE Touch(h) \/ Exit(h)
    <3>1. pc'[h] = "none"
      BY <1>1, <2>1 DEF Touch, Exit, Goto
    <3>2. CommandsLeft(h)' = 0
      BY <3>1 DEF CommandsLeft
    <3> QED
      BY <1>2, <3>2
  <2>2. CASE Rerun(h)
    <3>1. pc[h] = "unlock" /\ pc'[h] = "lock" /\ rerun'[h] = rerun[h] + 1
      BY <1>1, <2>2 DEF Rerun, Goto
    <3>2. rerun[h] < MaxReruns
      BY <3>1 DEF IInv, BelowCap
    <3>3. /\ CommandsLeft(h) = (MaxReruns - rerun[h]) * PassLength + 1
          /\ CommandsLeft(h)' = (MaxReruns - (rerun[h] + 1)) * PassLength + PassLength
      BY <3>1 DEF CommandsLeft, LeftInPass
    <3>4. CommandsLeft(h)' = (MaxReruns - rerun[h]) * PassLength
      BY <1>1, <3>2, <3>3, Products
    <3>5. (MaxReruns - rerun[h]) * PassLength \in Nat
      BY <1>1, Products
    <3> QED
      BY <3>3, <3>4, <3>5
  <2>3. CASE \/ TryLock(h) \/ Clear(h) \/ CheckMount(h) \/ Sweep(h)
             \/ TriggerScans(h) \/ CheckPending(h) \/ RemovePending(h)
    <3>1. rerun'[h] = rerun[h] /\ pc'[h] # "none"
      BY <1>1, <2>3 DEF TryLock, Clear, CheckMount, Sweep, TriggerScans, CheckPending,
                        RemovePending, Goto
    <3>2. LeftInPass(h)' < LeftInPass(h) /\ LeftInPass(h)' \in Nat /\ LeftInPass(h) \in Nat
      <4>1. sweep[h] \in 1..Len(Sweeps) /\ PassLength = 7 + Len(Sweeps)
        BY <1>1 DEF PassLength
      <4>2. sweep[h] = 1 \/ pc[h] = "sweep"
        BY DEF IInv, AtFirst
      <4>3. CASE \/ TryLock(h) \/ Clear(h) \/ CheckMount(h)
                 \/ TriggerScans(h) \/ CheckPending(h) \/ RemovePending(h)
        BY <1>1, <4>1, <4>2, <4>3 DEF LeftInPass, TryLock, Clear, CheckMount,
                       TriggerScans, CheckPending, RemovePending, Goto
      <4>4. CASE Sweep(h)
        <5>1. pc[h] = "sweep"
          BY <4>4 DEF Sweep
        <5>2. CASE sweep[h] < Len(Sweeps)
          <6>1. sweep'[h] = sweep[h] + 1 /\ pc'[h] = "sweep"
            BY <1>1, <4>4, <5>1, <5>2 DEF Sweep
          <6> QED
            BY <1>1, <4>1, <5>1, <5>2, <6>1 DEF LeftInPass
        <5>3. CASE ~(sweep[h] < Len(Sweeps))
          <6>1. pc'[h] = "scan"
            BY <1>1, <4>4, <5>3 DEF Sweep, Goto
          <6> QED
            BY <1>1, <4>1, <5>1, <6>1 DEF LeftInPass
        <5> QED
          BY <5>2, <5>3
      <4> QED
        BY <2>3, <4>3, <4>4
    <3>3. /\ CommandsLeft(h) = (MaxReruns - rerun[h]) * PassLength + LeftInPass(h)
          /\ CommandsLeft(h)' = (MaxReruns - rerun[h]) * PassLength + LeftInPass(h)'
      BY <3>1 DEF CommandsLeft
    <3>4. (MaxReruns - rerun[h]) * PassLength \in Nat
      BY <1>1, Products
    <3> QED
      BY <3>2, <3>3, <3>4
  <2> QED
    BY <1>3, <2>1, <2>2, <2>3 DEF Step, OwnStep
<1>4. ASSUME ~Step(h) PROVE CommandsLeft(h)' = CommandsLeft(h)
  <2>1. pc'[h] = pc[h] /\ sweep'[h] = sweep[h] /\ rerun'[h] = rerun[h]
    <3>1. CASE UNCHANGED vars
      BY <3>1 DEF vars
    <3>2. ASSUME NEW g \in Hooks, NEW l \in Libraries, Change(g, l)
          PROVE  pc'[h] = pc[h] /\ sweep'[h] = sweep[h] /\ rerun'[h] = rerun[h]
      BY <1>1, <3>2 DEF Change, Goto
    <3>3. ASSUME NEW g \in Hooks, Step(g)
          PROVE  pc'[h] = pc[h] /\ sweep'[h] = sweep[h] /\ rerun'[h] = rerun[h]
      <4>1. g # h
        BY <1>4, <3>3
      <4> QED
        BY <1>1, <3>3, <4>1 DEF Step, OwnStep, TryLock, Touch, Clear, CheckMount, Sweep,
               TriggerScans, CheckPending, RemovePending, Rerun, Exit, Goto
    <3> QED
      BY <3>1, <3>2, <3>3 DEF Next
  <2> QED
    BY <2>1 DEF CommandsLeft, LeftInPass
<1> QED
  BY <1>3, <1>4

\* No instance runs for ever, however zurg and the other instances behave: it
\* has at most MAX_RERUNS + 1 passes' commands before it, and each of its steps
\* leaves fewer (the cap on reruns, flock -n).  With the fairness of Spec this is
\* why every instance ends whose commands come back.
THEOREM InstancesRunDown == Spec => []HooksAreBounded /\ [][HooksRunDown]_vars
<1>1. IInv /\ [Next]_vars => [HooksRunDown]_vars
  BY RunningDown
<1> QED
  BY InitIInv, Inductive, Bounded, <1>1, PTL DEF Spec
=============================================================================
