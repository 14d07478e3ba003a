------------------------ MODULE ServiceControlProofs ------------------------
(***************************************************************************)
(* What holds of start, stop and restart for any number of threads that    *)
(* serve control calls, on any kinds of services: the state keeps its      *)
(* shape, a service that is down is explained, and the interfaces keep the *)
(* promise of ServicePromise.                                              *)
(***************************************************************************)
EXTENDS ServiceControl, TLAPS

\* A call is at a command of the action it was asked for.
Fits(r) ==
    /\ r.action = "none" <=> r.at = "idle"
    /\ r.at = "start" => r.action \in {"start", "restart"}
    /\ r.at = "stop" => r.action \in {"stop", "restart"}
    /\ r.at \in {"restart", "try"} => r.action = "restart"
    /\ r.at = "logs" => r.action = "logs"

\* Nobody serves a call while the serving process is down.
SelfIsServing == self /\ ~up => \A c \in Callers : call[c] = Idle

IInv == TypeOK /\ (\A c \in Callers : Fits(call[c])) /\ SelfIsServing /\ DownIsExplained

-----------------------------------------------------------------------------
Ats == Commands \cup {"logs", "ok", "failed"}
Record == [action : Actions \cup {"none"}, at : Ats \cup {"idle"}]

\* The records of TypeOK are those that fit the idle one or are not idle.
LEMMA RecordTypes ==
    /\ Idle \in Record /\ Fits(Idle)
    /\ \A r \in {Idle} \cup [action : Actions, at : Ats] : r \in Record
    /\ \A r \in Record : Fits(r) => r \in {Idle} \cup [action : Actions, at : Ats]
<1>1. Idle \in Record /\ Fits(Idle)
    BY DEF Idle, Record, Fits
<1>2. \A r \in {Idle} \cup [action : Actions, at : Ats] : r \in Record
    BY <1>1 DEF Record
<1>3. ASSUME NEW r \in Record, Fits(r)
      PROVE  r \in {Idle} \cup [action : Actions, at : Ats]
    <2>1. CASE r.at = "idle"
        <3>1. r = Idle
            BY <2>1, <1>3 DEF Record, Fits, Idle
        <3> QED
            BY <3>1
    <2>2. CASE r.at # "idle"
        BY <2>2, <1>3 DEF Record, Fits
    <2> QED
        BY <2>1, <2>2
<1> QED
    BY <1>1, <1>2, <1>3

\* A function of fitting records is of the shape that TypeOK asks for.
LEMMA CallTypes ==
    ASSUME NEW f, f \in [Callers -> Record], \A c \in Callers : Fits(f[c])
    PROVE  f \in [Callers -> {Idle} \cup [action : Actions, at : Ats]]
BY RecordTypes

\* What an open call may be asked for.
LEMMA IInvRecords ==
    ASSUME IInv
    PROVE  /\ call \in [Callers -> Record]
           /\ \A c \in Callers : call[c] \in Record /\ Fits(call[c])
BY RecordTypes DEF IInv, TypeOK, Ats

\* Where Goto leaves the calls.
LEMMA GotoMoves ==
    ASSUME IInv, NEW c \in Callers, NEW at \in Ats, Goto(c, at)
    PROVE  /\ call' \in [Callers -> Record]
           /\ call'[c].action = call[c].action /\ call'[c].at = at
           /\ \A d \in Callers \ {c} : call'[d] = call[d]
<1>1. [call[c] EXCEPT !.at = at] \in Record
    BY IInvRecords DEF Record
<1>2. call' = [call EXCEPT ![c] = [call[c] EXCEPT !.at = at]]
    BY DEF Goto
<1>3. call[c] \in Record
    BY IInvRecords
<1> QED
    BY <1>1, <1>2, <1>3, IInvRecords DEF Record

\* A call that goes on to a command of its action keeps the calls fitting.
LEMMA GotoFits ==
    ASSUME IInv, NEW c \in Callers, NEW at \in Ats, Goto(c, at),
           At(c) \in Commands \cup {"logs"},
           at \in {"ok", "failed"}
           \/ (call[c].action = "restart" /\ at \in {"stop", "start"})
    PROVE  /\ call' \in [Callers -> Record]
           /\ \A d \in Callers : Fits(call'[d])
<1>1. Fits(call[c])
    BY IInvRecords
<1>2. Fits(call'[c])
    BY <1>1, GotoMoves DEF Fits, At, Commands
<1> QED
    BY <1>2, GotoMoves, IInvRecords

\* What follows an error: another command of a restart, or an answer that is no
\* success to those who look at it.
LEMMA AfterErrorFits ==
    ASSUME IInv, NEW c \in Callers, At(c) \in Commands
    PROVE  /\ AfterError(c) \in Ats
           /\ AfterError(c) \in {"ok", "failed"}
              \/ (call[c].action = "restart" /\ AfterError(c) \in {"stop", "start"})
           /\ AfterError(c) \in {"ok", "failed"} => Fault(c)
           /\ AfterError(c) = "ok" => Unseen
BY IInvRecords DEF AfterError, Ats, Commands, At, Fits, Fault

\* The same when a failed load or unload may look like a success.
LEMMA AfterFailedFits ==
    ASSUME IInv, NEW c \in Callers, At(c) \in Commands, NEW at \in AfterFailed(c)
    PROVE  /\ at \in Ats
           /\ at \in {"ok", "failed"}
              \/ (call[c].action = "restart" /\ at \in {"stop", "start"})
           /\ at \in {"ok", "failed"} => Fault(c)
           /\ at = "ok" => Untold
BY AfterErrorFits DEF AfterFailed, Ats, Untold

\* The same when the time of a command is over.
LEMMA AfterTimeOutFits ==
    ASSUME IInv, NEW c \in Callers, At(c) \in Commands
    PROVE  /\ AfterTimeOut(c) \in Ats
           /\ AfterTimeOut(c) \in {"ok", "failed"}
              \/ (call[c].action = "restart" /\ AfterTimeOut(c) \in {"stop", "start"})
           /\ AfterTimeOut(c) = "ok" => Unseen
BY AfterErrorFits DEF AfterTimeOut, Ats

\* The first step of a call fits what it was asked for.
LEMMA FirstFits ==
    ASSUME NEW action \in Actions
    PROVE  /\ [action |-> action, at |-> First(action)] \in Record
           /\ Fits([action |-> action, at |-> First(action)])
           /\ First(action) = "ok" => action \notin Effects
BY DEF First, Record, Fits, Actions, Effects, Ats, Commands, Both

-----------------------------------------------------------------------------
(* The invariant.                                                          *)

USE DEF Effects

\* A thread that is asked.
LEMMA AskKeeps ==
    ASSUME IInv, NEW c \in Callers, Ask(c)
    PROVE  IInv'
<1>1. PICK action \in Actions :
          call' = [call EXCEPT ![c] = [action |-> action, at |-> First(action)]]
    BY DEF Ask
<1>2. /\ call' \in [Callers -> Record]
      /\ \A d \in Callers : Fits(call'[d])
      /\ \A d \in Callers \ {c} : call'[d] = call[d]
    BY <1>1, FirstFits, IInvRecords
<1>3. call' \in [Callers -> {Idle} \cup [action : Actions, at : Ats]]
    BY <1>2, CallTypes
<1>4. TypeOK'
    BY <1>3 DEF IInv, TypeOK, Ask, Ats
<1>5. DownIsExplained'
    BY <1>2 DEF IInv, DownIsExplained, Busy, Ask, At, Idle
<1> QED
    BY <1>2, <1>4, <1>5 DEF IInv, SelfIsServing, Ask

\* Whether a service that is down is explained after a step of one call.
LEMMA OneCallExplained ==
    ASSUME IInv, NEW c \in Callers, NEW at \in Ats, Goto(c, at),
           \/ up'
           \/ blamed'
           \/ left' \cap {"start", "restart"} # {}
           \/ at = "start"
           \/ at = "stop" /\ call[c].action = "restart"
    PROVE  DownIsExplained'
<1>1. call'[c].at = at /\ call'[c].action = call[c].action
    BY GotoMoves
<1> QED
    BY <1>1 DEF DownIsExplained, Busy, At

\* The shape of the state after a step of one call.
LEMMA OneCallKeeps ==
    ASSUME IInv, NEW c \in Callers, NEW at \in Ats, Goto(c, at),
           at \in {"ok", "failed"}
           \/ (call[c].action = "restart" /\ at \in {"stop", "start"}),
           At(c) \in Commands \cup {"logs"},
           UNCHANGED <<kind, self>>, up' \in BOOLEAN, blamed' \in BOOLEAN,
           left' \subseteq Effects, DownIsExplained', self => up'
    PROVE  IInv'
<1>1. /\ call' \in [Callers -> Record]
      /\ \A d \in Callers : Fits(call'[d])
    BY GotoFits
<1>2. call' \in [Callers -> {Idle} \cup [action : Actions, at : Ats]]
    BY <1>1, CallTypes
<1>3. TypeOK'
    BY <1>2 DEF IInv, TypeOK, Ats
<1> QED
    BY <1>1, <1>3 DEF IInv, SelfIsServing

\* All calls end with the serving process, and something is to blame for what
\* is down.
LEMMA AllEndKeeps ==
    ASSUME IInv, call' = [c \in Callers |-> Idle], UNCHANGED <<kind, self>>,
           up' \in BOOLEAN, Blame(TRUE), left' \subseteq Effects
    PROVE  IInv'
<1>1. /\ call' \in [Callers -> Record]
      /\ \A d \in Callers : Fits(call'[d]) /\ call'[d] = Idle
    BY RecordTypes
<1>2. call' \in [Callers -> {Idle} \cup [action : Actions, at : Ats]]
    BY <1>1, CallTypes
<1>3. TypeOK'
    BY <1>2 DEF IInv, TypeOK, Ats, Blame
<1> QED
    BY <1>1, <1>3 DEF IInv, SelfIsServing, DownIsExplained, Blame

\* A call that is open has the process that serves it.
LEMMA OpenIsServed ==
    ASSUME IInv, NEW c \in Callers, At(c) # "idle", self
    PROVE  up
BY DEF IInv, SelfIsServing, At, Idle, TypeOK

\* A step of a call keeps the invariant.
LEMMA ServeKeeps ==
    ASSUME IInv, NEW c \in Callers, Serve(c)
    PROVE  IInv'
<1>0. /\ call[c] \in Record /\ Fits(call[c])
      /\ left \subseteq Effects /\ up \in BOOLEAN /\ blamed \in BOOLEAN
    BY IInvRecords DEF IInv, TypeOK
<1>1. CASE Start(c)
    <2>1. Goto(c, "ok") /\ At(c) = "start" /\ UNCHANGED <<kind, self>>
        BY <1>1 DEF Start
    <2>2. self => up
        BY <2>1, OpenIsServed
    <2>3. /\ up' \in BOOLEAN /\ left' \subseteq Effects
          /\ up' \/ "start" \in left'
          /\ self => up'
        BY <1>0, <1>1, <2>2 DEF Start
    <2>4. blamed' \in BOOLEAN
        BY <1>1 DEF Start, Blame
    <2>5. DownIsExplained'
        BY <2>1, <2>3, OneCallExplained DEF Ats
    <2> QED
        BY <2>1, <2>3, <2>4, <2>5, OneCallKeeps DEF Ats, Commands
<1>2. CASE Stop(c)
    <2>1. /\ At(c) = "stop" /\ UNCHANGED <<kind, self>>
          /\ up' \in BOOLEAN /\ left' \subseteq Effects
        BY <1>0, <1>2 DEF Stop
    <2>2. CASE self
        BY <1>2, <2>1, <2>2, AllEndKeeps DEF Stop, Killed
    <2>3. CASE ~self /\ call[c].action = "restart"
        <3>1. Goto(c, "start") /\ Blame(FALSE)
            BY <1>2, <2>3 DEF Stop
        <3>2. DownIsExplained'
            BY <3>1, OneCallExplained DEF Ats, Commands
        <3>3. blamed' \in BOOLEAN
            BY <3>1 DEF Blame
        <3> QED
            BY <2>1, <2>3, <3>1, <3>2, <3>3, OneCallKeeps DEF Ats, Commands
    <2>4. CASE ~self /\ call[c].action # "restart"
        <3>1. Goto(c, "ok") /\ Blame(TRUE)
            BY <1>2, <2>4 DEF Stop
        <3>2. DownIsExplained'
            BY <3>1, OneCallExplained DEF Ats, Blame
        <3>3. blamed' \in BOOLEAN
            BY <3>1 DEF Blame
        <3> QED
            BY <2>1, <2>4, <3>1, <3>2, <3>3, OneCallKeeps DEF Ats, Commands
    <2> QED
        BY <2>2, <2>3, <2>4
<1>3. CASE RestartStops(c)
    <2>1. CASE self
        BY <1>3, <2>1, AllEndKeeps DEF RestartStops, Killed
    <2>2. CASE ~self
        <3>1. UNCHANGED <<call, left, kind, self>> /\ Blame(FALSE) /\ up' = FALSE
              /\ At(c) \in {"restart", "try"}
            BY <1>3, <2>2 DEF RestartStops
        <3>2. TypeOK'
            BY <3>1 DEF IInv, TypeOK, Blame
        <3>3. DownIsExplained'
            BY <3>1 DEF DownIsExplained, Busy, At
        <3> QED
            BY <2>2, <3>1, <3>2, <3>3 DEF IInv, SelfIsServing
    <2> QED
        BY <2>1, <2>2
<1>4. CASE RestartStarts(c)
    <2>1. /\ Goto(c, "ok") /\ At(c) \in {"restart", "try"} /\ UNCHANGED <<kind, self>>
          /\ up' = TRUE /\ left' \subseteq Effects /\ blamed' \in BOOLEAN
        BY <1>0, <1>4 DEF RestartStarts, Blame
    <2>2. DownIsExplained'
        BY <2>1, OneCallExplained DEF Ats
    <2> QED
        BY <2>1, <2>2, OneCallKeeps DEF Ats, Commands
<1>5. CASE Error(c)
    <2>0. PICK at \in AfterFailed(c) : Goto(c, at)
        BY <1>5 DEF Error
    <2>1. /\ Goto(c, at) /\ At(c) \in Commands /\ UNCHANGED <<kind, self>>
          /\ left' \subseteq Effects /\ Blame(Fault(c))
        BY <1>0, <1>5, <2>0 DEF Error
    <2>2. up' \in BOOLEAN
        BY <1>0, <1>5 DEF Error, Goal
    <2>3. self => up'
        <3>1. self => up' = up
            BY <1>5 DEF Error
        <3>2. self => up
            BY <2>1, OpenIsServed DEF Commands
        <3> QED
            BY <3>1, <3>2
    <2>4. blamed' \in BOOLEAN
        BY <2>1 DEF Blame
    <2>5. at \in {"ok", "failed"} => up' \/ blamed'
        BY <2>1, <2>2, AfterFailedFits DEF Blame
    <2>6. DownIsExplained'
        BY <2>1, <2>5, AfterFailedFits, OneCallExplained
    <2> QED
        BY <2>1, <2>2, <2>3, <2>4, <2>6, AfterFailedFits, OneCallKeeps
<1>6. CASE TimeOut(c)
    <2>1. /\ Goto(c, AfterTimeOut(c)) /\ At(c) \in Commands /\ UNCHANGED <<kind, self, up>>
          /\ left' = {EffectOf(At(c))} \cup (IF OneJob THEN {} ELSE left)
          /\ Blame(At(c) = "stop" /\ AfterTimeOut(c) # "start")
        BY <1>6 DEF TimeOut
    <2>2. left' \subseteq Effects /\ EffectOf(At(c)) \in left'
        BY <1>0, <2>1 DEF EffectOf, Commands
    <2>3. self => up'
        BY <2>1, OpenIsServed DEF Commands
    <2>4. blamed' \in BOOLEAN
        BY <2>1 DEF Blame
    <2>5. AfterTimeOut(c) \in {"ok", "failed"} =>
              up' \/ blamed' \/ left' \cap {"start", "restart"} # {}
        <3>1. CASE At(c) = "stop"
            BY <1>0, <2>1, <3>1 DEF Blame
        <3>2. CASE At(c) # "stop"
            BY <2>1, <2>2, <3>2 DEF EffectOf, Commands
        <3> QED
            BY <3>1, <3>2
    <2>6. DownIsExplained'
        BY <2>1, <2>5, AfterTimeOutFits, OneCallExplained
    <2> QED
        BY <1>0, <2>1, <2>2, <2>3, <2>4, <2>6, AfterTimeOutFits, OneCallKeeps
<1>7. CASE ReadLogs(c)
    <2>1. PICK at \in {"ok", "failed"} : Goto(c, at)
        BY <1>7 DEF ReadLogs
    <2>2. At(c) = "logs" /\ UNCHANGED <<kind, self, up, left, blamed>>
        BY <1>7 DEF ReadLogs
    <2>3. DownIsExplained'
        BY <2>1, <2>2, GotoMoves DEF IInv, DownIsExplained, Busy, At, Ats
    <2>4. self => up'
        BY <2>2, OpenIsServed
    <2> QED
        BY <1>0, <2>1, <2>2, <2>3, <2>4, OneCallKeeps DEF Ats, Commands
<1>8. CASE Reply(c)
    <2>1. /\ call' \in [Callers -> Record]
          /\ \A d \in Callers : Fits(call'[d])
          /\ \A d \in Callers \ {c} : call'[d] = call[d]
          /\ call'[c] = Idle
        BY <1>8, RecordTypes, IInvRecords DEF Reply
    <2>2. call' \in [Callers -> {Idle} \cup [action : Actions, at : Ats]]
        BY <2>1, CallTypes
    <2>3. TypeOK'
        BY <1>8, <2>2 DEF IInv, TypeOK, Reply, Ats
    <2>4. DownIsExplained'
        BY <1>8, <2>1 DEF IInv, DownIsExplained, Busy, At, Reply
    <2> QED
        BY <1>8, <2>1, <2>3, <2>4 DEF IInv, SelfIsServing, Reply
<1> QED
    BY <1>1, <1>2, <1>3, <1>4, <1>5, <1>6, <1>7, <1>8 DEF Serve

\* What happens around the calls keeps the invariant.
LEMMA AroundKeeps ==
    ASSUME IInv, Late \/ LateFails \/ ControllerStops \/ Dies \/ StartedByHand
    PROVE  IInv'
<1>0. left \subseteq Effects /\ up \in BOOLEAN /\ blamed \in BOOLEAN
    BY DEF IInv, TypeOK
<1>1. CASE Late
    <2>1. PICK e \in left :
             /\ up' = (e = "start")
             /\ left' = (left \ {e}) \cup (IF e = "restart" THEN {"start"} ELSE {})
             /\ IF self /\ up /\ ~up' THEN Killed
                                      ELSE UNCHANGED call /\ Blame(e = "stop")
             /\ UNCHANGED <<kind, self>>
        BY <1>1 DEF Late
    <2>2. up' \in BOOLEAN /\ left' \subseteq Effects
        BY <1>0, <2>1
    <2>3. CASE self /\ up /\ ~up'
        BY <2>1, <2>2, <2>3, AllEndKeeps DEF Killed
    <2>4. CASE ~(self /\ up /\ ~up')
        <3>1. TypeOK'
            BY <2>1, <2>2, <2>4 DEF IInv, TypeOK, Blame
        <3>2. DownIsExplained'
            BY <1>0, <2>1, <2>4 DEF DownIsExplained, Blame
        <3> QED
            BY <2>1, <2>4, <3>1, <3>2 DEF IInv, SelfIsServing
    <2> QED
        BY <2>3, <2>4
<1>2. CASE LateFails
    <2>1. UNCHANGED <<kind, self, up, call>> /\ Blame(TRUE) /\ left' \subseteq Effects
        BY <1>0, <1>2 DEF LateFails
    <2> QED
        BY <2>1 DEF IInv, TypeOK, SelfIsServing, DownIsExplained, Blame
<1>3. CASE ControllerStops
    <2>1. {EffectOf(At(c)) : c \in {d \in Callers : At(d) \in Commands}} \subseteq Effects
        BY DEF EffectOf, Commands
    <2>2. left' \subseteq Effects
        BY <1>0, <1>3, <2>1 DEF ControllerStops
    <2> QED
        BY <1>0, <1>3, <2>2, AllEndKeeps DEF ControllerStops
<1>4. CASE Dies
    BY <1>4 DEF Dies, IInv, TypeOK, SelfIsServing, DownIsExplained, Blame
<1>5. CASE StartedByHand
    BY <1>5 DEF StartedByHand, IInv, TypeOK, SelfIsServing, DownIsExplained, Blame
<1> QED
    BY <1>1, <1>2, <1>3, <1>4, <1>5

\* The invariant holds at first.
LEMMA IInvInit == Init => IInv
<1> SUFFICES ASSUME Init PROVE IInv
    OBVIOUS
<1>1. call \in [Callers -> Record] /\ \A c \in Callers : Fits(call[c])
    BY RecordTypes DEF Init
<1>2. call \in [Callers -> {Idle} \cup [action : Actions, at : Ats]]
    BY <1>1, CallTypes
<1>3. TypeOK
    BY <1>2 DEF Init, TypeOK, Ats
<1> QED
    BY <1>1, <1>3 DEF Init, IInv, SelfIsServing, DownIsExplained

\* Every step keeps the invariant.
LEMMA IInvStep == IInv /\ [Next]_vars => IInv'
<1> SUFFICES ASSUME IInv, [Next]_vars PROVE IInv'
    OBVIOUS
<1>1. CASE UNCHANGED vars
    BY <1>1 DEF vars, IInv, TypeOK, SelfIsServing, DownIsExplained, Busy, At
<1>2. CASE Next
    BY <1>2, AskKeeps, ServeKeeps, AroundKeeps DEF Next
<1> QED
    BY <1>1, <1>2

\* The state keeps its shape, for any threads and kinds of services.
THEOREM ControlTypes == Spec => []TypeOK
<1>1. IInv => TypeOK
    BY DEF IInv
<1> QED
    BY <1>1, IInvInit, IInvStep, PTL DEF Spec

\* No interleaving of restarts with anything else leaves a service down without
\* a reason (restart_service, control_service).
THEOREM DownIsAlwaysExplained == Spec => []DownIsExplained
<1>1. IInv => DownIsExplained
    BY DEF IInv
<1> QED
    BY <1>1, IInvInit, IInvStep, PTL DEF Spec

-----------------------------------------------------------------------------
(* The promise.                                                            *)

Shown == [c \in Callers |-> [action |-> call[c].action, answer |-> Answer(At(c))]]

USE DEF Promise!Effects, Promise!Goal, Promise!Parts, Promise!Change

\* How the answer of a call is seen while it goes on to another step.
LEMMA ShownMoves ==
    ASSUME IInv, NEW c \in Callers, NEW at \in Ats, Goto(c, at), UNCHANGED kind
    PROVE  Shown' = [Shown EXCEPT ![c] = [@ EXCEPT !.answer = Answer(at)]]
<1>1. \A d \in Callers \ {c} : Shown'[d] = Shown[d]
    BY GotoMoves DEF Shown, At, Answer, Untold, Unseen, Legacy
<1>2. Shown'[c] = [action |-> call[c].action, answer |-> Answer(at)]
    BY GotoMoves DEF Shown, At, Answer, Untold, Unseen, Legacy
<1>3. Shown[c] = [action |-> call[c].action, answer |-> Answer(At(c))]
    BY DEF Shown
<1> QED
    BY <1>1, <1>2, <1>3 DEF Shown

\* Calls that go on as they are look as they did.
LEMMA ShownStays ==
    ASSUME UNCHANGED <<call, kind>>
    PROVE  Shown' = Shown
BY DEF Shown, At, Answer, Untold, Unseen, Legacy

\* A call that is at a step is open.
LEMMA OpenCalls ==
    ASSUME IInv
    PROVE  /\ \A c \in Callers : At(c) # "idle" => c \in Promise!Open
           /\ \A c \in Promise!Open : c \in Callers /\ At(c) # "idle"
           /\ \A c \in Callers : At(c) = "idle" => Shown[c] = Promise!NoCall
<1>1. \A c \in Callers : call[c].action = "none" <=> At(c) = "idle"
    BY IInvRecords DEF Fits, At
<1>2. Answer("idle") = "none"
    BY DEF Answer
<1> QED
    BY <1>1, <1>2 DEF Promise!Open, Promise!NoCall, Shown

\* A call that goes on without an answer works.
LEMMA Works ==
    ASSUME IInv, NEW c \in Callers, NEW at \in Commands, Goto(c, at),
           At(c) \in Commands, UNCHANGED kind, Promise!Change(Promise!Parts(call[c].action))
    PROVE  Promise!Work(c)
<1>1. Answer(at) = "none" /\ Answer(At(c)) = "none"
    BY DEF Answer, Commands
<1>2. Shown' = Shown
    <2>1. Shown' = [Shown EXCEPT ![c] = [@ EXCEPT !.answer = "none"]]
        BY <1>1, ShownMoves DEF Ats
    <2> QED
        BY <1>1, <2>1 DEF Shown
<1>3. c \in Promise!Open
    BY OpenCalls DEF Commands
<1> QED
    BY <1>2, <1>3 DEF Promise!Work, Shown

\* A call that comes to its end succeeds or fails.
LEMMA Answers ==
    ASSUME IInv, NEW c \in Callers, NEW at \in {"ok", "failed"}, Goto(c, at),
           At(c) \in Commands \cup {"logs"}, UNCHANGED kind,
           Promise!Change(Promise!Parts(call[c].action))
    PROVE  /\ at = "failed" \/ Untold => Promise!Fail(c)
           /\ \/ call[c].action \notin Effects
              \/ up' = Goal(call[c].action)
              \/ \E e \in left' : Goal(e) = Goal(call[c].action)
              => (at = "ok" /\ ~Untold => Promise!Succeed(c))
<1>1. /\ Answer(At(c)) = "none" /\ Answer("failed") = "failure"
      /\ Answer("ok") = IF Untold THEN "failure" ELSE "success"
    BY DEF Answer, Commands
<1>2. c \in Promise!Open
    BY OpenCalls DEF Commands
<1>3. Shown' = [Shown EXCEPT ![c] = [@ EXCEPT !.answer = Answer(at)]]
    BY ShownMoves DEF Ats
<1>4. Shown[c].answer = "none" /\ Shown[c].action = call[c].action
    BY <1>1 DEF Shown
<1> QED
    BY <1>1, <1>2, <1>3, <1>4 DEF Promise!Fail, Promise!Succeed, Shown, Goal

\* What open calls and stray effects may do.
Due == UNION ({Promise!Parts(call[c].action) : c \in Promise!Open}
              \cup {Promise!Parts(e) : e \in left})

\* Each open call and each stray effect has its part in it.
LEMMA DueParts ==
    ASSUME IInv
    PROVE  /\ \A c \in Callers : At(c) # "idle" => Promise!Parts(call[c].action) \subseteq Due
           /\ \A e \in left : e \in Due /\ (e = "restart" => Effects \subseteq Due)
<1>1. \A c \in Promise!Open : Promise!Parts(call[c].action) \subseteq Due
    BY Zenon DEF Due
<1>2. \A e \in left : Promise!Parts(e) \subseteq Due
    BY Zenon DEF Due
<1>3. \A e \in left : e \in Promise!Parts(e) /\ (e = "restart" => Effects = Promise!Parts(e))
    BY DEF IInv, TypeOK
<1> QED
    BY <1>1, <1>2, <1>3, OpenCalls, Zenon

\* Calls that end unanswered are late, with what they leave.
LEMMA EndsLate ==
    ASSUME IInv, call' = [c \in Callers |-> Idle], Promise!Change(Due)
    PROVE  Promise!Late
<1>1. \A c \in Promise!Open : Shown[c].action = call[c].action
    BY OpenCalls DEF Shown
<1>2. Due = UNION ({Promise!Parts(Shown[c].action) : c \in Promise!Open}
                   \cup {Promise!Parts(e) : e \in left})
    BY <1>1, Zenon DEF Due
<1>3. Shown' = [c \in Callers |-> IF c \in Promise!Open THEN Promise!NoCall ELSE Shown[c]]
    <2>1. Shown' = [c \in Callers |-> Promise!NoCall]
        BY DEF Shown, At, Idle, Answer, Promise!NoCall
    <2>2. \A c \in Callers : c \notin Promise!Open => Shown[c] = Promise!NoCall
        BY OpenCalls
    <2> QED
        BY <2>1, <2>2
<1>4. Promise!Open \in SUBSET Promise!Open
    OBVIOUS
<1> QED
    BY <1>2, <1>3, <1>4, Zenon DEF Promise!Late, Shown

\* A step of a call keeps the promise.
LEMMA ServePromised ==
    ASSUME IInv, NEW c \in Callers, Serve(c)
    PROVE  Promise!Next
<1>0. /\ call[c] \in Record /\ Fits(call[c]) /\ left \subseteq Effects /\ up \in BOOLEAN
    BY IInvRecords DEF IInv, TypeOK
<1>1. CASE Start(c)
    <2>1. Goto(c, "ok") /\ At(c) = "start"
        BY <1>1 DEF Start
    <2>2. Promise!Change(Promise!Parts(call[c].action))
        BY <1>0, <1>1 DEF Start, Fits, At
    <2>3. up' = Goal(call[c].action) \/ \E e \in left' : Goal(e) = Goal(call[c].action)
        BY <1>0, <1>1 DEF Start, Fits, At, Goal
    <2>4. Promise!Succeed(c) \/ Promise!Fail(c)
        BY <1>1, <2>1, <2>2, <2>3, Answers DEF Commands, Start
    <2> QED
        BY <2>4 DEF Promise!Next
<1>2. CASE Stop(c)
    <2>1. At(c) = "stop" /\ Promise!Change(Promise!Parts(call[c].action))
        BY <1>0, <1>2 DEF Stop, Fits, At
    <2>2. CASE self
        <3>1. Promise!Change(Due)
            BY <2>1, DueParts
        <3> QED
            BY <1>2, <2>2, <3>1, EndsLate DEF Stop, Killed, Promise!Next
    <2>3. CASE ~self /\ call[c].action = "restart"
        <3>1. Goto(c, "start")
            BY <1>2, <2>3 DEF Stop
        <3> QED
            BY <1>2, <2>1, <3>1, Works DEF Commands, Promise!Next, Stop
    <2>4. CASE ~self /\ call[c].action # "restart"
        <3>1. Goto(c, "ok")
            BY <1>2, <2>4 DEF Stop
        <3>2. up' = Goal(call[c].action) \/ \E e \in left' : Goal(e) = Goal(call[c].action)
            BY <1>0, <1>2, <2>4 DEF Stop, Fits, At, Goal
        <3>3. Promise!Succeed(c) \/ Promise!Fail(c)
            BY <1>2, <2>1, <3>1, <3>2, Answers DEF Commands, Stop
        <3> QED
            BY <3>3 DEF Promise!Next
    <2> QED
        BY <2>2, <2>3, <2>4
<1>3. CASE RestartStops(c)
    <2>1. At(c) \in {"restart", "try"} /\ call[c].action = "restart" /\ up' = FALSE
        BY <1>0, <1>3 DEF RestartStops, Fits, At
    <2>2. CASE self
        <3>1. Promise!Change(Due)
            BY <1>3, <2>1, <2>2, DueParts DEF RestartStops
        <3> QED
            BY <1>3, <2>2, <3>1, EndsLate DEF RestartStops, Killed, Promise!Next
    <2>3. CASE ~self
        <3>1. UNCHANGED <<call, left>>
            BY <1>3, <2>3 DEF RestartStops
        <3>2. Shown' = Shown
            BY <1>3, <3>1, ShownStays DEF RestartStops
        <3>3. c \in Promise!Open /\ Shown[c].action = "restart"
            BY <2>1, OpenCalls DEF Shown
        <3>4. Promise!Change(Promise!Parts("restart"))
            BY <2>1, <3>1
        <3> QED
            BY <3>2, <3>3, <3>4 DEF Promise!Work, Promise!Next, Shown
    <2> QED
        BY <2>2, <2>3
<1>4. CASE RestartStarts(c)
    <2>1. /\ At(c) \in {"restart", "try"} /\ call[c].action = "restart"
          /\ up' = TRUE /\ Goto(c, "ok")
        BY <1>0, <1>4 DEF RestartStarts, Fits, At
    <2>2. Promise!Change(Promise!Parts(call[c].action))
        BY <1>4, <2>1 DEF RestartStarts
    <2>3. Promise!Succeed(c) \/ Promise!Fail(c)
        BY <1>4, <2>1, <2>2, Answers DEF Commands, Goal, RestartStarts
    <2> QED
        BY <2>3 DEF Promise!Next
<1>5. CASE Error(c) \/ TimeOut(c)
    <2>1. PICK at \in AfterFailed(c) \cup {AfterTimeOut(c)} :
              Goto(c, at) /\ At(c) \in Commands /\ UNCHANGED kind
        BY <1>5 DEF Error, TimeOut
    <2>2. /\ Goal(EffectOf(At(c))) \in {Promise!Goal(e) : e \in Promise!Parts(call[c].action)}
          /\ EffectOf(At(c)) \in Promise!Parts(call[c].action)
          /\ At(c) \in {"restart", "try"} => call[c].action = "restart"
        BY <1>0, <2>1 DEF EffectOf, Commands, Fits, At, Goal
    <2>3. Promise!Change(Promise!Parts(call[c].action))
        <3>1. CASE Error(c)
            <4>1. CASE At(c) \in {"restart", "try"}
                BY <1>0, <2>2, <3>1, <4>1 DEF Error
            <4>2. CASE At(c) \notin {"restart", "try"}
                BY <2>1, <2>2, <3>1, <4>2 DEF Error, EffectOf, Commands
            <4> QED
                BY <4>1, <4>2
        <3>2. CASE TimeOut(c)
            BY <2>2, <3>2 DEF TimeOut
        <3> QED
            BY <1>5, <3>1, <3>2
    <2>4. CASE at = "failed" \/ (at = "ok" /\ Untold)
        BY <2>1, <2>3, <2>4, Answers DEF Promise!Next
    <2>5. CASE at \in Commands
        BY <2>1, <2>3, <2>5, Works DEF Promise!Next
    <2> QED
        BY <2>1, <2>4, <2>5, AfterFailedFits, AfterTimeOutFits DEF Commands, Untold
<1>6. CASE ReadLogs(c)
    <2>1. PICK at \in {"ok", "failed"} : Goto(c, at)
        BY <1>6 DEF ReadLogs
    <2>2. At(c) = "logs" /\ call[c].action = "logs" /\ UNCHANGED <<up, left>>
        BY <1>0, <1>6 DEF ReadLogs, Fits, At
    <2>3. Promise!Change(Promise!Parts(call[c].action))
        BY <2>2
    <2>4. Promise!Fail(c) \/ Promise!Succeed(c)
        BY <1>6, <2>1, <2>2, <2>3, Answers DEF ReadLogs
    <2> QED
        BY <2>4 DEF Promise!Next
<1>7. CASE Reply(c)
    <2>1. c \in Promise!Open
        BY <1>7, OpenCalls DEF Reply
    <2>2. Shown' = [Shown EXCEPT ![c] = Promise!NoCall]
        BY <1>0, <1>7, IInvRecords
           DEF Reply, Shown, At, Idle, Answer, Untold, Unseen, Legacy, Promise!NoCall
    <2>3. UNCHANGED <<up, left>>
        BY <1>7 DEF Reply
    <2> QED
        BY <2>1, <2>2, <2>3 DEF Promise!Reply, Promise!Next, Shown
<1> QED
    BY <1>1, <1>2, <1>3, <1>4, <1>5, <1>6, <1>7 DEF Serve

\* So does a call that arrives.
LEMMA AskPromised ==
    ASSUME IInv, NEW c \in Callers, Ask(c)
    PROVE  Promise!Next
<1>1. PICK action \in Actions :
          call' = [call EXCEPT ![c] = [action |-> action, at |-> First(action)]]
    BY DEF Ask
<1>2. c \notin Promise!Open
    BY OpenCalls DEF Ask, Idle, At
<1>3. First(action) = "ok" => action \notin Effects
    BY FirstFits
<1>4. Answer(First(action)) = "success" => First(action) = "ok"
    BY DEF Answer
<1>5. Answer(First(action)) \in {"none", "success", "failure"}
    BY DEF Answer
<1>6. Shown' = [Shown EXCEPT ![c] = [action |-> action, answer |-> Answer(First(action))]]
    BY <1>1, IInvRecords DEF Shown, At, Ask, Answer, Untold, Unseen, Legacy
<1>7. Promise!Ask(c)
    BY <1>2, <1>3, <1>4, <1>5, <1>6 DEF Promise!Ask, Ask, Shown
<1> QED
    BY <1>7 DEF Promise!Next

\* And what happens around the calls.
LEMMA AroundPromised ==
    ASSUME IInv, Late \/ LateFails \/ ControllerStops \/ Dies \/ StartedByHand
    PROVE  Promise!Next
<1>0. left \subseteq Effects /\ up \in BOOLEAN
    BY DEF IInv, TypeOK
<1>1. ASSUME UNCHANGED <<call, kind>>,
             Promise!Change(UNION {Promise!Parts(e) : e \in left})
      PROVE  Promise!Late
    <2>1. Shown' = Shown
        BY <1>1, ShownStays
    <2>2. Shown = [c \in Callers |-> IF c \in {} THEN Promise!NoCall ELSE Shown[c]]
        BY DEF Shown
    <2>3. UNION {Promise!Parts(e) : e \in left}
             = UNION ({Promise!Parts(Shown[c].action) : c \in {}}
                      \cup {Promise!Parts(e) : e \in left})
        OBVIOUS
    <2>4. {} \in SUBSET Promise!Open
        OBVIOUS
    <2> QED
        BY <1>1, <2>1, <2>2, <2>3, <2>4, Zenon DEF Promise!Late, Shown
<1>2. CASE Late
    <2>1. PICK e \in left :
             /\ up' = (e = "start")
             /\ left' = (left \ {e}) \cup (IF e = "restart" THEN {"start"} ELSE {})
             /\ IF self /\ up /\ ~up' THEN Killed ELSE UNCHANGED call
             /\ UNCHANGED kind
        BY <1>2 DEF Late
    <2>2. Promise!Change(UNION {Promise!Parts(f) : f \in left})
        <3>1. e \in Promise!Parts(e) /\ (e = "restart" => Effects = Promise!Parts(e))
            BY <1>0
        <3>2. Promise!Parts(e) \subseteq UNION {Promise!Parts(f) : f \in left}
            BY Zenon
        <3> DEFINE parts == UNION {Promise!Parts(f) : f \in left}
        <3>3. e \in parts /\ (e = "restart" => Effects \subseteq parts)
            BY <3>1, <3>2, Zenon
        <3> HIDE DEF parts
        <3>4. up' \in {Promise!Goal(f) : f \in parts}
            BY <1>0, <2>1, <3>3
        <3>5. left' \subseteq left \cup parts
            BY <1>0, <2>1, <3>3
        <3> QED
            BY <3>4, <3>5 DEF parts
    <2>3. Promise!Change(Due)
        BY <1>0, <2>1, DueParts
    <2> QED
        BY <1>1, <2>1, <2>2, <2>3, EndsLate DEF Killed, Promise!Next
<1>3. CASE LateFails
    <2>1. UNCHANGED <<call, kind>> /\ up' = up /\ left' \subseteq left
        BY <1>3 DEF LateFails
    <2>2. Promise!Change(UNION {Promise!Parts(e) : e \in left})
        BY <1>0, <2>1
    <2> QED
        BY <1>1, <2>1, <2>2 DEF Promise!Next
<1>4. CASE ControllerStops
    <2>1. \A c \in Callers : At(c) \in Commands =>
             EffectOf(At(c)) \in Promise!Parts(call[c].action)
        BY IInvRecords DEF EffectOf, Commands, Fits, At
    <2>2. {EffectOf(At(c)) : c \in {d \in Callers : At(d) \in Commands}} \subseteq Due
        BY <2>1, DueParts DEF Commands
    <2>3. left \subseteq Due
        BY DueParts
    <2>4. left' \subseteq Due /\ up' = up
        BY <1>4, <2>2, <2>3 DEF ControllerStops
    <2>5. Promise!Change(Due)
        BY <2>4
    <2> QED
        BY <1>4, <2>5, EndsLate DEF ControllerStops, Promise!Next
<1>5. CASE Dies
    <2>1. Shown' = Shown
        BY <1>5, ShownStays DEF Dies
    <2> QED
        BY <1>5, <2>1 DEF Dies, Promise!Dies, Promise!Next, Shown
<1>6. CASE StartedByHand
    <2>1. Shown' = Shown
        BY <1>6, ShownStays DEF StartedByHand
    <2>2. Promise!Open = {}
        BY <1>6, OpenCalls DEF StartedByHand, IInv, SelfIsServing, Idle, At
    <2> QED
        BY <1>6, <2>1, <2>2 DEF StartedByHand, Promise!StartedByHand, Promise!Next, Shown
<1> QED
    BY <1>2, <1>3, <1>4, <1>5, <1>6

\* The interfaces keep the promise: a success was one when it was answered, unless
\* the answer does not depend on it, and the service comes up only where it was
\* asked to (both control_service, the website manager).
THEOREM ControlKeepsPromise == Spec => KeepsPromise
<1>1. Init => Promise!Init
    <2> SUFFICES ASSUME Init PROVE Promise!Init
        OBVIOUS
    <2>1. \A c \in Callers : Shown[c] = Promise!NoCall
        BY DEF Init, Shown, Promise!NoCall, Idle, At, Answer
    <2>2. Shown = [c \in Callers |-> Promise!NoCall]
        BY <2>1 DEF Shown
    <2>3. up \in BOOLEAN /\ left = {}
        BY DEF Init
    <2> QED
        BY <2>2, <2>3 DEF Promise!Init, Shown
<1>2. IInv /\ [Next]_vars => [Promise!Next]_(Promise!vars)
    <2> SUFFICES ASSUME IInv, [Next]_vars PROVE [Promise!Next]_(Promise!vars)
        OBVIOUS
    <2>1. CASE UNCHANGED vars
        BY <2>1, ShownStays DEF vars, Promise!vars, Shown
    <2>2. CASE Next
        BY <2>2, AskPromised, ServePromised, AroundPromised DEF Next
    <2> QED
        BY <2>1, <2>2
<1> QED
    BY <1>1, <1>2, IInvInit, IInvStep, PTL DEF Spec, KeepsPromise, Promise!Spec
=============================================================================
