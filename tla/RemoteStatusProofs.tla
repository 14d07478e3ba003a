------------------------- MODULE RemoteStatusProofs -------------------------
(***************************************************************************)
(* What the invalidation after a control call guarantees, for any number of*)
(* request threads and callers.                                            *)
(***************************************************************************)
EXTENDS RemoteStatus, TLAPS

\* Until the last caller has removed the batch every update is excused; then no
\* update holds an old view.
UpdatesAreMarked ==
    \A u \in Updaters :
        InUpdate(u) => IF Calling THEN thread[u].mark = "excused"
                                  ELSE thread[u].mark # "old"

\* An entry that is old, or may become old, and has no excuse, is still to be
\* invalidated by some caller.
Guarded(entry, steps) ==
    /\ entry # Nothing /\ entry.mark # "excused"
    /\ Calling \/ entry.mark = "old"
    => \E c \in Callers : caller[c] \in steps

ToPop == {"wait", "pop"}
ToClear == {"wait", "pop", "clear"}

IInv == /\ TypeOK
        /\ UpdatesAreMarked
        /\ Guarded(batch, ToPop) /\ Guarded(page, ToClear)
        /\ EmptyIsExcused

-----------------------------------------------------------------------------
USE DEF Updaters, Nothing, Marks, InUpdate

Threads == [Updaters -> Positions]

\* An updater may move to another step with another answer.
LEMMA PositionTypes ==
    ASSUME NEW p \in Positions
    PROVE  /\ \A pc \in {"idle", "reply", "batch", "port", "other"} :
                 [p EXCEPT !.pc = pc] \in Positions
           /\ \A got \in {"none", "on", "off"} :
                 [p EXCEPT !.pc = "query", !.got = got] \in Positions
           /\ [p EXCEPT !.mark = "excused"] \in Positions
           /\ AtRest("pause") \in Positions /\ AtRest("reply") \in Positions
BY DEF Positions, AtRest

\* The operators that move one updater keep the shape of its position.
LEMMA MoveTypes ==
    ASSUME thread \in Threads, NEW u \in Updaters
    PROVE  /\ \A pc \in {"idle", "reply", "batch", "port", "other"} :
                 Goto(u, pc) => thread' \in Threads
           /\ EndUpdate(u) => thread' \in Threads
           /\ StartUpdate(u) => thread' \in Threads
           /\ \A view \in BOOLEAN, mark \in Marks, next \in {"uptime", "other"} :
                 Show(u, view, mark, next) => thread' \in Threads
<1> USE DEF Threads
<1>0. thread[u] \in Positions
    OBVIOUS
<1>1. ASSUME NEW pc \in {"idle", "reply", "batch", "port", "other"}, Goto(u, pc)
      PROVE  thread' \in Threads
    <2>1. [thread[u] EXCEPT !.pc = pc] \in Positions
        BY <1>0, PositionTypes
    <2> QED
        BY <1>1, <2>1 DEF Goto
<1>2. ASSUME EndUpdate(u) PROVE thread' \in Threads
    <2>1. AtRest(IF u = Background THEN "pause" ELSE "reply") \in Positions
        BY DEF AtRest, Positions
    <2> QED
        BY <1>2, <2>1 DEF EndUpdate
<1>3. ASSUME StartUpdate(u) PROVE thread' \in Threads
    <2>1. \A mark \in Marks :
             [pc |-> "reach", got |-> "none", shown |-> FALSE, mark |-> mark] \in Positions
        BY DEF Positions
    <2>2. (IF Calling THEN "excused" ELSE "new") \in Marks
        OBVIOUS
    <2> QED
        BY <1>3, <2>1, <2>2 DEF StartUpdate
<1>4. ASSUME NEW view \in BOOLEAN, NEW mark \in Marks,
             NEW next \in {"uptime", "other"}, Show(u, view, mark, next)
      PROVE  thread' \in Threads
    BY <1>4 DEF Show, Positions
<1> QED
    BY <1>1, <1>2, <1>3, <1>4

\* What is made of a batch keeps the shape too.
LEMMA UseTypes ==
    ASSUME TypeOK, NEW u \in Updaters, NEW status \in {"none", "on", "off"},
           NEW mark \in Marks, Use(u, status, mark)
    PROVE  thread' \in Threads
<1>1. CASE \E pc \in {"port", "other"} : Goto(u, pc)
    BY <1>1, MoveTypes DEF TypeOK, Threads
<1>2. CASE Show(u, status = "on", mark, "uptime")
    <2>1. PICK view \in BOOLEAN : Show(u, view, mark, "uptime")
        BY <1>2
    <2> QED
        BY <2>1, MoveTypes DEF TypeOK, Threads
<1> QED
    BY <1>1, <1>2 DEF Use

\* The state has its shape at first.
LEMMA TypeInit == Init => TypeOK
BY RemoteAssumption DEF Init, TypeOK, AtRest, Positions

\* Every step keeps the shape.
LEMMA TypeStep == TypeOK /\ [Next]_vars => TypeOK'
<1> SUFFICES ASSUME TypeOK, [Next]_vars PROVE TypeOK'
    OBVIOUS
<1> USE RemoteAssumption
<1>0. thread \in Threads
    BY DEF TypeOK, Threads
<1>1. ASSUME NEW u \in Updaters, UpdateFails(u) PROVE TypeOK'
    <2>1. thread' \in Threads
        BY <1>0, <1>1, MoveTypes DEF UpdateFails
    <2> QED
        BY <1>1, <2>1 DEF UpdateFails, TypeOK, service, caches, Threads
<1>2. ASSUME NEW u \in Updaters, CheckReach(u) PROVE TypeOK'
    <2>1. thread' \in Threads
        BY <1>0, <1>2, MoveTypes DEF CheckReach
    <2> QED
        BY <1>2, <2>1 DEF CheckReach, Reach, TypeOK, service, Threads
<1>3. ASSUME NEW u \in Updaters, BatchCached(u) PROVE TypeOK'
    <2>1. thread' \in Threads
        BY <1>3, UseTypes DEF BatchCached, TypeOK
    <2> QED
        BY <1>3, <2>1 DEF BatchCached, TypeOK, service, caches, Threads
<1>4. ASSUME NEW u \in Updaters, QueryBatch(u) PROVE TypeOK'
    <2>1. PICK answer \in {"none", "on", "off"} :
             thread' = [thread EXCEPT ![u] = [@ EXCEPT !.pc = "query", !.got = answer]]
        BY <1>4 DEF QueryBatch, Answers
    <2>2. [thread[u] EXCEPT !.pc = "query", !.got = answer] \in Positions
        BY <1>0, PositionTypes DEF Threads
    <2>3. thread' \in Threads
        BY <1>0, <2>1, <2>2 DEF Threads
    <2> QED
        BY <1>4, <2>3 DEF QueryBatch, TypeOK, service, caches, Threads
<1>5. ASSUME NEW u \in Updaters, StoreBatch(u) PROVE TypeOK'
    <2>1. thread[u].got \in {"none", "on", "off"}
        BY <1>0 DEF Threads, Positions
    <2>2. thread' \in Threads
        BY <1>5, <2>1, UseTypes DEF StoreBatch
    <2> QED
        BY <1>5, <2>1, <2>2 DEF StoreBatch, Entry, TypeOK, service, Threads
<1>51. ASSUME NEW u \in Updaters, RefreshBatch(u) PROVE TypeOK'
    <2>1. thread' \in Threads
        BY <1>0, <1>51, MoveTypes DEF RefreshBatch
    <2>2. batch' \in [status : {"none", "on", "off"}, mark : Marks]
        BY <1>51 DEF RefreshBatch, Answers, Entry
    <2> QED
        BY <1>51, <2>1, <2>2 DEF RefreshBatch, TypeOK, service, Threads
<1>52. ASSUME NEW u \in Updaters, LookAtPort(u) \/ PortTimesOut(u) PROVE TypeOK'
    <2>1. PICK view \in BOOLEAN, mark \in Marks, next \in {"uptime", "other"} :
             Show(u, view, mark, next)
        BY <1>52 DEF LookAtPort, PortTimesOut, AfterStatus, TypeOK
    <2>2. thread' \in Threads
        BY <1>0, <2>1, MoveTypes
    <2> QED
        BY <1>52, <2>2 DEF LookAtPort, PortTimesOut, TypeOK, service, caches, Threads
<1>6. ASSUME NEW u \in Updaters, Publish(u) PROVE TypeOK'
    <2>1. thread[u].shown \in BOOLEAN /\ thread[u].mark \in Marks
        BY <1>0 DEF Threads, Positions
    <2>2. thread' \in Threads
        BY <1>0, <1>6, MoveTypes DEF Publish
    <2> QED
        BY <1>6, <2>1, <2>2 DEF Publish, Reach, TypeOK, service, Threads
<1>7. CASE Wake
    <2>1. thread' \in Threads
        BY <1>0, <1>7, MoveTypes DEF Wake
    <2> QED
        BY <1>7, <2>1 DEF Wake, TypeOK, service, caches, Threads
<1>8. ASSUME NEW r \in Readers, ReadStatus(r) PROVE TypeOK'
    <2>1. thread' \in Threads
        BY <1>0, <1>8, MoveTypes DEF ReadStatus
    <2> QED
        BY <1>8, <2>1 DEF ReadStatus, TypeOK, service, caches, Threads
<1>9. ASSUME NEW r \in Readers, Reply(r) PROVE TypeOK'
    <2>1. thread' \in Threads
        BY <1>0, <1>9, MoveTypes DEF Reply
    <2> QED
        BY <1>9, <2>1 DEF Reply, TypeOK, service, caches, Threads
<1>10. ASSUME NEW c \in Callers, Call(c) PROVE TypeOK'
    <2>1. thread' \in Threads
        BY <1>0, <1>10 DEF Call, Threads, Positions
    <2> QED
        BY <1>10, <2>1 DEF Call, TypeOK, caches, Threads
<1>11. ASSUME NEW c \in Callers, Done(c) PROVE TypeOK'
    BY <1>11 DEF Done, TypeOK, caches
<1>12. ASSUME NEW mark \in Marks, Mark(mark)
       PROVE  /\ (batch = Nothing \/ batch \in [status : {"none", "on", "off"}, mark : Marks])'
              /\ (page = Nothing \/ page \in [view : BOOLEAN, mark : Marks])'
    BY <1>12 DEF Mark, Marked, TypeOK
<1>13. ASSUME NEW c \in Callers, GiveUp(c) PROVE TypeOK'
    BY <1>12, <1>13 DEF GiveUp, TypeOK, service
<1>14. CASE Work
    BY <1>12, <1>14 DEF Work, TypeOK
<1>15. ASSUME NEW c \in Callers, PopBatch(c) \/ ClearPage(c) PROVE TypeOK'
    BY <1>15 DEF PopBatch, ClearPage, TypeOK, service
<1>16. CASE MachineFails \/ NetworkFails \/ Recovers \/ ServiceDies
    BY <1>16 DEF MachineFails, NetworkFails, Recovers, ServiceDies, TypeOK, caches
<1>17. CASE ReachExpires \/ BatchExpires \/ UNCHANGED vars
    BY <1>17 DEF ReachExpires, BatchExpires, TypeOK, vars, service, caches
<1> QED
    BY <1>1, <1>2, <1>3, <1>4, <1>5, <1>51, <1>52, <1>6, <1>7, <1>8, <1>9, <1>10, <1>11,
       <1>13, <1>14, <1>15, <1>16, <1>17 DEF Next, Update, Serve

\* A step of one updater leaves the others where they are.
Others(u) == \A v \in Updaters \ {u} : thread'[v] = thread[v]

\* Where each operator moves its updater, and with which mark.
LEMMA Moves ==
    ASSUME TypeOK, NEW u \in Updaters
    PROVE  /\ \A pc : Goto(u, pc) => /\ Others(u) /\ thread'[u].pc = pc
                                     /\ thread'[u].mark = thread[u].mark
           /\ EndUpdate(u) => /\ Others(u)
                              /\ thread'[u].pc = IF u = Background THEN "pause" ELSE "reply"
           /\ StartUpdate(u) => /\ Others(u) /\ thread'[u].pc = "reach"
                                /\ thread'[u].mark = IF Calling THEN "excused" ELSE "new"
           /\ \A view, mark, next :
                 Show(u, view, mark, next) =>
                    /\ Others(u) /\ thread'[u].pc = next
                    /\ thread'[u].mark = IF thread[u].mark = "excused" THEN "excused" ELSE mark
<1> USE DEF TypeOK, Others
<1>1. ASSUME NEW pc, Goto(u, pc)
      PROVE  Others(u) /\ thread'[u].pc = pc /\ thread'[u].mark = thread[u].mark
    <2>1. thread[u] \in Positions
        OBVIOUS
    <2>2. thread'[u] = [thread[u] EXCEPT !.pc = pc]
        BY <1>1 DEF Goto
    <2>3. thread'[u].pc = pc /\ thread'[u].mark = thread[u].mark
        BY <2>1, <2>2 DEF Positions
    <2> QED
        BY <1>1, <2>3 DEF Goto
<1>2. ASSUME EndUpdate(u)
      PROVE  Others(u) /\ thread'[u].pc = IF u = Background THEN "pause" ELSE "reply"
    BY <1>2 DEF EndUpdate, AtRest
<1>3. ASSUME StartUpdate(u)
      PROVE  /\ Others(u) /\ thread'[u].pc = "reach"
             /\ thread'[u].mark = IF Calling THEN "excused" ELSE "new"
    BY <1>3 DEF StartUpdate
<1>4. ASSUME NEW view, NEW mark, NEW next, Show(u, view, mark, next)
      PROVE  /\ Others(u) /\ thread'[u].pc = next
             /\ thread'[u].mark = IF thread[u].mark = "excused" THEN "excused" ELSE mark
    BY <1>4 DEF Show
<1> QED
    BY <1>1, <1>2, <1>3, <1>4

\* The same for what is made of a batch.
LEMMA UseMoves ==
    ASSUME TypeOK, NEW u \in Updaters, NEW status, NEW mark, Use(u, status, mark)
    PROVE  /\ Others(u) /\ thread'[u].pc \in {"port", "uptime", "other"}
           /\ thread[u].mark = "excused" => thread'[u].mark = "excused"
           /\ thread[u].mark # "old" /\ mark # "old" => thread'[u].mark # "old"
<1>1. ASSUME NEW pc \in {"port", "other"}, Goto(u, pc)
      PROVE  /\ Others(u) /\ thread'[u].pc = pc
             /\ thread'[u].mark = thread[u].mark
    BY <1>1, Moves
<1>2. ASSUME Show(u, status = "on", mark, "uptime")
      PROVE  /\ Others(u) /\ thread'[u].pc = "uptime"
             /\ thread'[u].mark = IF thread[u].mark = "excused" THEN "excused" ELSE mark
    BY <1>2, Moves
<1> QED
    BY <1>1, <1>2 DEF Use

\* It keeps what the invariant says of updaters if its own position does.
LEMMA OneUpdaterMarked ==
    ASSUME UpdatesAreMarked, NEW u \in Updaters, Others(u), UNCHANGED <<job, caller>>,
           InUpdate(u)' => IF Calling THEN thread'[u].mark = "excused"
                                      ELSE thread'[u].mark # "old"
    PROVE  UpdatesAreMarked'
BY DEF UpdatesAreMarked, Others, Calling

\* The same for what it says of requests about to answer.
LEMMA OneUpdaterReplies ==
    ASSUME EmptyIsExcused, NEW u \in Updaters, Others(u),
           page' # Nothing \/ UNCHANGED page,
           \A r \in Readers \ {u} : excuse'[r] = excuse[r],
           u \in Readers /\ thread'[u].pc = "reply" /\ page' = Nothing => excuse'[u]
    PROVE  EmptyIsExcused'
BY DEF EmptyIsExcused, Others

\* The invariant holds at first.
LEMMA InvInit == Init => IInv
<1> SUFFICES ASSUME Init PROVE IInv
    OBVIOUS
<1>1. \A u \in Updaters : thread[u].pc \in {"pause", "idle"}
    BY DEF Init, AtRest
<1>2. UpdatesAreMarked /\ EmptyIsExcused
    BY <1>1, RemoteAssumption DEF UpdatesAreMarked, EmptyIsExcused
<1> QED
    BY <1>2, TypeInit DEF Init, IInv, Guarded

\* Every step keeps the invariant.
LEMMA InvStep == IInv /\ [Next]_vars => IInv'
<1> SUFFICES ASSUME IInv, [Next]_vars PROVE IInv'
    OBVIOUS
<1> USE RemoteAssumption
<1> DEFINE Rest == /\ UpdatesAreMarked
                   /\ Guarded(batch, ToPop) /\ Guarded(page, ToClear)
                   /\ EmptyIsExcused
<1>0. TypeOK /\ TypeOK' /\ Rest
    BY TypeStep DEF IInv
<1>1. ASSUME NEW u \in Updaters, UpdateFails(u) PROVE Rest'
    <2>1. /\ Others(u)
          /\ InUpdate(u)' => IF Calling THEN thread'[u].mark = "excused"
                                        ELSE thread'[u].mark # "old"
        BY <1>0, <1>1, Moves, UseMoves
           DEF UpdatesAreMarked, Guarded, ToPop, Calling, UpdateFails
    <2>2. UpdatesAreMarked'
        BY <1>0, <1>1, <2>1, OneUpdaterMarked DEF UpdateFails, service, caches
    <2>3. (Guarded(batch, ToPop) /\ Guarded(page, ToClear))'
        BY <1>0, <1>1
           DEF UpdatesAreMarked, Guarded, ToPop, ToClear, Calling, UpdateFails, service, caches
    <2>4. /\ \A r \in Readers \ {u} : excuse'[r] = excuse[r]
          /\ u \in Readers => excuse'[u]
        BY <1>0, <1>1 DEF UpdateFails, TypeOK
    <2>5. EmptyIsExcused'
        BY <1>0, <1>1, <2>1, <2>4, OneUpdaterReplies DEF UpdateFails, caches
    <2> QED
        BY <2>2, <2>3, <2>5
<1>2. ASSUME NEW u \in Updaters, CheckReach(u) PROVE Rest'
    <2>1. /\ Others(u)
          /\ InUpdate(u)' => IF Calling THEN thread'[u].mark = "excused"
                                        ELSE thread'[u].mark # "old"
        <3>1. thread[u].pc = "reach" /\ InUpdate(u)
            BY <1>2 DEF CheckReach
        <3>2. CASE reach' = "yes"
            BY <1>0, <1>2, <3>1, <3>2, Moves DEF CheckReach, UpdatesAreMarked
        <3>3. CASE reach' # "yes"
            <4>1. Show(u, FALSE, "excused", "other")
                BY <1>2, <3>3 DEF CheckReach
            <4> QED
                BY <1>0, <4>1 DEF Show, TypeOK, Others
        <3> QED
            BY <3>2, <3>3
    <2>2. UpdatesAreMarked'
        BY <1>0, <1>2, <2>1, OneUpdaterMarked DEF CheckReach, service
    <2>3. (Guarded(batch, ToPop) /\ Guarded(page, ToClear))'
        BY <1>0, <1>2 DEF UpdatesAreMarked, Guarded, ToPop, ToClear, Calling, CheckReach, service
    <2>4. thread'[u].pc # "reply"
        <3>1. \/ Goto(u, "batch")
              \/ Show(u, FALSE, "excused", "other")
            BY <1>2 DEF CheckReach
        <3> QED
            BY <1>0, <3>1, Moves DEF Show, TypeOK
    <2>5. EmptyIsExcused'
        BY <1>0, <1>2, <2>1, <2>4, OneUpdaterReplies DEF CheckReach
    <2> QED
        BY <2>2, <2>3, <2>5
<1>3. ASSUME NEW u \in Updaters, BatchCached(u) PROVE Rest'
    <2>1. /\ Others(u)
          /\ InUpdate(u)' => IF Calling THEN thread'[u].mark = "excused"
                                        ELSE thread'[u].mark # "old"
        BY <1>0, <1>3, Moves, UseMoves
           DEF UpdatesAreMarked, Guarded, ToPop, Calling, BatchCached
    <2>2. UpdatesAreMarked'
        BY <1>0, <1>3, <2>1, OneUpdaterMarked DEF BatchCached, service, caches
    <2>3. (Guarded(batch, ToPop) /\ Guarded(page, ToClear))'
        BY <1>0, <1>3
           DEF UpdatesAreMarked, Guarded, ToPop, ToClear, Calling, BatchCached, service, caches
    <2>4. EmptyIsExcused'
        BY <1>0, <1>3, <2>1, Moves, UseMoves, OneUpdaterReplies
           DEF BatchCached, service, caches, TypeOK
    <2> QED
        BY <2>2, <2>3, <2>4
<1>4. ASSUME NEW u \in Updaters, QueryBatch(u) PROVE Rest'
    <2>1. /\ Others(u)
          /\ InUpdate(u)' => IF Calling THEN thread'[u].mark = "excused"
                                        ELSE thread'[u].mark # "old"
        <3>1. thread[u] \in Positions /\ InUpdate(u)
            BY <1>0, <1>4 DEF QueryBatch, TypeOK
        <3>2. Others(u) /\ thread'[u].mark = thread[u].mark
            BY <1>0, <1>4, <3>1 DEF QueryBatch, TypeOK, Positions, Others
        <3> QED
            BY <1>0, <3>1, <3>2 DEF UpdatesAreMarked
    <2>2. UpdatesAreMarked'
        BY <1>0, <1>4, <2>1, OneUpdaterMarked DEF QueryBatch, service, caches
    <2>3. (Guarded(batch, ToPop) /\ Guarded(page, ToClear))'
        BY <1>0, <1>4
           DEF UpdatesAreMarked, Guarded, ToPop, ToClear, Calling, QueryBatch, service, caches
    <2>4. thread'[u].pc # "reply"
        <3>1. thread'[u].pc = "query"
            <4>1. thread[u] \in Positions
                BY <1>0 DEF TypeOK
            <4> QED
                BY <1>0, <1>4, <4>1 DEF QueryBatch, TypeOK, Positions
        <3> QED
            BY <3>1
    <2>5. EmptyIsExcused'
        BY <1>0, <1>4, <2>1, <2>4, OneUpdaterReplies DEF QueryBatch, caches
    <2> QED
        BY <2>2, <2>3, <2>5
<1>5. ASSUME NEW u \in Updaters, StoreBatch(u) PROVE Rest'
    <2>1. /\ Others(u)
          /\ InUpdate(u)' => IF Calling THEN thread'[u].mark = "excused"
                                        ELSE thread'[u].mark # "old"
        <3>1. InUpdate(u) /\ Use(u, thread[u].got, "new")
            BY <1>5 DEF StoreBatch
        <3> QED
            BY <1>0, <3>1, UseMoves DEF UpdatesAreMarked
    <2>2. UpdatesAreMarked'
        BY <1>0, <1>5, <2>1, OneUpdaterMarked DEF StoreBatch, service
    <2>3. (Guarded(batch, ToPop) /\ Guarded(page, ToClear))'
        BY <1>0, <1>5
           DEF UpdatesAreMarked, Guarded, ToPop, ToClear, Calling, StoreBatch, Entry, service
    <2>4. EmptyIsExcused'
        BY <1>0, <1>5, <2>1, Moves, UseMoves, OneUpdaterReplies
           DEF StoreBatch, service, TypeOK
    <2> QED
        BY <2>2, <2>3, <2>4
<1>51. ASSUME NEW u \in Updaters, RefreshBatch(u) PROVE Rest'
    <2>1. Goto(u, "other") /\ InUpdate(u)
        BY <1>51 DEF RefreshBatch
    <2>2. Others(u) /\ thread'[u].pc = "other" /\ thread'[u].mark = thread[u].mark
        BY <1>0, <2>1, Moves
    <2>3. UpdatesAreMarked'
        BY <1>0, <1>51, <2>1, <2>2, OneUpdaterMarked DEF UpdatesAreMarked, RefreshBatch, service
    <2>4. (Guarded(batch, ToPop) /\ Guarded(page, ToClear))'
        BY <1>0, <1>51, <2>1
           DEF UpdatesAreMarked, Guarded, ToPop, ToClear, Calling, RefreshBatch, Entry, service
    <2>5. EmptyIsExcused'
        BY <1>0, <1>51, <2>2, OneUpdaterReplies DEF RefreshBatch
    <2> QED
        BY <2>3, <2>4, <2>5
<1>52. ASSUME NEW u \in Updaters, LookAtPort(u) \/ PortTimesOut(u) PROVE Rest'
    <2>1. PICK view \in BOOLEAN, mark \in {"new", "excused"}, next \in {"uptime", "other"} :
             Show(u, view, mark, next)
        BY <1>0, <1>52 DEF LookAtPort, PortTimesOut, AfterStatus, TypeOK
    <2>2. /\ Others(u) /\ thread'[u].pc = next
          /\ thread'[u].mark = IF thread[u].mark = "excused" THEN "excused" ELSE mark
        BY <1>0, <2>1, Moves
    <2>0. InUpdate(u)
        BY <1>52 DEF LookAtPort, PortTimesOut
    <2>3. UpdatesAreMarked'
        BY <1>0, <1>52, <2>0, <2>2, OneUpdaterMarked
           DEF UpdatesAreMarked, LookAtPort, PortTimesOut, service
    <2>4. (Guarded(batch, ToPop) /\ Guarded(page, ToClear))'
        BY <1>0, <1>52
           DEF Guarded, ToPop, ToClear, Calling, LookAtPort, PortTimesOut, service, caches
    <2>5. EmptyIsExcused'
        BY <1>0, <1>52, <2>2, OneUpdaterReplies DEF LookAtPort, PortTimesOut, caches
    <2> QED
        BY <2>3, <2>4, <2>5
<1>6. ASSUME NEW u \in Updaters, Publish(u) PROVE Rest'
    <2>1. /\ Others(u)
          /\ InUpdate(u)' => IF Calling THEN thread'[u].mark = "excused"
                                        ELSE thread'[u].mark # "old"
        BY <1>0, <1>6, Moves, UseMoves
           DEF UpdatesAreMarked, Guarded, ToPop, Calling, Publish
    <2>2. UpdatesAreMarked'
        BY <1>0, <1>6, <2>1, OneUpdaterMarked DEF Publish, service
    <2>3. (Guarded(batch, ToPop) /\ Guarded(page, ToClear))'
        BY <1>0, <1>6 DEF UpdatesAreMarked, Guarded, ToPop, ToClear, Calling, Publish, service
    <2>4. EmptyIsExcused'
        BY <1>0, <1>6, <2>1, Moves, UseMoves, OneUpdaterReplies
           DEF Publish, service, TypeOK
    <2> QED
        BY <2>2, <2>3, <2>4
<1>7. ASSUME Wake PROVE Rest'
    <2>1. /\ Others(Background)
          /\ InUpdate(Background)' => IF Calling THEN thread'[Background].mark = "excused"
                                        ELSE thread'[Background].mark # "old"
        BY <1>0, <1>7, Moves, UseMoves
           DEF UpdatesAreMarked, Guarded, ToPop, Calling, Wake
    <2>2. UpdatesAreMarked'
        BY <1>0, <1>7, <2>1, OneUpdaterMarked DEF Wake, service, caches
    <2>3. (Guarded(batch, ToPop) /\ Guarded(page, ToClear))'
        BY <1>0, <1>7 DEF UpdatesAreMarked, Guarded, ToPop, ToClear, Calling, Wake, service, caches
    <2>4. EmptyIsExcused'
        BY <1>0, <1>7, <2>1, Moves, UseMoves, OneUpdaterReplies
           DEF Wake, service, caches, TypeOK
    <2> QED
        BY <2>2, <2>3, <2>4
<1>8. ASSUME NEW r \in Readers, ReadStatus(r) PROVE Rest'
    <2>1. /\ Others(r)
          /\ InUpdate(r)' => IF Calling THEN thread'[r].mark = "excused"
                                        ELSE thread'[r].mark # "old"
        BY <1>0, <1>8, Moves, UseMoves
           DEF UpdatesAreMarked, Guarded, ToPop, Calling, ReadStatus
    <2>2. UpdatesAreMarked'
        BY <1>0, <1>8, <2>1, OneUpdaterMarked DEF ReadStatus, service, caches
    <2>3. (Guarded(batch, ToPop) /\ Guarded(page, ToClear))'
        BY <1>0, <1>8
           DEF UpdatesAreMarked, Guarded, ToPop, ToClear, Calling, ReadStatus, service, caches
    <2>4. EmptyIsExcused'
        BY <1>0, <1>8, <2>1, Moves, UseMoves, OneUpdaterReplies
           DEF ReadStatus, service, caches, TypeOK
    <2> QED
        BY <2>2, <2>3, <2>4
<1>9. ASSUME NEW r \in Readers, Reply(r) PROVE Rest'
    <2>1. /\ Others(r)
          /\ InUpdate(r)' => IF Calling THEN thread'[r].mark = "excused"
                                        ELSE thread'[r].mark # "old"
        BY <1>0, <1>9, Moves, UseMoves
           DEF UpdatesAreMarked, Guarded, ToPop, Calling, Reply
    <2>2. UpdatesAreMarked'
        BY <1>0, <1>9, <2>1, OneUpdaterMarked DEF Reply, service, caches
    <2>3. (Guarded(batch, ToPop) /\ Guarded(page, ToClear))'
        BY <1>0, <1>9 DEF UpdatesAreMarked, Guarded, ToPop, ToClear, Calling, Reply, service, caches
    <2>4. thread'[r].pc = "idle"
        BY <1>0, <1>9, Moves DEF Reply
    <2>5. \A x \in Readers \ {r} : excuse'[x] = excuse[x]
        BY <1>0, <1>9 DEF Reply, TypeOK
    <2>6. EmptyIsExcused'
        BY <1>0, <1>9, <2>1, <2>4, <2>5, OneUpdaterReplies DEF Reply, caches
    <2> QED
        BY <2>2, <2>3, <2>6
<1>10. ASSUME NEW c \in Callers, Call(c) PROVE Rest'
    <2>1. \A u \in Updaters : /\ thread[u] \in Positions
                              /\ thread'[u].pc = thread[u].pc
                              /\ InUpdate(u) => thread'[u].mark = "excused"
        <3> SUFFICES ASSUME NEW u \in Updaters
                     PROVE  /\ thread[u] \in Positions
                            /\ thread'[u].pc = thread[u].pc
                            /\ InUpdate(u) => thread'[u].mark = "excused"
            OBVIOUS
        <3>1. thread[u] \in Positions
            BY <1>0 DEF TypeOK
        <3>2. thread'[u] = IF InUpdate(u) THEN [thread[u] EXCEPT !.mark = "excused"]
                                          ELSE thread[u]
            BY <1>10 DEF Call
        <3> QED
            BY <3>1, <3>2 DEF Positions
    <2>2. caller'[c] \in ToPop /\ Calling'
        BY <1>0, <1>10 DEF Call, TypeOK, ToPop, Calling
    <2>3. UpdatesAreMarked'
        <3>1. ASSUME NEW u \in Updaters, thread'[u].pc \notin {"pause", "idle", "reply"}
              PROVE  thread'[u].mark = "excused"
            <4>1. thread'[u].pc = thread[u].pc
                BY <2>1
            <4>2. InUpdate(u)
                BY <3>1, <4>1
            <4> QED
                BY <2>1, <4>2
        <3> QED
            BY <2>2, <3>1 DEF UpdatesAreMarked
    <2>4. (Guarded(batch, ToPop) /\ Guarded(page, ToClear))'
        BY <2>2 DEF Guarded, ToPop, ToClear
    <2>5. EmptyIsExcused'
        BY <1>0, <1>10, <2>1 DEF Call, caches, EmptyIsExcused
    <2> QED
        BY <2>3, <2>4, <2>5
<1>11. ASSUME NEW c \in Callers, Done(c) PROVE Rest'
    <2>1. UpdatesAreMarked'
        BY <1>0, <1>11
           DEF UpdatesAreMarked, Guarded, ToPop, TypeOK, Positions, Calling, Done, caches
    <2>2. Guarded(batch, ToPop)'
        BY <1>0, <1>11
           DEF UpdatesAreMarked, Guarded, ToPop, TypeOK, Positions, Calling, Done, caches
    <2>3. Guarded(page, ToClear)'
        BY <1>0, <1>11
           DEF UpdatesAreMarked, Guarded, ToClear, TypeOK, Positions, Calling, Done, caches
    <2>4. EmptyIsExcused'
        BY <1>0, <1>11 DEF EmptyIsExcused, TypeOK, Positions, Done, caches
    <2> QED
        BY <2>1, <2>2, <2>3, <2>4
<1>12. ASSUME NEW c \in Callers, GiveUp(c) PROVE Rest'
    <2>1. UpdatesAreMarked'
        BY <1>0, <1>12
           DEF UpdatesAreMarked, Guarded, ToPop, TypeOK, Positions, Calling, GiveUp, Mark,
               Marked, service
    <2>2. Guarded(batch, ToPop)'
        BY <1>0, <1>12
           DEF UpdatesAreMarked, Guarded, ToPop, TypeOK, Positions, Calling, GiveUp, Mark,
               Marked, service
    <2>3. Guarded(page, ToClear)'
        BY <1>0, <1>12
           DEF UpdatesAreMarked, Guarded, ToClear, TypeOK, Positions, Calling, GiveUp, Mark,
               Marked, service
    <2>4. EmptyIsExcused'
        BY <1>0, <1>12 DEF EmptyIsExcused, TypeOK, Positions, GiveUp, Mark, Marked, service
    <2> QED
        BY <2>1, <2>2, <2>3, <2>4
<1>13. ASSUME Work PROVE Rest'
    <2>1. UpdatesAreMarked'
        BY <1>0, <1>13
           DEF UpdatesAreMarked, Guarded, ToPop, TypeOK, Positions, Calling, Work, Mark, Marked
    <2>2. Guarded(batch, ToPop)'
        BY <1>0, <1>13
           DEF UpdatesAreMarked, Guarded, ToPop, TypeOK, Positions, Calling, Work, Mark, Marked
    <2>3. Guarded(page, ToClear)'
        BY <1>0, <1>13
           DEF UpdatesAreMarked, Guarded, ToClear, TypeOK, Positions, Calling, Work, Mark,
               Marked
    <2>4. EmptyIsExcused'
        BY <1>0, <1>13 DEF EmptyIsExcused, TypeOK, Positions, Work, Mark, Marked
    <2> QED
        BY <2>1, <2>2, <2>3, <2>4
<1>14. ASSUME NEW c \in Callers, PopBatch(c) PROVE Rest'
    <2>1. UpdatesAreMarked'
        BY <1>0, <1>14
           DEF UpdatesAreMarked, Guarded, ToPop, TypeOK, Positions, Calling, PopBatch, service
    <2>2. Guarded(batch, ToPop)'
        BY <1>0, <1>14
           DEF UpdatesAreMarked, Guarded, ToPop, TypeOK, Positions, Calling, PopBatch, service
    <2>3. Guarded(page, ToClear)'
        BY <1>0, <1>14
           DEF UpdatesAreMarked, Guarded, ToClear, TypeOK, Positions, Calling, PopBatch, service
    <2>4. EmptyIsExcused'
        BY <1>0, <1>14 DEF EmptyIsExcused, TypeOK, Positions, PopBatch, service
    <2> QED
        BY <2>1, <2>2, <2>3, <2>4
<1>15. ASSUME NEW c \in Callers, ClearPage(c) PROVE Rest'
    <2>1. UpdatesAreMarked'
        BY <1>0, <1>15
           DEF UpdatesAreMarked, Guarded, ToPop, TypeOK, Positions, Calling, ClearPage, service
    <2>2. Guarded(batch, ToPop)'
        BY <1>0, <1>15
           DEF UpdatesAreMarked, Guarded, ToPop, TypeOK, Positions, Calling, ClearPage, service
    <2>3. Guarded(page, ToClear)'
        BY <1>0, <1>15
           DEF UpdatesAreMarked, Guarded, ToClear, TypeOK, Positions, Calling, ClearPage,
               service
    <2>4. EmptyIsExcused'
        BY <1>0, <1>15 DEF EmptyIsExcused, TypeOK, Positions, ClearPage, service
    <2> QED
        BY <2>1, <2>2, <2>3, <2>4
<1>16. ASSUME MachineFails PROVE Rest'
    <2>1. UpdatesAreMarked'
        BY <1>0, <1>16
           DEF UpdatesAreMarked, Guarded, ToPop, TypeOK, Positions, Calling, MachineFails,
               caches
    <2>2. Guarded(batch, ToPop)'
        BY <1>0, <1>16
           DEF UpdatesAreMarked, Guarded, ToPop, TypeOK, Positions, Calling, MachineFails,
               caches
    <2>3. Guarded(page, ToClear)'
        BY <1>0, <1>16
           DEF UpdatesAreMarked, Guarded, ToClear, TypeOK, Positions, Calling, MachineFails,
               caches
    <2>4. EmptyIsExcused'
        BY <1>0, <1>16 DEF EmptyIsExcused, TypeOK, Positions, MachineFails, caches
    <2> QED
        BY <2>1, <2>2, <2>3, <2>4
<1>17. ASSUME NetworkFails \/ Recovers \/ ServiceDies PROVE Rest'
    <2>1. UpdatesAreMarked'
        BY <1>0, <1>17
           DEF UpdatesAreMarked, Guarded, ToPop, TypeOK, Positions, Calling, NetworkFails,
               Recovers, ServiceDies, caches
    <2>2. Guarded(batch, ToPop)'
        BY <1>0, <1>17
           DEF UpdatesAreMarked, Guarded, ToPop, TypeOK, Positions, Calling, NetworkFails,
               Recovers, ServiceDies, caches
    <2>3. Guarded(page, ToClear)'
        BY <1>0, <1>17
           DEF UpdatesAreMarked, Guarded, ToClear, TypeOK, Positions, Calling, NetworkFails,
               Recovers, ServiceDies, caches
    <2>4. EmptyIsExcused'
        BY <1>0, <1>17
           DEF EmptyIsExcused, TypeOK, Positions, NetworkFails, Recovers, ServiceDies, caches
    <2> QED
        BY <2>1, <2>2, <2>3, <2>4
<1>18. ASSUME ReachExpires \/ BatchExpires PROVE Rest'
    <2>1. UpdatesAreMarked'
        BY <1>0, <1>18
           DEF UpdatesAreMarked, Guarded, ToPop, TypeOK, Positions, Calling, ReachExpires,
               BatchExpires, service
    <2>2. Guarded(batch, ToPop)'
        BY <1>0, <1>18
           DEF UpdatesAreMarked, Guarded, ToPop, TypeOK, Positions, Calling, ReachExpires,
               BatchExpires, service
    <2>3. Guarded(page, ToClear)'
        BY <1>0, <1>18
           DEF UpdatesAreMarked, Guarded, ToClear, TypeOK, Positions, Calling, ReachExpires,
               BatchExpires, service
    <2>4. EmptyIsExcused'
        BY <1>0, <1>18 DEF EmptyIsExcused, TypeOK, Positions, ReachExpires, BatchExpires, service
    <2> QED
        BY <2>1, <2>2, <2>3, <2>4
<1>19. ASSUME UNCHANGED vars PROVE Rest'
    <2>1. UpdatesAreMarked'
        BY <1>0, <1>19
           DEF UpdatesAreMarked, Guarded, ToPop, TypeOK, Positions, Calling, vars, service,
               caches
    <2>2. Guarded(batch, ToPop)'
        BY <1>0, <1>19
           DEF UpdatesAreMarked, Guarded, ToPop, TypeOK, Positions, Calling, vars, service,
               caches
    <2>3. Guarded(page, ToClear)'
        BY <1>0, <1>19
           DEF UpdatesAreMarked, Guarded, ToClear, TypeOK, Positions, Calling, vars, service,
               caches
    <2>4. EmptyIsExcused'
        BY <1>0, <1>19 DEF EmptyIsExcused, TypeOK, Positions, vars, service, caches
    <2> QED
        BY <2>1, <2>2, <2>3, <2>4
<1> QED
    BY <1>0, <1>1, <1>2, <1>3, <1>4, <1>5, <1>51, <1>52, <1>6, <1>7, <1>8, <1>9, <1>10, <1>11,
       <1>12, <1>13, <1>14, <1>15, <1>16, <1>17, <1>18, <1>19
       DEF Next, Update, Serve, IInv

\* In every behaviour the state keeps its shape, and updates, entries and
\* requests are as the invariant says (_update_status_cache, control_remote_service).
THEOREM RemoteInvariant == Spec => []IInv
BY InvInit, InvStep, PTL DEF Spec

\* For any number of request threads and callers: with no control call under way
\* the page does not show the service as it was before the last one.  Excused are
\* updates that were under way during a call, before its caller removed the batch,
\* and what is made of the batches they store (control_remote_service's two
\* invalidations, in their order).
THEOREM ControlIsAlwaysShown == Spec => []ControlIsShown
<1>1. ASSUME IInv PROVE ControlIsShown
    BY <1>1 DEF IInv, Guarded, ToClear, ControlIsShown, Quiet
<1> QED
    BY <1>1, RemoteInvariant, PTL

\* A request is answered with an empty status only if, since it began, a control
\* call cleared the page or its own update failed (_build_status).
THEOREM EmptyIsAlwaysExcused == Spec => []EmptyIsExcused
<1>1. IInv => EmptyIsExcused
    BY DEF IInv
<1> QED
    BY <1>1, RemoteInvariant, PTL

\* The caches, the threads and the calls keep their shape, for any number of
\* request threads and callers (_update_status_cache, control_remote_service).
THEOREM StatusTypes == Spec => []TypeOK
<1>1. IInv => TypeOK
    BY DEF IInv
<1> QED
    BY <1>1, RemoteInvariant, PTL

=============================================================================
