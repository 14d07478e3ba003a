--------------------------- MODULE ServicePromise ---------------------------
(***************************************************************************)
(* What the interfaces that control a service promise, the dashboard's     *)
(* /api/service/<action>, the agent's /api/agent/service/<action>, and the *)
(* website manager for the components of websites.                         *)
(* A success is answered at a moment when the service is where the action  *)
(* takes it, or that was handed over to be done; a failure promises        *)
(* nothing.                                                                *)
(* Apart from failing by itself, the service changes by what open calls    *)
(* were asked for, and by what ended calls left behind.                    *)
(***************************************************************************)
CONSTANTS Callers,   \* threads that serve control calls
          Actions    \* what may be asked for

VARIABLES up,     \* the service is kept running
          call,   \* per caller: what it was asked for, and its answer so far
          stray   \* effects that ended calls may still have

vars == <<up, call, stray>>

NoCall == [action |-> "none", answer |-> "none"]
Open == {c \in Callers : call[c] # NoCall}
Effects == {"start", "stop", "restart"}

\* Where an effect leaves the service, and the effects an action is made of.
Goal(effect) == effect # "stop"
Parts(action) == IF action = "restart" THEN Effects ELSE {action} \cap Effects

Change(parts) ==
    /\ up' \in {up} \cup {Goal(e) : e \in parts}
    /\ stray' \in SUBSET (stray \cup parts)

Init == up \in BOOLEAN /\ call = [c \in Callers |-> NoCall] /\ stray = {}

\* An action may be refused at once; one that is none of the effects promises
\* nothing.
Ask(c) ==
    /\ c \notin Open
    /\ \E a \in Actions, answer \in {"none", "success", "failure"} :
          /\ answer = "success" => a \notin Effects
          /\ call' = [call EXCEPT ![c] = [action |-> a, answer |-> answer]]
    /\ UNCHANGED <<up, stray>>

Work(c) ==
    /\ c \in Open
    /\ Change(Parts(call[c].action))
    /\ UNCHANGED call

Succeed(c) ==
    /\ c \in Open /\ call[c].answer = "none"
    /\ Change(Parts(call[c].action))
    /\ \/ call[c].action \notin Effects
       \/ up' = Goal(call[c].action)
       \/ \E e \in stray' : Goal(e) = Goal(call[c].action)
    /\ call' = [call EXCEPT ![c] = [@ EXCEPT !.answer = "success"]]

Fail(c) ==
    /\ c \in Open /\ call[c].answer = "none"
    /\ Change(Parts(call[c].action))
    /\ call' = [call EXCEPT ![c] = [@ EXCEPT !.answer = "failure"]]

Reply(c) ==
    /\ c \in Open
    /\ call' = [call EXCEPT ![c] = NoCall]
    /\ UNCHANGED <<up, stray>>

\* What calls left behind takes effect or fails.  Calls may end unanswered and
\* leave something behind themselves.
Late ==
    \E ended \in SUBSET Open :
        /\ Change(UNION ({Parts(call[c].action) : c \in ended}
                         \cup {Parts(e) : e \in stray}))
        /\ call' = [c \in Callers |-> IF c \in ended THEN NoCall ELSE call[c]]

Dies == up /\ up' = FALSE /\ UNCHANGED <<call, stray>>

\* Someone else starts it, where there is nobody to ask.
StartedByHand == Open = {} /\ up' = TRUE /\ UNCHANGED <<call, stray>>

Next == \/ \E c \in Callers : Ask(c) \/ Work(c) \/ Succeed(c) \/ Fail(c) \/ Reply(c)
        \/ Late \/ Dies \/ StartedByHand

Spec == Init /\ [][Next]_vars
=============================================================================
