--------------------------- MODULE BotHistoryProofs ---------------------------
(***************************************************************************)
(* The conversation of BotHistory stays explained, for any coroutines and  *)
(* any length of the deque.  An answer that lost its question is no longer *)
(* told from one whose question was never there, so the invariant says of  *)
(* a query that waits what will be true of its answer: its question is in  *)
(* the history, or /clear removed it, or the deque is full.  A full deque  *)
(* stays full until /clear, and drops questions before their answers.      *)
(*                                                                         *)
(* What is sent are pieces of the texts: Chunks is shown to be a function  *)
(* and its values to be faithful by looking at the shortest text of which  *)
(* that would be false.                                                    *)
(***************************************************************************)
EXTENDS BotHistory, FiniteSetTheorems, SequenceTheorems, WellFoundedInduction, TLAPS

Entries == [role : {"question", "answer"}, of : Queries]

Has(role, t) == \E i \in 1..Len(history) : history[i] = Entry(role, t)

Excused(t) == t \in cleared \/ Len(history) = MaxHistory

Once == \A i, j \in 1..Len(history) : history[i] = history[j] => i = j

Ordered ==
    \A t \in Queries : \A i, j \in 1..Len(history) :
        history[i] = Entry("question", t) /\ history[j] = Entry("answer", t) => i < j

\* A query that has not asked is not in the history.
Unasked(t) == At(t) \in {"new", "gather"} => ~Has("question", t) /\ ~Has("answer", t)

Waiting(t) == At(t) = "wait" => ~Has("answer", t) /\ (Has("question", t) \/ Excused(t))

Answered(t) == Has("answer", t) => Has("question", t) \/ Excused(t)

Unanswered(t) == Has("question", t) /\ ~Has("answer", t) => At(t) = "wait" \/ t \in failed

Explained(t) == Unasked(t) /\ Waiting(t) /\ Answered(t) /\ Unanswered(t)

IInv ==
    /\ TypeOK /\ DOMAIN task = Tasks
    /\ \A t \in Tasks : At(t) = "wait" => t \in Queries
    /\ Once /\ Ordered
    /\ \A t \in Queries : Explained(t)

-----------------------------------------------------------------------------
(* The deque.                                                              *)

\* Appending to the deque drops the oldest entry if it was full, and only then.
LEMMA Kept ==
    ASSUME NEW h \in Seq(Entries), Len(h) <= MaxHistory, NEW e \in Entries
    PROVE  \E d \in {0, 1} :
              /\ Keep(Append(h, e)) \in Seq(Entries)
              /\ Len(Keep(Append(h, e))) = Len(h) + 1 - d
              /\ Len(Keep(Append(h, e))) <= MaxHistory
              /\ d = 1 => Len(Keep(Append(h, e))) = MaxHistory
              /\ d = 0 => Len(h) < MaxHistory
              /\ \A i \in 1..Len(Keep(Append(h, e))) :
                    Keep(Append(h, e))[i] = IF i + d = Len(h) + 1 THEN e ELSE h[i + d]
<1> DEFINE g == Append(h, e)
<1>1. MaxHistory \in Nat \ {0}
    BY BotAssumption
<1>2. /\ g \in Seq(Entries) /\ Len(g) = Len(h) + 1 /\ Len(h) \in Nat
      /\ \A i \in 1..Len(g) : g[i] = IF i = Len(h) + 1 THEN e ELSE h[i]
    OBVIOUS
<1>3. CASE Len(h) = MaxHistory
    <2>1. Keep(g) = Tail(g)
        BY <1>1, <1>2, <1>3 DEF Keep
    <2>2. g # <<>>
        BY <1>2
    <2> HIDE DEF g
    <2>3. /\ Tail(g) \in Seq(Entries) /\ Len(Tail(g)) = Len(g) - 1
          /\ \A i \in 1..Len(Tail(g)) : Tail(g)[i] = g[i + 1]
        BY <1>2, <2>2
    <2>4. \A i \in 1..Len(Tail(g)) : Tail(g)[i] = IF i + 1 = Len(h) + 1 THEN e ELSE h[i + 1]
        BY <1>2, <2>3
    <2>5. Len(Tail(g)) = MaxHistory
        BY <1>1, <1>2, <1>3, <2>3
    <2> WITNESS 1 \in {0, 1}
    <2> QED
        BY <1>1, <1>2, <1>3, <2>1, <2>3, <2>4, <2>5 DEF g
<1>4. CASE Len(h) # MaxHistory
    <2>1. Keep(g) = g
        BY <1>1, <1>2, <1>4 DEF Keep
    <2> HIDE DEF g
    <2>2. \A i \in 1..Len(g) : g[i] = IF i + 0 = Len(h) + 1 THEN e ELSE h[i + 0]
        BY <1>2
    <2>3. Len(g) <= MaxHistory /\ Len(h) < MaxHistory
        BY <1>1, <1>2, <1>4
    <2> WITNESS 0 \in {0, 1}
    <2> QED
        BY <1>2, <2>1, <2>2, <2>3 DEF g
<1> QED
    BY <1>3, <1>4

\* Entries of different queries or roles differ.
LEMMA EntryFacts ==
    /\ \A r \in {"question", "answer"}, t \in Queries : Entry(r, t) \in Entries
    /\ \A r, s, t, u : Entry(r, t) = Entry(s, u) <=> r = s /\ t = u
BY DEF Entry, Entries

\* What an append does to the entries: none is repeated or reordered, the oldest
\* may go, and a question goes before its answer.
LEMMA Pushed ==
    ASSUME IInv, NEW t \in Queries, NEW r \in {"question", "answer"},
           history' = Keep(Append(history, Entry(r, t))), cleared' = cleared,
           ~Has(r, t), r = "question" => ~Has("answer", t)
    PROVE  /\ history' \in Seq(Entries) /\ Len(history') <= MaxHistory
           /\ Once' /\ Ordered' /\ Has(r, t)'
           /\ \A u \in Queries : Excused(u) => Excused(u)'
           /\ \A s \in {"question", "answer"}, u \in Queries :
                 /\ Has(s, u)' => Has(s, u) \/ (s = r /\ u = t)
                 /\ Has(s, u) => Has(s, u)' \/ Excused(u)'
           /\ \A u \in Queries : Has("question", u)' /\ Has("answer", u) => Has("answer", u)'
<1>1. history \in Seq(Entries) /\ Len(history) <= MaxHistory /\ Len(history) \in Nat
    BY DEF IInv, TypeOK, Entries
<1>2. Entry(r, t) \in Entries
    BY EntryFacts
<1>3. PICK d \in {0, 1} :
          /\ history' \in Seq(Entries)
          /\ Len(history') = Len(history) + 1 - d
          /\ Len(history') <= MaxHistory
          /\ d = 1 => Len(history') = MaxHistory
          /\ d = 0 => Len(history) < MaxHistory
          /\ \A i \in 1..Len(history') :
                history'[i] = IF i + d = Len(history) + 1 THEN Entry(r, t) ELSE history[i + d]
    BY <1>1, <1>2, Kept
<1> DEFINE L == Len(history)
           M == Len(history')
<1>4. L \in Nat /\ M \in Nat /\ M = L + 1 - d
    BY <1>1, <1>3
<1>5. /\ \A i \in 1..M : history'[i] = IF i + d = L + 1 THEN Entry(r, t) ELSE history[i + d]
      /\ \A i \in 1..L : i > d => i - d \in 1..M /\ history'[i - d] = history[i]
      /\ \A i \in 1..M : i + d # L + 1 => i + d \in 1..L
      /\ M \in 1..M /\ history'[M] = Entry(r, t) /\ M + d = L + 1
    <2>1. M >= 1 /\ M + d = L + 1
        BY <1>3, <1>4, BotAssumption
    <2>2. \A i \in 1..M : history'[i] = IF i + d = L + 1 THEN Entry(r, t) ELSE history[i + d]
        BY <1>3
    <2> HIDE DEF L, M
    <2>3. \A i \in 1..L : i > d => i - d \in 1..M /\ history'[i - d] = history[i]
        <3> SUFFICES ASSUME NEW i \in 1..L, i > d
                     PROVE  i - d \in 1..M /\ history'[i - d] = history[i]
            OBVIOUS
        <3>1. i - d \in 1..M /\ (i - d) + d = i /\ i # L + 1
            BY <1>4, <2>1
        <3> QED
            BY <2>2, <3>1
    <2>4. \A i \in 1..M : i + d # L + 1 => i + d \in 1..L
        BY <1>4, <2>1
    <2> QED
        BY <1>4, <2>1, <2>2, <2>3, <2>4
<1>6. \A i \in 1..L : history[i] # Entry(r, t)
    BY DEF Has
<1> HIDE DEF L, M
<1>7. Once'
    <2>1. \A i, j \in 1..L : history[i] = history[j] => i = j
        BY DEF IInv, Once, L
    <2> SUFFICES ASSUME NEW i \in 1..M, NEW j \in 1..M, history'[i] = history'[j]
                 PROVE  i = j
        BY DEF Once, M
    <2> QED
        BY <1>4, <1>5, <1>6, <2>1
<1>8. Ordered'
    <2> SUFFICES ASSUME NEW u \in Queries, NEW i \in 1..M, NEW j \in 1..M,
                        history'[i] = Entry("question", u), history'[j] = Entry("answer", u)
                 PROVE  i < j
        BY DEF Ordered, M
    <2>1. \A k, l \in 1..L :
              history[k] = Entry("question", u) /\ history[l] = Entry("answer", u) => k < l
        BY DEF IInv, Ordered, L
    <2>2. i # j
        BY EntryFacts
    <2>3. CASE i + d # L + 1 /\ j + d # L + 1
        BY <1>4, <1>5, <2>1, <2>3
    <2>4. CASE j + d = L + 1
        BY <1>4, <2>2, <2>4
    <2>5. CASE i + d = L + 1
        <3>1. Entry(r, t) = Entry("question", u)
            BY <1>5, <2>5
        <3>2. r = "question" /\ u = t
            BY <3>1, EntryFacts
        <3>3. j + d # L + 1
            BY <1>4, <2>2, <2>5
        <3>4. j + d \in 1..L /\ history[j + d] = Entry("answer", t)
            BY <1>5, <3>2, <3>3
        <3>5. Has("answer", t)
            BY <3>4 DEF Has, L
        <3> QED
            BY <3>2, <3>5
    <2> QED
        BY <2>3, <2>4, <2>5
<1>9. Has(r, t)'
    BY <1>5, EntryFacts DEF Has, M
<1>10. \A u \in Queries : Excused(u) => Excused(u)'
    BY <1>1, <1>3 DEF Excused
<1>11. ASSUME NEW s \in {"question", "answer"}, NEW u \in Queries, Has(s, u)'
       PROVE  Has(s, u) \/ (s = r /\ u = t)
    <2>1. PICK i \in 1..M : history'[i] = Entry(s, u)
        BY <1>11 DEF Has, M, Entry
    <2>2. CASE i + d = L + 1
        BY <1>5, <2>1, <2>2, EntryFacts
    <2>3. CASE i + d # L + 1
        <3>1. i + d \in 1..L /\ history[i + d] = Entry(s, u)
            BY <1>5, <2>1, <2>3
        <3> QED
            BY <3>1 DEF Has, L
    <2> QED
        BY <2>2, <2>3
<1>12. ASSUME NEW s \in {"question", "answer"}, NEW u \in Queries, Has(s, u)
       PROVE  Has(s, u)' \/ Excused(u)'
    <2>1. PICK i \in 1..L : history[i] = Entry(s, u)
        BY <1>12 DEF Has, L
    <2>2. CASE i > d
        BY <1>5, <2>1, <2>2 DEF Has, M, Entry
    <2>3. CASE d = 1
        BY <1>3, <2>3 DEF Excused
    <2> QED
        BY <1>4, <2>2, <2>3
<1>13. ASSUME NEW u \in Queries, Has("question", u)', Has("answer", u)
       PROVE  Has("answer", u)'
    <2>1. PICK j \in 1..L : history[j] = Entry("answer", u)
        BY <1>13 DEF Has, L
    <2>2. PICK i \in 1..M : history'[i] = Entry("question", u)
        BY <1>13 DEF Has, M, Entry
    <2>3. i + d # L + 1
        <3>1. SUFFICES ASSUME i + d = L + 1 PROVE FALSE
            OBVIOUS
        <3>2. r = "question" /\ u = t
            BY <1>5, <2>2, <3>1, EntryFacts
        <3> QED
            BY <1>13, <3>2
    <2>4. i + d \in 1..L /\ history[i + d] = Entry("question", u)
        BY <1>5, <2>2, <2>3
    <2>5. i + d < j
        BY <2>1, <2>4 DEF IInv, Ordered, L
    <2>6. j > d /\ j - d \in 1..M /\ history'[j - d] = Entry("answer", u)
        BY <1>4, <1>5, <2>1, <2>4, <2>5
    <2> QED
        BY <2>6 DEF Has, M, Entry
<1> QED
    BY <1>3, <1>7, <1>8, <1>9, <1>10, <1>11, <1>12, <1>13

-----------------------------------------------------------------------------
(* The steps.                                                              *)

\* Nothing has been asked at first.
LEMMA IInvInit == Init => IInv
<1> SUFFICES ASSUME Init PROVE IInv
    OBVIOUS
<1>1. Len(history) = 0 /\ history \in Seq(Entries) /\ MaxHistory \in Nat
    BY BotAssumption DEF Init
<1>2. DOMAIN task = Tasks /\ \A t \in Tasks : At(t) = "new"
    BY DEF Init, At
<1>3. TypeOK
    BY <1>1, <1>2 DEF Init, TypeOK, Entries
<1>4. ASSUME NEW t \in Queries PROVE Explained(t)
    <2>1. At(t) = "new" /\ ~Has("question", t) /\ ~Has("answer", t)
        BY <1>1, <1>2 DEF Tasks, Has
    <2> QED
        BY <2>1 DEF Explained, Unasked, Waiting, Answered, Unanswered
<1>5. \A t \in Tasks : At(t) # "wait"
    BY <1>2
<1> QED
    BY <1>1, <1>2, <1>3, <1>4, <1>5 DEF IInv, Once, Ordered

\* A coroutine that goes to another place leaves the others where they are.
LEMMA Gone ==
    ASSUME DOMAIN task = Tasks, NEW t \in Tasks, NEW at, NEW rest, Goto(t, at, rest)
    PROVE  DOMAIN task' = Tasks /\ At(t)' = at /\ \A u \in Tasks \ {t} : At(u)' = At(u)
BY DEF Goto, At

\* A step that leaves the history alone and does not begin or end a wait.
LEMMA StillKeeps ==
    ASSUME IInv, NEW t \in Tasks, NEW at \in {"gather", "render", "send", "end"},
           NEW rest, Goto(t, at, rest), UNCHANGED <<history, failed, cleared>>,
           at = "gather" => At(t) = "new", At(t) # "wait"
    PROVE  IInv'
<1>1. DOMAIN task' = Tasks /\ At(t)' = at /\ \A u \in Tasks \ {t} : At(u)' = At(u)
    BY Gone DEF IInv
<1>2. \A s, u : Has(s, u)' <=> Has(s, u)
    BY DEF Has, Entry
<1>3. ASSUME NEW u \in Queries PROVE Explained(u)'
    <2>1. u \in Tasks /\ Explained(u)
        BY DEF IInv, Tasks
    <2> QED
        BY <1>1, <1>2, <2>1 DEF Explained, Unasked, Waiting, Answered, Unanswered, Excused
<1> QED
    BY <1>1, <1>3 DEF IInv, TypeOK, Once, Ordered, Entry

\* The question enters the history.
LEMMA AskKeeps ==
    ASSUME IInv, NEW t \in Tasks, Ask(t)
    PROVE  IInv'
<1>1. t \in Queries /\ ~Has("question", t) /\ ~Has("answer", t)
    BY DEF Ask, IInv, Explained, Unasked
<1>2. DOMAIN task' = Tasks /\ At(t)' = "wait" /\ \A u \in Tasks \ {t} : At(u)' = At(u)
    BY Gone DEF IInv, Ask
<1>3. /\ history' \in Seq(Entries) /\ Len(history') <= MaxHistory
      /\ Once' /\ Ordered' /\ Has("question", t)'
      /\ \A u \in Queries : Excused(u) => Excused(u)'
      /\ \A s \in {"question", "answer"}, u \in Queries :
            /\ Has(s, u)' => Has(s, u) \/ (s = "question" /\ u = t)
            /\ Has(s, u) => Has(s, u)' \/ Excused(u)'
      /\ \A u \in Queries : Has("question", u)' /\ Has("answer", u) => Has("answer", u)'
    BY <1>1, Pushed DEF Ask
<1>4. TypeOK'
    BY <1>2, <1>3 DEF Ask, IInv, TypeOK, Entries
<1>5. ASSUME NEW u \in Queries PROVE Explained(u)'
    <2>1. u \in Tasks /\ Explained(u)
        BY DEF IInv, Tasks
    <2>2. CASE u = t
        BY <1>1, <1>2, <1>3, <2>1, <2>2
           DEF Explained, Unasked, Waiting, Answered, Unanswered
    <2>3. CASE u # t
        <3>1. At(u)' = At(u) /\ failed' = failed
            BY <1>2, <2>1, <2>3 DEF Ask
        <3> QED
            BY <1>3, <2>1, <2>3, <3>1 DEF Explained, Unasked, Waiting, Answered, Unanswered
    <2> QED
        BY <2>2, <2>3
<1> QED
    BY <1>1, <1>2, <1>3, <1>4, <1>5 DEF IInv

\* The answer enters it, wherever the text goes then.
LEMMA AnswerKeeps ==
    ASSUME IInv, NEW t \in Tasks, Answer(t)
    PROVE  IInv'
<1>1. t \in Queries /\ Waiting(t) /\ At(t) = "wait"
    BY DEF Answer, IInv, Explained
<1>2. PICK at \in {"render", "send"} : \E rest : Goto(t, at, rest)
    <2>1. PICK text \in Replies : Respond(t, text)
        BY DEF Answer
    <2>2. PICK at \in {"render", "send"} : at = IF t \in Pdfs THEN "render" ELSE "send"
        OBVIOUS
    <2>3. Goto(t, at, Split(text))
        BY <2>1, <2>2 DEF Respond
    <2> QED
        BY <2>3
<1>3. DOMAIN task' = Tasks /\ At(t)' = at /\ \A u \in Tasks \ {t} : At(u)' = At(u)
    BY <1>2, Gone DEF IInv
<1>4. /\ history' \in Seq(Entries) /\ Len(history') <= MaxHistory
      /\ Once' /\ Ordered' /\ Has("answer", t)'
      /\ \A u \in Queries : Excused(u) => Excused(u)'
      /\ \A s \in {"question", "answer"}, u \in Queries :
            /\ Has(s, u)' => Has(s, u) \/ (s = "answer" /\ u = t)
            /\ Has(s, u) => Has(s, u)' \/ Excused(u)'
      /\ \A u \in Queries : Has("question", u)' /\ Has("answer", u) => Has("answer", u)'
    BY <1>1, Pushed DEF Answer, Waiting
<1>5. TypeOK'
    BY <1>3, <1>4 DEF Answer, IInv, TypeOK, Entries
<1>6. ASSUME NEW u \in Queries PROVE Explained(u)'
    <2>1. u \in Tasks /\ Explained(u)
        BY DEF IInv, Tasks
    <2>2. CASE u = t
        BY <1>1, <1>3, <1>4, <2>1, <2>2
           DEF Explained, Unasked, Waiting, Answered, Unanswered
    <2>3. CASE u # t
        <3>1. At(u)' = At(u) /\ failed' = failed
            BY <1>3, <2>1, <2>3 DEF Answer
        <3> QED
            BY <1>4, <2>1, <2>3, <3>1 DEF Explained, Unasked, Waiting, Answered, Unanswered
    <2> QED
        BY <2>2, <2>3
<1> QED
    BY <1>3, <1>4, <1>5, <1>6 DEF IInv

\* A failed query leaves its question, and is remembered as failed.
LEMMA FailKeeps ==
    ASSUME IInv, NEW t \in Tasks, GatewayFails(t)
    PROVE  IInv'
<1>1. t \in Queries
    BY DEF GatewayFails, IInv
<1>2. DOMAIN task' = Tasks /\ At(t)' = "send" /\ \A u \in Tasks \ {t} : At(u)' = At(u)
    BY Gone DEF IInv, GatewayFails
<1>3. \A s, u : Has(s, u)' <=> Has(s, u)
    BY DEF Has, Entry, GatewayFails
<1>4. ASSUME NEW u \in Queries PROVE Explained(u)'
    <2>1. u \in Tasks /\ Explained(u)
        BY DEF IInv, Tasks
    <2> QED
        BY <1>2, <1>3, <2>1 DEF GatewayFails, Explained, Unasked, Waiting, Answered,
                                Unanswered, Excused
<1>5. TypeOK'
    BY <1>1, <1>2 DEF GatewayFails, IInv, TypeOK
<1> QED
    BY <1>2, <1>4, <1>5 DEF GatewayFails, IInv, Once, Ordered, Entry

\* /clear empties the history and marks the queries that wait.
LEMMA ClearKeeps ==
    ASSUME IInv, Clear
    PROVE  IInv'
<1>1. /\ history' = <<>> /\ Len(history') = 0 /\ history' \in Seq(Entries)
      /\ task' = task /\ failed' = failed /\ MaxHistory \in Nat
    BY BotAssumption DEF Clear
<1>2. \A s, u : ~Has(s, u)'
    BY <1>1 DEF Has
<1>3. \A u \in Queries : At(u) = "wait" => u \in cleared'
    BY DEF Clear
<1>4. \A u : At(u)' = At(u)
    BY <1>1 DEF At
<1>5. TypeOK'
    BY <1>1, <1>4 DEF Clear, IInv, TypeOK, Entries
<1>6. \A u \in Queries : Explained(u)'
    BY <1>2, <1>3, <1>4 DEF Explained, Unasked, Waiting, Answered, Unanswered, Excused
<1> QED
    BY <1>1, <1>4, <1>5, <1>6 DEF IInv, Once, Ordered

\* Every step keeps the invariant.
LEMMA IInvStep == IInv /\ [Next]_vars => IInv'
<1> SUFFICES ASSUME IInv, [Next]_vars PROVE IInv'
    OBVIOUS
<1>1. CASE UNCHANGED vars
    <2>1. \A s, u : Has(s, u)' <=> Has(s, u)
        BY <1>1 DEF Has, Entry, vars
    <2>2. \A u : At(u)' = At(u)
        BY <1>1 DEF At, vars
    <2> QED
        BY <1>1, <2>1, <2>2 DEF vars, IInv, TypeOK, Once, Ordered, Explained, Unasked,
                                Waiting, Answered, Unanswered, Excused, Entry
<1>2. ASSUME NEW t \in Tasks, Arrive(t) PROVE IInv'
    BY <1>2, StillKeeps DEF Arrive
<1>3. ASSUME NEW t \in Tasks, GatherFails(t) PROVE IInv'
    BY <1>3, StillKeeps DEF GatherFails
<1>4. ASSUME NEW t \in Tasks, Fetch(t) PROVE IInv'
    <2>1. PICK at \in {"send", "end"} : \E rest : Goto(t, at, rest)
        BY <1>4 DEF Fetch
    <2> QED
        BY <1>4, <2>1, StillKeeps DEF Fetch
<1>5. ASSUME NEW t \in Tasks, Render(t) PROVE IInv'
    <2>1. PICK rest : Goto(t, "send", rest)
        BY <1>5 DEF Render
    <2> QED
        BY <1>5, <2>1, StillKeeps DEF Render
<1>6. ASSUME NEW t \in Tasks, Send(t) PROVE IInv'
    <2>1. PICK at \in {"send", "end"} : \E rest : Goto(t, at, rest)
        BY <1>6 DEF Send
    <2> QED
        BY <1>6, <2>1, StillKeeps DEF Send
<1> QED
    BY <1>1, <1>2, <1>3, <1>4, <1>5, <1>6, AskKeeps, AnswerKeeps, FailKeeps, ClearKeeps
       DEF Next, Step

-----------------------------------------------------------------------------
(* Splitting a text: numbers and cuts.                                     *)

\* A non-empty set of numbers has a least one.
LEMMA LeastElement ==
    ASSUME NEW K \in SUBSET Nat, K # {}
    PROVE  \E m \in K : \A n \in K : m <= n
<1> DEFINE T == {0..k : k \in K}
           R == StrictSubsetOrdering(Nat)
           S == FiniteSubsetsOf(Nat)
<1>1. IsWellFoundedOn(R, S)
    BY FS_StrictSubsetOrderingWellFounded
<1>2. T \subseteq S
    <2>1. \A k \in K : 0..k \in SUBSET Nat
        OBVIOUS
    <2>2. \A k \in K : IsFiniteSet(0..k)
        BY FS_Interval
    <2> QED
        BY <2>1, <2>2 DEF FiniteSubsetsOf
<1>3. T # {}
    OBVIOUS
<1>4. PICK X \in T : \A Y \in T : ~(<<Y, X>> \in R)
    <2> HIDE DEF T, R, S
    <2> QED BY <1>1, <1>2, <1>3, WFMin
<1>5. PICK m \in K : X = 0..m
    BY <1>4
<1>6. ASSUME NEW n \in K, n < m PROVE FALSE
    <2>1. 0..n \in T /\ 0..n \in SUBSET Nat /\ 0..m \in SUBSET Nat
        OBVIOUS
    <2>2. 0..n \subseteq 0..m /\ m \in 0..m /\ m \notin 0..n
        BY <1>6
    <2>3. <<0..n, 0..m>> \in R
        BY <2>1, <2>2 DEF StrictSubsetOrdering
    <2> QED
        BY <1>4, <1>5, <2>1, <2>3
<1> QED BY <1>6

\* Max and Min of positions are what their names say.
LEMMA Extremes ==
    ASSUME NEW n \in Nat, NEW S \in SUBSET (1..n), S # {}
    PROVE  /\ Max(S) \in S /\ \A k \in S : k <= Max(S)
           /\ Min(S) \in S /\ \A k \in S : Min(S) <= k
<1>1. \E m \in S : \A k \in S : m <= k
    <2>1. S \in SUBSET Nat
        OBVIOUS
    <2> QED
        BY <2>1, LeastElement
<1>2. \E m \in S : \A k \in S : k <= m
    <2> DEFINE D == {n - k : k \in S}
    <2>1. D \in SUBSET Nat /\ D # {}
        <3>1. \A k \in S : n - k \in Nat
            OBVIOUS
        <3> QED
            BY <3>1
    <2>2. PICK d \in D : \A e \in D : d <= e
        <3> HIDE DEF D
        <3> QED
            BY <2>1, LeastElement
    <2>3. PICK m \in S : d = n - m
        BY <2>2
    <2>4. ASSUME NEW k \in S PROVE k <= m
        <3>1. n - k \in D /\ k \in 1..n /\ m \in 1..n
            OBVIOUS
        <3>2. d <= n - k
            BY <2>2, <3>1
        <3> QED
            BY <2>3, <3>1, <3>2
    <2> QED
        BY <2>4
<1>3. Min(S) \in S /\ \A k \in S : Min(S) <= k
    BY <1>1 DEF Min
<1>4. Max(S) \in S /\ \A k \in S : k <= Max(S)
    <2>1. \E m \in S : \A k \in S : m >= k
        <3>1. \A m, k \in S : k <= m => m >= k
            OBVIOUS
        <3> QED
            BY <1>2, <3>1
    <2>2. Max(S) \in S /\ \A k \in S : Max(S) >= k
        BY <2>1 DEF Max
    <2> QED
        BY <2>2
<1> QED
    BY <1>3, <1>4

\* A chunk fits into a message, and is empty only before a newline.
LEMMA CutFacts ==
    ASSUME NEW x \in Seq(Character), Len(x) > MaxLen
    PROVE  Cut(x) \in 0..MaxLen /\ (Cut(x) = 0 => x[1] = Newline)
<1> DEFINE B == {i \in 1..MaxLen : x[i] = Newline}
<1>1. MaxLen \in Nat \ {0}
    BY BotAssumption
<1>2. Cut(x) = IF B = {} THEN MaxLen ELSE Max(B) - 1
    BY DEF Cut
<1>3. CASE B = {}
    BY <1>1, <1>2, <1>3
<1>4. CASE B # {}
    <2>1. B \in SUBSET (1..MaxLen)
        OBVIOUS
    <2>2. Max(B) \in B
        <3> HIDE DEF B
        <3> QED
            BY <1>1, <1>4, <2>1, Extremes
    <2>3. Max(B) \in 1..MaxLen /\ x[Max(B)] = Newline
        BY <2>2
    <2> HIDE DEF B
    <2> QED
        BY <1>1, <1>2, <1>4, <2>3
<1> QED
    BY <1>3, <1>4

\* Stripping drops newlines from the front, all there are.
LEMMA StrippedFacts ==
    ASSUME NEW x \in Seq(Character)
    PROVE  \E o \in 0..Len(x) :
              /\ Stripped(x) \in Seq(Character) /\ Len(Stripped(x)) = Len(x) - o
              /\ \A i \in 1..Len(x) - o : Stripped(x)[i] = x[o + i]
              /\ \A p \in 1..o : x[p] = Newline
              /\ o < Len(x) => x[o + 1] # Newline
<1> DEFINE K == {i \in 1..Len(x) : x[i] # Newline}
<1>1. Stripped(x) = IF K = {} THEN <<>> ELSE SubSeq(x, Min(K), Len(x))
    BY DEF Stripped
<1>2. Len(x) \in Nat
    OBVIOUS
<1>3. CASE K = {}
    <2>1. \A p \in 1..Len(x) : x[p] = Newline
        BY <1>3
    <2>2. Stripped(x) = <<>>
        BY <1>1, <1>3
    <2> HIDE DEF K
    <2> WITNESS Len(x) \in 0..Len(x)
    <2>3. <<>> \in Seq(Character) /\ Len(<<>>) = Len(x) - Len(x)
        BY <1>2
    <2>4. 1..Len(x) - Len(x) = {}
        BY <1>2
    <2> QED
        BY <1>2, <2>1, <2>2, <2>3, <2>4
<1>4. CASE K # {}
    <2> DEFINE m == Min(K)
    <2>1. K \in SUBSET (1..Len(x))
        OBVIOUS
    <2>2. m \in K /\ \A k \in K : m <= k
        <3> HIDE DEF K
        <3> QED
            BY <1>2, <1>4, <2>1, Extremes
    <2>3. m \in 1..Len(x) /\ x[m] # Newline
        BY <2>2
    <2>4. ASSUME NEW p \in 1..m - 1 PROVE x[p] = Newline
        <3>1. p \in 1..Len(x) /\ ~(m <= p)
            <4> HIDE DEF m, K
            <4> QED
                BY <1>2, <2>3
        <3>2. p \notin K
            BY <2>2, <3>1
        <3> QED
            BY <3>1, <3>2
    <2>5. Stripped(x) = SubSeq(x, m, Len(x))
        BY <1>1, <1>4
    <2> HIDE DEF K, m
    <2>6. /\ SubSeq(x, m, Len(x)) \in Seq(Character)
          /\ Len(SubSeq(x, m, Len(x))) = Len(x) - (m - 1)
          /\ \A i \in 1..Len(x) - (m - 1) : SubSeq(x, m, Len(x))[i] = x[(m - 1) + i]
        BY <1>2, <2>3, SubSeqProperties
    <2>7. PICK o \in 0..Len(x) : o = m - 1 /\ o + 1 = m
        BY <1>2, <2>3
    <2> WITNESS o \in 0..Len(x)
    <2> QED
        BY <2>3, <2>4, <2>5, <2>6, <2>7
<1> QED
    BY <1>3, <1>4

\* What is left after a chunk: a later part of the text, and shorter.
LEMMA RestFacts ==
    ASSUME NEW x \in Seq(Character), Len(x) > MaxLen
    PROVE  \E o \in 1..Len(x) :
              /\ Cut(x) <= o
              /\ Rest(x) \in Seq(Character) /\ Len(Rest(x)) = Len(x) - o
              /\ \A i \in 1..Len(x) - o : Rest(x)[i] = x[o + i]
              /\ \A p \in Cut(x) + 1..o : x[p] = Newline
              /\ Rest(x) # <<>> => Rest(x)[1] # Newline
<1> DEFINE c == Cut(x)
           y == SubSeq(x, c + 1, Len(x))
<1>1. MaxLen \in Nat \ {0} /\ Len(x) \in Nat
    BY BotAssumption
<1>2. c \in 0..MaxLen /\ (c = 0 => x[1] = Newline)
    BY CutFacts
<1>3. Rest(x) = Stripped(y)
    BY DEF Rest
<1> HIDE DEF c
<1>4. /\ y \in Seq(Character) /\ Len(y) = Len(x) - c
      /\ \A i \in 1..Len(x) - c : y[i] = x[c + i]
    BY <1>1, <1>2, SubSeqProperties
<1> HIDE DEF y
<1>5. PICK o \in 0..Len(y) :
          /\ Stripped(y) \in Seq(Character) /\ Len(Stripped(y)) = Len(y) - o
          /\ \A i \in 1..Len(y) - o : Stripped(y)[i] = y[o + i]
          /\ \A p \in 1..o : y[p] = Newline
          /\ o < Len(y) => y[o + 1] # Newline
    BY <1>4, StrippedFacts
<1>6. c + o # 0
    <2> SUFFICES ASSUME c + o = 0 PROVE FALSE
        OBVIOUS
    <2>1. c = 0 /\ o = 0
        BY <1>1, <1>2, <1>4, <1>5
    <2>2. Len(y) > 0 /\ y[1] = x[1]
        BY <1>1, <1>2, <1>4, <2>1
    <2> QED
        BY <1>2, <1>5, <2>1, <2>2
<1>7. c + o \in 1..Len(x) /\ c <= c + o
    BY <1>1, <1>2, <1>4, <1>5, <1>6
<1>8. \A i \in 1..Len(x) - (c + o) : Stripped(y)[i] = x[(c + o) + i]
    <2> SUFFICES ASSUME NEW i \in 1..Len(x) - (c + o)
                 PROVE  Stripped(y)[i] = x[(c + o) + i]
        OBVIOUS
    <2>1. i \in 1..Len(y) - o /\ o + i \in 1..Len(x) - c /\ c + (o + i) = (c + o) + i
        BY <1>1, <1>2, <1>4, <1>5
    <2> QED
        BY <1>4, <1>5, <2>1
<1>9. \A p \in c + 1..c + o : x[p] = Newline
    <2> SUFFICES ASSUME NEW p \in c + 1..c + o PROVE x[p] = Newline
        OBVIOUS
    <2>1. p - c \in 1..o /\ p - c \in 1..Len(x) - c /\ c + (p - c) = p
        BY <1>1, <1>2, <1>4, <1>5
    <2> QED
        BY <1>4, <1>5, <2>1
<1>10. Stripped(y) # <<>> => Stripped(y)[1] # Newline
    <2> SUFFICES ASSUME Stripped(y) # <<>> PROVE Stripped(y)[1] # Newline
        OBVIOUS
    <2>1. Len(Stripped(y)) # 0
        BY <1>5
    <2>2. o < Len(y) /\ 1 \in 1..Len(y) - o
        BY <1>4, <1>5, <2>1
    <2> QED
        BY <1>5, <2>2
<1>11. Len(Stripped(y)) = Len(x) - (c + o)
    BY <1>1, <1>2, <1>4, <1>5
<1> QED
    BY <1>3, <1>5, <1>7, <1>8, <1>9, <1>10, <1>11 DEF c

-----------------------------------------------------------------------------
(* The loop of split_message ends: Chunks, which calls itself for a shorter *)
(* text, is a function.  Up to every length there is one, and they agree.   *)

UpToLength(n) == {x \in Seq(Character) : Len(x) <= n}

Body(g, x) ==
    IF x = <<>> THEN <<>>
    ELSE IF Len(x) <= MaxLen THEN <<x>>
    ELSE <<SubSeq(x, 1, Cut(x))>> \o g[Rest(x)]

SplitsUpTo(g, n) == g = [x \in UpToLength(n) |-> Body(g, x)]

\* The loop goes on with a shorter text.
LEMMA RestIsShorter ==
    ASSUME NEW x \in Seq(Character), Len(x) > MaxLen
    PROVE  Rest(x) \in Seq(Character) /\ Len(Rest(x)) < Len(x)
<1>1. PICK o \in 1..Len(x) : Rest(x) \in Seq(Character) /\ Len(Rest(x)) = Len(x) - o
    BY RestFacts
<1>2. Len(x) \in Nat
    OBVIOUS
<1> QED
    BY <1>1, <1>2

\* Two functions that split up to a length agree where both are defined.
LEMMA SplitsAgree ==
    ASSUME NEW m \in Nat, NEW n \in Nat, NEW g, NEW h, SplitsUpTo(g, m), SplitsUpTo(h, n),
           NEW x \in UpToLength(m) \cap UpToLength(n)
    PROVE  g[x] = h[x]
<1> DEFINE K == {k \in Nat : \E y \in UpToLength(m) \cap UpToLength(n) :
                                Len(y) = k /\ g[y] # h[y]}
<1>1. SUFFICES ASSUME g[x] # h[x] PROVE FALSE
    OBVIOUS
<1>2. Len(x) \in K
    <2>1. x \in Seq(Character)
        BY DEF UpToLength
    <2>2. Len(x) \in Nat
        BY <2>1
    <2> QED
        BY <1>1, <2>2
<1>3. PICK k \in K : \A l \in K : k <= l
    <2>1. K \in SUBSET Nat /\ K # {}
        BY <1>2
    <2> HIDE DEF K
    <2> QED
        BY <2>1, LeastElement
<1>4. PICK y \in UpToLength(m) \cap UpToLength(n) : Len(y) = k /\ g[y] # h[y]
    BY <1>3
<1>5. y \in Seq(Character) /\ Len(y) \in Nat /\ Len(y) <= m /\ Len(y) <= n
    BY <1>4 DEF UpToLength
<1>6. g[y] = Body(g, y) /\ h[y] = Body(h, y)
    BY <1>4 DEF SplitsUpTo
<1>7. y # <<>> /\ ~(Len(y) <= MaxLen)
    BY <1>4, <1>6 DEF Body
<1>8. Rest(y) \in Seq(Character) /\ Len(Rest(y)) < Len(y) /\ Len(Rest(y)) \in Nat
    <2>1. Len(y) > MaxLen
        BY <1>5, <1>7, BotAssumption
    <2>2. Rest(y) \in Seq(Character) /\ Len(Rest(y)) < Len(y)
        BY <1>5, <2>1, RestIsShorter
    <2> QED
        BY <2>2
<1>9. Rest(y) \in UpToLength(m) \cap UpToLength(n)
    BY <1>5, <1>8 DEF UpToLength
<1>10. g[Rest(y)] = h[Rest(y)]
    <2>1. Len(Rest(y)) \notin K
        <3>1. ASSUME Len(Rest(y)) \in K PROVE FALSE
            <4>1. k <= Len(Rest(y))
                BY <1>3, <3>1
            <4> HIDE DEF K
            <4> QED
                BY <1>4, <1>5, <1>8, <4>1
        <3> QED
            BY <3>1
    <2> QED
        BY <1>8, <1>9, <2>1
<1> QED
    BY <1>4, <1>6, <1>7, <1>10 DEF Body

\* A function that splits up to a length makes one for the next length.
LEMMA SplitsFurther ==
    ASSUME NEW n \in Nat, NEW g, SplitsUpTo(g, n)
    PROVE  SplitsUpTo([x \in UpToLength(n + 1) |-> Body(g, x)], n + 1)
<1> DEFINE h == [x \in UpToLength(n + 1) |-> Body(g, x)]
<1>1. ASSUME NEW x \in UpToLength(n + 1) PROVE Body(g, x) = Body(h, x)
    <2>1. CASE x = <<>> \/ Len(x) <= MaxLen
        BY <2>1 DEF Body
    <2>2. CASE x # <<>> /\ ~(Len(x) <= MaxLen)
        <3>1. x \in Seq(Character) /\ Len(x) \in Nat /\ Len(x) <= n + 1
            BY DEF UpToLength
        <3>2. Len(x) > MaxLen
            BY <2>2, <3>1, BotAssumption
        <3>3. Rest(x) \in Seq(Character) /\ Len(Rest(x)) < Len(x)
            BY <3>1, <3>2, RestIsShorter
        <3>4. Len(Rest(x)) \in Nat
            BY <3>3
        <3>5. Rest(x) \in UpToLength(n) /\ Rest(x) \in UpToLength(n + 1)
            BY <3>1, <3>3, <3>4 DEF UpToLength
        <3>6. g[Rest(x)] = Body(g, Rest(x)) /\ h[Rest(x)] = Body(g, Rest(x))
            BY <3>5 DEF SplitsUpTo
        <3> HIDE DEF h
        <3> QED
            BY <2>2, <3>6 DEF Body
    <2> QED
        BY <2>1, <2>2
<1>2. h = [x \in UpToLength(n + 1) |-> Body(h, x)]
    <2>1. h = [x \in UpToLength(n + 1) |-> Body(g, x)]
        OBVIOUS
    <2> HIDE DEF h
    <2> QED
        BY <1>1, <2>1
<1> HIDE DEF h
<1>3. SplitsUpTo(h, n + 1)
    BY <1>2 DEF SplitsUpTo
<1> QED
    BY <1>3 DEF h

\* There is one for every length.
LEMMA SplitsExist ==
    ASSUME NEW n \in Nat
    PROVE  \E g : SplitsUpTo(g, n)
<1> DEFINE K == {k \in Nat : ~\E g : SplitsUpTo(g, k)}
<1>1. SUFFICES ASSUME n \in K PROVE FALSE
    OBVIOUS
<1>2. PICK k \in K : \A l \in K : k <= l
    <2>1. K \in SUBSET Nat /\ K # {}
        BY <1>1
    <2> HIDE DEF K
    <2> QED
        BY <2>1, LeastElement
<1>3. k \in Nat /\ ~\E g : SplitsUpTo(g, k)
    BY <1>2
<1>4. CASE k = 0
    <2> DEFINE g == [x \in UpToLength(0) |-> <<>>]
    <2>1. ASSUME NEW x \in UpToLength(0) PROVE x = <<>>
        <3>1. x \in Seq(Character) /\ Len(x) = 0
            BY DEF UpToLength
        <3> QED
            BY <3>1
    <2>2. \A x \in UpToLength(0) : Body(g, x) = <<>>
        BY <2>1 DEF Body
    <2>3. g = [x \in UpToLength(0) |-> <<>>]
        OBVIOUS
    <2> HIDE DEF g
    <2>4. g = [x \in UpToLength(0) |-> Body(g, x)]
        BY <2>2, <2>3
    <2>5. SplitsUpTo(g, 0)
        BY <2>4 DEF SplitsUpTo
    <2> QED
        BY <1>3, <1>4, <2>5
<1>5. CASE k # 0
    <2>1. k - 1 \in Nat /\ (k - 1) + 1 = k /\ ~(k <= k - 1)
        BY <1>3, <1>5
    <2>2. k - 1 \notin K
        <3> HIDE DEF K
        <3> QED
            BY <1>2, <2>1
    <2>3. PICK g : SplitsUpTo(g, k - 1)
        BY <2>1, <2>2
    <2>4. \E h : SplitsUpTo(h, (k - 1) + 1)
        BY <2>1, <2>3, SplitsFurther
    <2> QED
        BY <1>3, <2>1, <2>4
<1> QED
    BY <1>4, <1>5

\* So Chunks is what its definition says.
LEMMA ChunksUnfold ==
    \A x \in Seq(Character) : Chunks[x] = Body(Chunks, x)
<1> DEFINE A(n) == CHOOSE g : SplitsUpTo(g, n)
           F == [x \in Seq(Character) |-> A(Len(x))[x]]
<1>1. \A n \in Nat : SplitsUpTo(A(n), n)
    BY SplitsExist
<1> HIDE DEF A
<1>2. ASSUME NEW x \in Seq(Character) PROVE A(Len(x))[x] = Body(F, x)
    <2>1. Len(x) \in Nat /\ x \in UpToLength(Len(x))
        BY DEF UpToLength
    <2>2. A(Len(x))[x] = Body(A(Len(x)), x)
        BY <1>1, <2>1 DEF SplitsUpTo
    <2>3. CASE x = <<>> \/ Len(x) <= MaxLen
        BY <2>2, <2>3 DEF Body
    <2>4. CASE x # <<>> /\ ~(Len(x) <= MaxLen)
        <3>1. Len(x) > MaxLen
            BY <2>1, <2>4, BotAssumption
        <3>2. Rest(x) \in Seq(Character) /\ Len(Rest(x)) < Len(x)
            BY <3>1, RestIsShorter
        <3>3. Len(Rest(x)) \in Nat
            BY <3>2
        <3>4. Rest(x) \in UpToLength(Len(x)) \cap UpToLength(Len(Rest(x)))
            BY <2>1, <3>2, <3>3 DEF UpToLength
        <3>5. A(Len(x))[Rest(x)] = A(Len(Rest(x)))[Rest(x)]
            BY <1>1, <2>1, <3>3, <3>4, SplitsAgree
        <3>6. F[Rest(x)] = A(Len(Rest(x)))[Rest(x)]
            BY <3>2
        <3> HIDE DEF F
        <3> QED
            BY <2>2, <2>4, <3>5, <3>6 DEF Body
    <2> QED
        BY <2>3, <2>4
<1>3. F = [x \in Seq(Character) |-> Body(F, x)]
    <2>1. F = [x \in Seq(Character) |-> A(Len(x))[x]]
        OBVIOUS
    <2> HIDE DEF F
    <2> QED
        BY <1>2, <2>1
<1>4. \E f : f = [x \in Seq(Character) |-> Body(f, x)]
    <2> HIDE DEF F
    <2> QED
        BY <1>3
<1>5. Chunks = CHOOSE f : f = [x \in Seq(Character) |-> Body(f, x)]
    BY DEF Chunks, Body
<1>6. Chunks = [x \in Seq(Character) |-> Body(Chunks, x)]
    BY <1>4, <1>5
<1> QED
    BY <1>6

\* A short text is its own only piece.
LEMMA WholeIsFaithful ==
    ASSUME NEW x \in Seq(Character), x # <<>>, Len(x) <= MaxLen
    PROVE  <<x>> \in Seq(Seq(Character)) /\ Faithful(<<x>>, x)
<1> DEFINE from == [i \in 1..1 |-> 1]
<1>1. Len(x) \in Nat \ {0}
    BY EmptySeq, LenProperties
<1>2. <<x>> \in Seq(Seq(Character)) /\ Len(<<x>>) = 1 /\ <<x>>[1] = x
    OBVIOUS
<1>3. from \in [1..1 -> 1..Len(x)] /\ from[1] = 1
    BY <1>1
<1> HIDE DEF from
<1>4. PiecesFrom(from, <<x>>, x)
    <2>1. \A i \in 1..1 : i = 1
        OBVIOUS
    <2>2. \A k \in 1..Len(x) : 1 + k - 1 = k /\ k <= Len(x)
        BY <1>1
    <2>3. 1..1 + Len(x) - 1 = 1..Len(x)
        BY <1>1
    <2>4. /\ \A i \in 1..1 : \A k \in 1..Len(<<x>>[i]) :
                from[i] + k - 1 <= Len(x) /\ <<x>>[i][k] = x[from[i] + k - 1]
          /\ \A i, j \in 1..1 : i < j => from[i] + Len(<<x>>[i]) <= from[j]
          /\ \A p \in 1..Len(x) : p \in from[1]..from[1] + Len(<<x>>[1]) - 1
        BY <1>2, <1>3, <2>1, <2>2, <2>3
    <2>5. 1 \in 1..1
        OBVIOUS
    <2> QED
        BY <1>2, <2>4, <2>5 DEF PiecesFrom
<1> QED
    BY <1>2, <1>3, <1>4 DEF Faithful

\* A chunk before the pieces of the rest makes pieces of the text: theirs begin
\* where the rest begins, and between the chunk and the rest are newlines.
LEMMA PrependedIsFaithful ==
    ASSUME NEW x \in Seq(Character), Len(x) > MaxLen,
           NEW d \in Seq(Seq(Character)), Faithful(d, Rest(x))
    PROVE  /\ <<SubSeq(x, 1, Cut(x))>> \o d \in Seq(Seq(Character))
           /\ Faithful(<<SubSeq(x, 1, Cut(x))>> \o d, x)
<1> DEFINE c == Cut(x)
           b == SubSeq(x, 1, c)
           e == <<b>> \o d
           y == Rest(x)
<1>1. MaxLen \in Nat \ {0} /\ Len(x) \in Nat /\ Len(d) \in Nat
    BY BotAssumption
<1>2. c \in 0..MaxLen /\ (c = 0 => x[1] = Newline)
    BY CutFacts
<1>3. PICK o \in 1..Len(x) :
          /\ c <= o
          /\ y \in Seq(Character) /\ Len(y) = Len(x) - o
          /\ \A i \in 1..Len(x) - o : y[i] = x[o + i]
          /\ \A p \in c + 1..o : x[p] = Newline
          /\ y # <<>> => y[1] # Newline
    BY RestFacts
<1> HIDE DEF c, y
<1>4. b \in Seq(Character) /\ Len(b) = c /\ \A k \in 1..c : b[k] = x[k]
    <2>1. 1 \in 1..Len(x) + 1 /\ c \in (1 - 1)..Len(x)
        BY <1>1, <1>2
    <2>2. \A k \in 1..c : 1 + k - 1 = k
        BY <1>2
    <2> QED
        BY <1>1, <1>2, <2>1, <2>2, SubSeqProperties
<1> HIDE DEF b
<1>5. /\ e \in Seq(Seq(Character)) /\ Len(e) = Len(d) + 1 /\ e[1] = b
      /\ \A i \in 1..Len(e) : i # 1 => i - 1 \in 1..Len(d) /\ e[i] = d[i - 1]
    <2>1. <<b>> \in Seq(Seq(Character)) /\ Len(<<b>>) = 1 /\ <<b>>[1] = b
        BY <1>4
    <2>2. /\ e \in Seq(Seq(Character)) /\ Len(e) = 1 + Len(d)
          /\ \A i \in 1..1 + Len(d) : e[i] = IF i <= 1 THEN <<b>>[i] ELSE d[i - 1]
        BY <2>1, ConcatProperties
    <2> HIDE DEF e
    <2> QED
        BY <1>1, <2>1, <2>2
<1> HIDE DEF e
<1>6. PICK from \in [1..Len(d) -> 1..Len(y)] : PiecesFrom(from, d, y)
    BY DEF Faithful, y
<1> DEFINE first == [i \in 1..Len(e) |-> IF i = 1 THEN 1 ELSE o + from[i - 1]]
<1>7. /\ first \in [1..Len(e) -> 1..Len(x)] /\ first[1] = 1
      /\ \A i \in 1..Len(e) : i # 1 => first[i] = o + from[i - 1]
    <2>1. 1 \in 1..Len(e)
        BY <1>1, <1>5
    <2>2. ASSUME NEW i \in 1..Len(e) PROVE (IF i = 1 THEN 1 ELSE o + from[i - 1]) \in 1..Len(x)
        <3>1. CASE i = 1
            BY <1>1, <1>2, <3>1
        <3>2. CASE i # 1
            <4>1. from[i - 1] \in 1..Len(y)
                BY <1>5, <1>6, <3>2
            <4> QED
                BY <1>1, <1>3, <3>2, <4>1
        <3> QED
            BY <3>1, <3>2
    <2> QED
        BY <2>1, <2>2
<1> HIDE DEF first
<1>8. ASSUME NEW i \in 1..Len(e), i # 1
      PROVE  /\ i - 1 \in 1..Len(d) /\ e[i] = d[i - 1] /\ Len(e[i]) \in Nat
             /\ from[i - 1] \in 1..Len(y) /\ first[i] = o + from[i - 1]
    <2>1. i - 1 \in 1..Len(d) /\ e[i] = d[i - 1] /\ first[i] = o + from[i - 1]
        BY <1>5, <1>7, <1>8
    <2>2. d[i - 1] \in Seq(Character)
        BY <2>1
    <2>3. Len(e[i]) \in Nat
        BY <2>1, <2>2
    <2>4. from[i - 1] \in 1..Len(y)
        BY <1>6, <2>1
    <2> QED
        BY <2>1, <2>3, <2>4
<1>9. ASSUME NEW i \in 1..Len(e), NEW k \in 1..Len(e[i])
      PROVE  first[i] + k - 1 <= Len(x) /\ e[i][k] = x[first[i] + k - 1]
    <2>1. CASE i = 1
        <3>1. k \in 1..c /\ first[i] = 1 /\ e[i] = b
            BY <1>4, <1>5, <1>7, <2>1
        <3>2. first[i] + k - 1 = k
            BY <1>2, <3>1
        <3> QED
            BY <1>1, <1>2, <1>4, <3>1, <3>2
    <2>2. CASE i # 1
        <3> DEFINE q == from[i - 1] + k - 1
        <3>1. q <= Len(y) /\ d[i - 1][k] = y[q]
            BY <1>6, <1>8, <2>2 DEF PiecesFrom
        <3>2. q >= 1 /\ q \in Nat /\ first[i] + k - 1 = o + q
            <4>1. from[i - 1] \in 1..Len(y) /\ first[i] = o + from[i - 1]
                BY <1>8, <2>2
            <4>2. PICK a \in 1..Len(y) : a = from[i - 1]
                BY <4>1
            <4>3. a + k - 1 >= 1 /\ a + k - 1 \in Nat /\ (o + a) + k - 1 = o + (a + k - 1)
                BY <1>3
            <4> QED
                BY <4>1, <4>2, <4>3
        <3> HIDE DEF q
        <3>3. q \in 1..Len(x) - o
            BY <1>1, <1>3, <3>1, <3>2
        <3>4. y[q] = x[o + q] /\ o + q <= Len(x)
            BY <1>1, <1>3, <3>3
        <3> QED
            BY <1>8, <2>2, <3>1, <3>2, <3>4
    <2> QED
        BY <2>1, <2>2
<1>10. ASSUME NEW i \in 1..Len(e), NEW j \in 1..Len(e), i < j
       PROVE  first[i] + Len(e[i]) <= first[j]
    <2>1. j # 1
        BY <1>10
    <2>2. CASE i = 1
        <3>1. first[i] + Len(e[i]) = 1 + c
            BY <1>2, <1>4, <1>5, <1>7, <2>2
        <3>2. first[j] = o + from[j - 1] /\ from[j - 1] \in 1..Len(y)
            BY <1>8, <2>1
        <3> QED
            BY <1>2, <1>3, <3>1, <3>2
    <2>3. CASE i # 1
        <3>1. i - 1 \in 1..Len(d) /\ j - 1 \in 1..Len(d) /\ i - 1 < j - 1
            BY <1>8, <1>10, <2>1, <2>3
        <3>2. from[i - 1] + Len(d[i - 1]) <= from[j - 1]
            BY <1>6, <3>1 DEF PiecesFrom
        <3>3. /\ first[i] = o + from[i - 1] /\ Len(e[i]) = Len(d[i - 1]) /\ Len(e[i]) \in Nat
              /\ first[j] = o + from[j - 1]
              /\ from[i - 1] \in 1..Len(y) /\ from[j - 1] \in 1..Len(y)
            BY <1>8, <2>1, <2>3
        <3>4. PICK a \in 1..Len(y), a2 \in 1..Len(y), l \in Nat :
                  a = from[i - 1] /\ a2 = from[j - 1] /\ l = Len(d[i - 1])
            BY <3>3
        <3>5. a + l <= a2 => (o + a) + l <= o + a2
            OBVIOUS
        <3> QED
            BY <3>2, <3>3, <3>4, <3>5
    <2> QED
        BY <2>2, <2>3
<1>11. ASSUME NEW p \in 1..Len(x), x[p] # Newline
       PROVE  \E i \in 1..Len(e) : p \in first[i]..first[i] + Len(e[i]) - 1
    <2>1. CASE p <= c
        <3>1. first[1] = 1 /\ Len(e[1]) = c /\ 1 \in 1..Len(e)
            BY <1>1, <1>4, <1>5, <1>7
        <3>2. p \in 1..1 + c - 1
            BY <1>2, <2>1
        <3> QED
            BY <3>1, <3>2
    <2>2. CASE ~(p <= c)
        <3>1. p - o \in 1..Len(x) - o /\ o + (p - o) = p
            <4>1. p \notin c + 1..o
                BY <1>3, <1>11
            <4> QED
                BY <1>1, <1>2, <1>3, <2>2, <4>1
        <3>2. p - o \in 1..Len(y) /\ y[p - o] # Newline
            BY <1>3, <1>11, <3>1
        <3>3. PICK i \in 1..Len(d) : p - o \in from[i]..from[i] + Len(d[i]) - 1
            BY <1>6, <3>2 DEF PiecesFrom
        <3>4. i + 1 \in 1..Len(e) /\ i + 1 # 1 /\ (i + 1) - 1 = i
            BY <1>1, <1>5
        <3>5. first[i + 1] = o + from[i] /\ e[i + 1] = d[i] /\ Len(d[i]) \in Nat
              /\ from[i] \in 1..Len(y)
            BY <1>8, <3>4
        <3>6. p \in o + from[i]..(o + from[i]) + Len(d[i]) - 1
            BY <3>3, <3>5
        <3> QED
            BY <3>4, <3>5, <3>6
    <2> QED
        BY <2>1, <2>2
<1>12. ASSUME NEW i \in 1..Len(e)
       PROVE  /\ Len(e[i]) <= MaxLen
              /\ e[i] = <<>> => i = 1 /\ x[1] = Newline /\ Len(x) > MaxLen
    <2>1. CASE i = 1
        <3>1. e[i] = <<>> => c = 0
            BY <1>4, <1>5, <2>1
        <3>2. Len(e[i]) = c
            BY <1>4, <1>5, <2>1
        <3> QED
            BY <1>1, <1>2, <2>1, <3>1, <3>2
    <2>2. CASE i # 1
        <3>1. i - 1 \in 1..Len(d) /\ e[i] = d[i - 1]
            BY <1>8, <2>2
        <3>2. /\ Len(d[i - 1]) <= MaxLen
              /\ d[i - 1] = <<>> => i - 1 = 1 /\ y[1] = Newline /\ Len(y) > MaxLen
            BY <3>1 DEF Faithful, y
        <3>3. ~(y[1] = Newline /\ Len(y) > MaxLen)
            <4>1. y = <<>> => Len(y) = 0
                OBVIOUS
            <4> QED
                BY <1>1, <1>3, <4>1
        <3> QED
            BY <3>1, <3>2, <3>3
    <2> QED
        BY <2>1, <2>2
<1>13. PiecesFrom(first, e, x)
    BY <1>9, <1>10, <1>11 DEF PiecesFrom
<1>14. Faithful(e, x)
    BY <1>7, <1>12, <1>13 DEF Faithful
<1> QED
    BY <1>5, <1>14 DEF e, b, c

\* Whatever the text, its chunks are pieces of it: the shortest text of which
\* they were not would have a rest of which they were.
LEMMA ChunksAreFaithful ==
    ASSUME NEW x \in Seq(Character)
    PROVE  Chunks[x] \in Seq(Seq(Character)) /\ Faithful(Chunks[x], x)
<1> DEFINE Good(y) == Chunks[y] \in Seq(Seq(Character)) /\ Faithful(Chunks[y], y)
           K == {k \in Nat : \E y \in Seq(Character) : Len(y) = k /\ ~Good(y)}
<1>1. SUFFICES ASSUME ~Good(x) PROVE FALSE
    OBVIOUS
<1>2. PICK k \in K : \A l \in K : k <= l
    <2>1. Len(x) \in Nat
        OBVIOUS
    <2>2. K \in SUBSET Nat /\ K # {}
        <3> HIDE DEF Good
        <3> QED
            BY <1>1, <2>1
    <2> HIDE DEF K
    <2> QED
        BY <2>2, LeastElement
<1>3. PICK y \in Seq(Character) : Len(y) = k /\ ~Good(y)
    BY <1>2
<1>4. Chunks[y] = Body(Chunks, y) /\ Len(y) \in Nat
    BY ChunksUnfold
<1>5. CASE y = <<>>
    <2> DEFINE from == [i \in 1..0 |-> i]
    <2>1. Chunks[y] = <<>>
        BY <1>4, <1>5 DEF Body
    <2>2. <<>> \in Seq(Seq(Character)) /\ Len(<<>>) = 0 /\ Len(y) = 0 /\ 1..0 = {}
        BY <1>5
    <2>3. from \in [1..0 -> 1..0]
        BY <2>2
    <2> HIDE DEF from
    <2>4. PiecesFrom(from, <<>>, y)
        BY <2>2 DEF PiecesFrom
    <2>5. Faithful(<<>>, y)
        BY <2>2, <2>3, <2>4 DEF Faithful
    <2> QED
        BY <1>3, <2>1, <2>2, <2>5
<1>6. CASE y # <<>> /\ Len(y) <= MaxLen
    <2>1. Chunks[y] = <<y>>
        BY <1>4, <1>6 DEF Body
    <2> QED
        BY <1>3, <1>6, <2>1, WholeIsFaithful
<1>7. CASE y # <<>> /\ ~(Len(y) <= MaxLen)
    <2>1. Len(y) > MaxLen
        BY <1>4, <1>7, BotAssumption
    <2>2. Rest(y) \in Seq(Character) /\ Len(Rest(y)) < Len(y)
        BY <2>1, RestIsShorter
    <2>3. Good(Rest(y))
        <3>1. Len(Rest(y)) \in Nat
            BY <2>2
        <3>2. ASSUME ~Good(Rest(y)) PROVE FALSE
            <4>1. Len(Rest(y)) \in K
                <5> HIDE DEF Good
                <5> QED
                    BY <2>2, <3>1, <3>2
            <4>2. k <= Len(Rest(y))
                <5> HIDE DEF K
                <5> QED
                    BY <1>2, <4>1
            <4> QED
                BY <1>3, <1>4, <2>2, <3>1, <4>2
        <3> QED
            BY <3>2
    <2>4. Chunks[y] = <<SubSeq(y, 1, Cut(y))>> \o Chunks[Rest(y)]
        BY <1>4, <1>7 DEF Body
    <2>5. Good(y)
        BY <2>1, <2>3, <2>4, PrependedIsFaithful
    <2> QED
        BY <1>3, <2>5
<1> QED
    BY <1>5, <1>6, <1>7

\* split_message, for any text it is given.
LEMMA SplitFacts ==
    ASSUME NEW x \in Texts
    PROVE  /\ Split(x) \in Seq(Seq(Character)) /\ Faithful(Split(x), x)
           /\ \A i \in 1..Len(Split(x)) : Len(Split(x)[i]) <= MaxLen
<1>1. x \in Seq(Character) /\ x # <<>>
    BY BotAssumption
<1>2. Split(x) \in Seq(Seq(Character)) /\ Faithful(Split(x), x)
    <2>1. CASE Len(x) <= MaxLen
        BY <1>1, <2>1, WholeIsFaithful DEF Split
    <2>2. CASE ~(Len(x) <= MaxLen)
        BY <1>1, <2>2, ChunksAreFaithful DEF Split
    <2> QED
        BY <2>1, <2>2
<1> QED
    BY <1>2 DEF Faithful

-----------------------------------------------------------------------------
(* What the coroutines have still to send.                                 *)

Fits(chunks) ==
    chunks \in Seq(Seq(Character)) /\ \A i \in 1..Len(chunks) : Len(chunks[i]) <= MaxLen

OnlyFittingSends == DOMAIN task = Tasks /\ \A t \in Tasks : Fits(task[t].rest)

\* A chunk that gets a fence fits with it.
LEMMA FencedFits ==
    ASSUME NEW c \in Seq(Character), Len(c) <= MaxLen
    PROVE  Fenced(c) \in Seq(Character) /\ Len(Fenced(c)) <= MaxLen
<1>1. /\ FenceLen \in Nat /\ FenceBelow \in Nat /\ MaxLen \in Nat
      /\ FenceBelow + 2 * FenceLen <= MaxLen + 1
    BY BotAssumption
<1>2. Fence \in Seq(Character) /\ Len(Fence) = FenceLen
    BY <1>1 DEF Fence, Character
<1>3. CASE Len(c) < FenceBelow
    <2>1. /\ Fence \o c \in Seq(Character) /\ Len(Fence \o c) = FenceLen + Len(c)
        BY <1>2
    <2>2. /\ Fence \o c \o Fence \in Seq(Character)
          /\ Len(Fence \o c \o Fence) = (FenceLen + Len(c)) + FenceLen
        BY <1>2, <2>1
    <2>3. Len(c) \in Nat /\ (FenceLen + Len(c)) + FenceLen <= MaxLen
        BY <1>1, <1>3
    <2> QED
        BY <1>3, <2>2, <2>3 DEF Fenced
<1>4. CASE ~(Len(c) < FenceBelow)
    BY <1>4 DEF Fenced
<1> QED
    BY <1>3, <1>4

\* The chunks of a text fit, and so do a notice and what is left after a send.
LEMMA FittingChunks ==
    /\ Fits(<<>>) /\ Fits(Notice)
    /\ \A x \in Texts : Fits(Split(x))
    /\ \A x \in Texts : Fits(FencedSplit(x))
    /\ \A r : Fits(r) => Fits(Notice \o r)
    /\ \A r : Fits(r) /\ Len(r) > 1 => Fits(Tail(r))
<1>1. MaxLen \in Nat \ {0}
    BY BotAssumption
<1>2. Notice \in Seq(Seq(Character)) /\ Len(Notice) = 1 /\ Len(Notice[1]) = 1
    <2>1. <<"x">> \in Seq(Character)
        BY DEF Character
    <2> QED
        BY <2>1 DEF Notice
<1>3. Fits(<<>>)
    <2>1. <<>> \in Seq(Seq(Character)) /\ 1..Len(<<>>) = {}
        OBVIOUS
    <2> QED
        BY <2>1 DEF Fits
<1>4. Fits(Notice)
    <2>1. ASSUME NEW i \in 1..Len(Notice) PROVE Len(Notice[i]) <= MaxLen
        <3>1. i = 1
            BY <1>2
        <3>2. 1 <= MaxLen
            BY <1>1
        <3> QED
            BY <1>2, <3>1, <3>2
    <2> QED
        BY <1>2, <2>1 DEF Fits
<1>5. \A x \in Texts : Fits(Split(x))
    BY SplitFacts DEF Fits
<1>6. ASSUME NEW x \in Texts PROVE Fits(FencedSplit(x))
    <2>1. Split(x) \in Seq(Seq(Character)) /\ Len(Split(x)) \in Nat
        BY SplitFacts
    <2>2. ASSUME NEW i \in 1..Len(Split(x))
          PROVE  Fenced(Split(x)[i]) \in Seq(Character) /\ Len(Fenced(Split(x)[i])) <= MaxLen
        <3>1. Split(x)[i] \in Seq(Character)
            BY <2>1, ElementOfSeq
        <3>2. Len(Split(x)[i]) <= MaxLen
            BY SplitFacts
        <3> QED
            BY <3>1, <3>2, FencedFits
    <2>3. /\ FencedSplit(x) \in Seq(Seq(Character)) /\ Len(FencedSplit(x)) = Len(Split(x))
          /\ \A i \in 1..Len(Split(x)) : FencedSplit(x)[i] = Fenced(Split(x)[i])
        BY <2>1, <2>2 DEF FencedSplit
    <2> QED
        BY <2>2, <2>3 DEF Fits
<1>7. ASSUME NEW r, Fits(r) PROVE Fits(Notice \o r)
    <2>1. r \in Seq(Seq(Character)) /\ Len(r) \in Nat
        BY <1>7 DEF Fits
    <2>2. /\ Notice \o r \in Seq(Seq(Character)) /\ Len(Notice \o r) = 1 + Len(r)
          /\ \A i \in 1..1 + Len(r) :
                (Notice \o r)[i] = IF i <= 1 THEN Notice[i] ELSE r[i - 1]
        <3>1. /\ Notice \o r \in Seq(Seq(Character))
              /\ Len(Notice \o r) = Len(Notice) + Len(r)
              /\ \A i \in 1..Len(Notice) + Len(r) :
                    (Notice \o r)[i] = IF i <= Len(Notice) THEN Notice[i] ELSE r[i - Len(Notice)]
            BY <1>2, <2>1, ConcatProperties
        <3> QED
            BY <1>2, <3>1
    <2>3. ASSUME NEW i \in 1..1 + Len(r) PROVE Len((Notice \o r)[i]) <= MaxLen
        <3>1. CASE i <= 1
            <4>1. i = 1
                BY <3>1
            <4> QED
                BY <1>1, <1>2, <2>2, <4>1
        <3>2. CASE ~(i <= 1)
            <4>1. i - 1 \in 1..Len(r)
                BY <2>1, <3>2
            <4> QED
                BY <1>7, <2>2, <3>2, <4>1 DEF Fits
        <3> QED
            BY <3>1, <3>2
    <2> QED
        BY <2>2, <2>3 DEF Fits
<1>8. ASSUME NEW r, Fits(r), Len(r) > 1 PROVE Fits(Tail(r))
    <2>1. r \in Seq(Seq(Character)) /\ r # <<>> /\ Len(r) \in Nat
        BY <1>8 DEF Fits
    <2>2. /\ Tail(r) \in Seq(Seq(Character)) /\ Len(Tail(r)) = Len(r) - 1
          /\ \A i \in 1..Len(Tail(r)) : Tail(r)[i] = r[i + 1]
        BY <2>1, HeadTailProperties
    <2>3. \A i \in 1..Len(Tail(r)) : i + 1 \in 1..Len(r)
        BY <2>1, <2>2
    <2> QED
        BY <1>8, <2>2, <2>3 DEF Fits
<1> QED
    BY <1>3, <1>4, <1>5, <1>6, <1>7, <1>8

\* A coroutine that goes on with chunks that fit.
LEMMA GoesOnFitting ==
    ASSUME OnlyFittingSends, NEW t \in Tasks, NEW at, NEW r, Fits(r), Goto(t, at, r)
    PROVE  OnlyFittingSends'
<1>1. DOMAIN task' = Tasks /\ task'[t].rest = r /\ \A u \in Tasks \ {t} : task'[u] = task[u]
    BY DEF OnlyFittingSends, Goto
<1> QED
    BY <1>1 DEF OnlyFittingSends, Fits

\* Every step leaves only chunks that fit.
LEMMA FittingStep == OnlyFittingSends /\ [Next]_vars => OnlyFittingSends'
<1> SUFFICES ASSUME OnlyFittingSends, [Next]_vars PROVE OnlyFittingSends'
    OBVIOUS
<1>1. CASE UNCHANGED vars \/ Clear
    <2>1. task' = task
        BY <1>1 DEF vars, Clear
    <2> QED
        BY <2>1 DEF OnlyFittingSends, Fits
<1>2. ASSUME NEW t \in Tasks, Step(t) PROVE OnlyFittingSends'
    <2>1. Replies \subseteq Texts
        BY BotAssumption
    <2>2. \E at, r : Fits(r) /\ Goto(t, at, r)
        <3>1. CASE Arrive(t) \/ GatherFails(t) \/ Ask(t)
            BY <3>1, FittingChunks DEF Arrive, GatherFails, Ask
        <3>2. CASE Answer(t)
            BY <2>1, <3>2, FittingChunks DEF Answer, Respond
        <3>3. CASE GatewayFails(t)
            BY <3>3, FittingChunks DEF GatewayFails
        <3>4. CASE Fetch(t)
            <4>1. PICK text \in PageTexts : \/ Goto(t, "send", FencedSplit(text))
                                            \/ Goto(t, "send", Notice)
                                            \/ Goto(t, "end", <<>>)
                BY <3>4 DEF Fetch
            <4> QED
                BY <2>1, <4>1, FittingChunks DEF PageTexts
        <3>5. CASE Render(t)
            <4>1. Fits(task[t].rest)
                BY DEF OnlyFittingSends
            <4>2. \/ Goto(t, "send", Notice) \/ Goto(t, "send", Notice \o task[t].rest)
                BY <3>5 DEF Render
            <4> QED
                BY <4>1, <4>2, FittingChunks
        <3>6. CASE Send(t)
            <4>1. Fits(task[t].rest)
                BY DEF OnlyFittingSends
            <4> QED
                BY <3>6, <4>1, FittingChunks DEF Send
        <3> QED
            BY <1>2, <3>1, <3>2, <3>3, <3>4, <3>5, <3>6 DEF Step
    <2> QED
        BY <2>2, GoesOnFitting
<1> QED
    BY <1>1, <1>2 DEF Next

-----------------------------------------------------------------------------
(* The theorems.                                                           *)

\* The deque is never longer than its bound, and its entries are questions and
\* answers of queries, for any coroutines (handle_query, cmd_clear).
THEOREM BotTypes == Spec => []TypeOK
<1>1. IInv => TypeOK
    BY DEF IInv
<1> QED
    BY IInvInit, IInvStep, <1>1, PTL DEF Spec

\* However queries overlap and whatever /clear and the deque remove meanwhile,
\* the conversation stays explained, for any number of coroutines and any length
\* of the deque (handle_query, cmd_clear).
THEOREM ConversationIsExplained == Spec => []HistoryExplained
<1>1. ASSUME IInv PROVE HistoryExplained
    <2>1. Len(history) \in Nat
        BY <1>1 DEF IInv, TypeOK
    <2> SUFFICES ASSUME NEW t \in Queries
                 PROVE  /\ \A role \in {"question", "answer"} :
                              Cardinality(Position(role, t)) <= 1
                        /\ Position("answer", t) # {} =>
                              \/ \E i \in Position("question", t), j \in Position("answer", t) :
                                    i < j
                              \/ t \in cleared \/ Len(history) = MaxHistory
                        /\ Position("question", t) # {} /\ Position("answer", t) = {} =>
                              At(t) = "wait" \/ t \in failed
        BY DEF HistoryExplained
    <2>2. \A role : Has(role, t) <=> Position(role, t) # {}
        BY DEF Has, Position
    <2>3. ASSUME NEW role \in {"question", "answer"}
          PROVE  Cardinality(Position(role, t)) <= 1
        <3>1. CASE Position(role, t) = {}
            BY <3>1, FS_EmptySet
        <3>2. CASE Position(role, t) # {}
            <4>1. PICK i \in Position(role, t) : TRUE
                BY <3>2
            <4>2. Position(role, t) = {i}
                BY <1>1, <4>1 DEF IInv, Once, Position
            <4> QED
                BY <4>2, FS_Singleton
        <3> QED
            BY <3>1, <3>2
    <2>4. \A i \in Position("question", t), j \in Position("answer", t) : i < j
        BY <1>1 DEF IInv, Ordered, Position
    <2>5. Answered(t) /\ Unanswered(t)
        BY <1>1 DEF IInv, Explained
    <2> QED
        BY <2>2, <2>3, <2>4, <2>5 DEF Answered, Unanswered, Excused
<1> QED
    BY IInvInit, IInvStep, <1>1, PTL DEF Spec

\* Whatever text the bot has to send, it sends pieces of it that fit into a
\* message, and loses nothing but newlines; with a fence around it a piece still
\* fits, for any limit, any fence that leaves room for itself, and any texts
\* (split_message, handle_query, cmd_fetch).
THEOREM RepliesAreSplitFaithfully == Spec => []SplitIsFaithful
<1>1. Init => OnlyFittingSends
    <2>1. \A t \in Tasks : Init => DOMAIN task = Tasks /\ task[t].rest = <<>>
        BY DEF Init
    <2>2. Init => DOMAIN task = Tasks
        BY DEF Init
    <2> QED
        BY <2>1, <2>2, FittingChunks DEF OnlyFittingSends
<1>2. OnlyFittingSends => SplitIsFaithful
    BY SplitFacts DEF OnlyFittingSends, Fits, SplitIsFaithful, EverySplitFaithful
<1> QED
    BY <1>1, <1>2, FittingStep, PTL DEF Spec
=============================================================================
