----------------------------- MODULE BotHistory -----------------------------
(***************************************************************************)
(* claw-discord-bot (bot.py): one conversation of a user in a channel.     *)
(* Messages and slash commands are coroutines of one event loop; each may  *)
(* be suspended wherever it awaits Discord, a web server or the gateway,   *)
(* and the others go on with the same history.                             *)
(*                                                                         *)
(* Texts are sequences of characters that are either newlines or not.  The *)
(* system prompt and the model's name, which /system and /model overwrite, *)
(* are left out, and so is what attachments and web pages contribute to a  *)
(* question.                                                               *)
(***************************************************************************)
EXTENDS Naturals, FiniteSets, SequencesExt

CONSTANTS Messages, Asks, Pdfs, Fetches,  \* the coroutines, by what started them
          MaxHistory,                     \* MAX_HISTORY, the deque's maxlen
          MaxLen,                         \* DISCORD_MAX_LEN
          FenceLen, FenceBelow,           \* of the code fence of /fetch: the characters
                                          \* on each side, and the length of the chunks
                                          \* that get none
          Texts,                          \* texts that split_message is looked at for
          Replies                         \* texts of the gateway and of web pages

Newline == "n"
Character == {"x", Newline}
Queries == Messages \cup Asks \cup Pdfs
Tasks == Queries \cup Fetches

ASSUME BotAssumption ==
    /\ MaxHistory \in Nat \ {0} /\ MaxLen \in Nat \ {0}
    /\ FenceLen \in Nat /\ FenceBelow \in Nat /\ FenceBelow + 2 * FenceLen <= MaxLen + 1
    /\ Replies \subseteq Texts /\ Texts \subseteq Seq(Character) \ {<<>>}
    /\ Queries \cap Fetches = {} /\ Pdfs \cap (Messages \cup Asks) = {}

VARIABLES history,  \* histories[key], oldest first
          task,     \* per coroutine: where it is and what it has still to send
          failed,   \* history variable: the queries the gateway did not answer
          cleared   \* history variable: the queries asked before the last /clear

vars == <<history, task, failed, cleared>>

Entry(role, t) == [role |-> role, of |-> t]
At(t) == task[t].at
Goto(t, at, rest) == task' = [task EXCEPT ![t] = [at |-> at, rest |-> rest]]

Init ==
    /\ history = <<>>
    /\ task = [t \in Tasks |-> [at |-> "new", rest |-> <<>>]]
    /\ failed = {} /\ cleared = {}

-----------------------------------------------------------------------------
(* split_message, with positions counted from one.                         *)

\* Fault: the search for a newline is one character too long.
CutOneLate(text) ==
    LET breaks == {i \in 1..MaxLen + 1 : text[i] = Newline}
    IN  IF breaks = {} THEN MaxLen + 1 ELSE Max(breaks)

\* The last newline that a chunk could end before, or the limit.
Cut(text) ==
    LET breaks == {i \in 1..MaxLen : text[i] = Newline}
    IN  IF breaks = {} THEN MaxLen ELSE Max(breaks) - 1

\* lstrip
Stripped(text) ==
    LET kept == {i \in 1..Len(text) : text[i] # Newline}
    IN  IF kept = {} THEN <<>> ELSE SubSeq(text, Min(kept), Len(text))

\* What is left to split after the first chunk.
Rest(text) == Stripped(SubSeq(text, Cut(text) + 1, Len(text)))

Chunks[text \in Seq(Character)] ==
    IF text = <<>> THEN <<>>
    ELSE IF Len(text) <= MaxLen THEN <<text>>
    ELSE <<SubSeq(text, 1, Cut(text))>> \o Chunks[Rest(text)]

Split(text) == IF Len(text) <= MaxLen THEN <<text>> ELSE Chunks[text]
Notice == <<<<"x">>>>   \* a short text of the bot's own

-----------------------------------------------------------------------------
(* A coroutine, from the event that starts it to its last send.            *)

\* An allowed user; a message must be for the bot and have something in it.
Arrive(t) ==
    /\ At(t) = "new"
    /\ Goto(t, "gather", <<>>)
    /\ UNCHANGED <<history, failed, cleared>>

\* An attachment that cannot be downloaded raises, and so does a command that
\* Discord has given up: nothing is answered.
GatherFails(t) ==
    /\ At(t) = "gather"
    /\ Goto(t, "end", <<>>)
    /\ UNCHANGED <<history, failed, cleared>>

\* Fault: a deque without maxlen.
KeepAll(h) == h

Keep(h) == IF Len(h) > MaxHistory THEN Tail(h) ELSE h

\* Fault: the question is recorded with its answer.
AskLater(t) ==
    /\ At(t) = "gather" /\ t \in Queries
    /\ Goto(t, "wait", <<>>)
    /\ UNCHANGED <<history, failed, cleared>>

\* The question is appended and the history is copied for the gateway.
Ask(t) ==
    /\ At(t) = "gather" /\ t \in Queries
    /\ history' = Keep(Append(history, Entry("question", t)))
    /\ Goto(t, "wait", <<>>)
    /\ UNCHANGED <<failed, cleared>>

\* Text is sent in chunks; a PDF is rendered first.
Respond(t, text) == Goto(t, IF t \in Pdfs THEN "render" ELSE "send", Split(text))

\* The stream has ended, or the status was not 200: either way there is a text,
\* and it becomes part of the history.
Answer(t) ==
    /\ At(t) = "wait"
    /\ history' = Keep(Append(history, Entry("answer", t)))
    /\ \E text \in Replies : Respond(t, text)
    /\ UNCHANGED <<failed, cleared>>

\* The gateway cannot be reached, breaks off, or takes more than 180 seconds.
GatewayFails(t) ==
    /\ At(t) = "wait"
    /\ failed' = failed \cup {t}
    /\ Goto(t, "send", Notice)
    /\ UNCHANGED <<history, cleared>>

\* The text of a page, or the reason why there is none, begins with a header of
\* the bot's own.
PageTexts == {text \in Replies : text[1] # Newline}

\* A PDF can be made of a text, or not: its fonts lack many characters.
Pdf == {"made", "failed"}

\* A short chunk of a page is put into a code fence.
Fence == [i \in 1..FenceLen |-> "x"]
Fenced(chunk) == IF Len(chunk) < FenceBelow THEN Fence \o chunk \o Fence ELSE chunk
FencedSplit(text) == [i \in 1..Len(Split(text)) |-> Fenced(Split(text)[i])]

\* /fetch shows a web page; a long one as a PDF, whose failure nobody catches.
Fetch(t) ==
    /\ At(t) = "gather" /\ t \in Fetches
    /\ \E text \in PageTexts, pdf \in Pdf :
          IF Len(text) <= 3 * MaxLen THEN Goto(t, "send", FencedSplit(text))
          ELSE IF pdf = "made" THEN Goto(t, "send", Notice)
          ELSE Goto(t, "end", <<>>)
    /\ UNCHANGED <<history, failed, cleared>>

\* The PDF is one message; if it cannot be made, a notice and the text are sent.
Render(t) ==
    /\ At(t) = "render"
    /\ \E pdf \in Pdf :
          Goto(t, "send", IF pdf = "made" THEN Notice ELSE Notice \o task[t].rest)
    /\ UNCHANGED <<history, failed, cleared>>

\* One chunk is sent.  Discord refuses an empty one, and may fail on any: what
\* is left is not sent.
Send(t) ==
    /\ At(t) = "send"
    /\ \/ /\ Head(task[t].rest) # <<>> /\ Len(task[t].rest) > 1
          /\ Goto(t, "send", Tail(task[t].rest))
       \/ Goto(t, "end", <<>>)
    /\ UNCHANGED <<history, failed, cleared>>

Step(t) == \/ Arrive(t) \/ GatherFails(t) \/ Ask(t) \/ Answer(t) \/ GatewayFails(t)
           \/ Fetch(t) \/ Render(t) \/ Send(t)

\* /clear
Clear ==
    /\ history' = <<>>
    /\ cleared' = {t \in Queries : At(t) \notin {"new", "gather"}}
    /\ UNCHANGED <<task, failed>>

Next == Clear \/ \E t \in Tasks : Step(t)

Spec == Init /\ [][Next]_vars
-----------------------------------------------------------------------------
\* The shape of the state; the deque is bounded.
TypeOK ==
    /\ history \in Seq([role : {"question", "answer"}, of : Queries])
    /\ Len(history) <= MaxHistory
    /\ \A t \in Tasks : At(t) \in {"new", "gather", "wait", "render", "send", "end"}
    /\ failed \subseteq Queries /\ cleared \subseteq Queries

Position(role, t) == {i \in 1..Len(history) : history[i] = Entry(role, t)}

\* The conversation stays explained, however queries overlap and whatever is
\* cleared or pushed out meanwhile.  Nothing is in it twice.  An answer comes
\* after its question; its question is missing only if /clear removed it while
\* the gateway answered, or the deque is full and pushed it out.  A question
\* without an answer is under way or failed (handle_query, cmd_clear).
HistoryExplained ==
    \A t \in Queries :
        /\ \A role \in {"question", "answer"} : Cardinality(Position(role, t)) <= 1
        /\ Position("answer", t) # {} =>
              \/ \E i \in Position("question", t), j \in Position("answer", t) : i < j
              \/ t \in cleared \/ Len(history) = MaxHistory
        /\ Position("question", t) # {} /\ Position("answer", t) = {} =>
              At(t) = "wait" \/ t \in failed

\* The i-th chunk is the piece of the text that begins at from[i].  The pieces
\* come in order and do not overlap, and newlines alone are in none of them.
PiecesFrom(from, chunks, text) ==
    /\ \A i \in 1..Len(chunks) : \A k \in 1..Len(chunks[i]) :
          /\ from[i] + k - 1 <= Len(text)
          /\ chunks[i][k] = text[from[i] + k - 1]
    /\ \A i, j \in 1..Len(chunks) : i < j => from[i] + Len(chunks[i]) <= from[j]
    /\ \A p \in 1..Len(text) : text[p] # Newline =>
          \E i \in 1..Len(chunks) : p \in from[i]..from[i] + Len(chunks[i]) - 1

Faithful(chunks, text) ==
    /\ \A i \in 1..Len(chunks) :
          /\ Len(chunks[i]) <= MaxLen
          /\ chunks[i] = <<>> => i = 1 /\ text[1] = Newline /\ Len(text) > MaxLen
    /\ \E from \in [1..Len(chunks) -> 1..Len(text)] : PiecesFrom(from, chunks, text)

EverySplitFaithful == \A text \in Texts : Faithful(Split(text), text)

\* A text is split into pieces of itself that fit into a message and lose
\* nothing but newlines (split_message).  A piece is empty only where a long text
\* begins with the only newline in reach.  Nothing is sent that does not fit,
\* the pieces of a page with the fence around them included (cmd_fetch).
SplitIsFaithful ==
    /\ EverySplitFaithful
    /\ \A t \in Tasks : \A i \in 1..Len(task[t].rest) : Len(task[t].rest[i]) <= MaxLen
=============================================================================
