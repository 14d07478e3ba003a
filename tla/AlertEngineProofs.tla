------------------------- MODULE AlertEngineProofs -------------------------
(***************************************************************************)
(* Proofs about AlertEngine for every list of keys, all limits and every   *)
(* length of the history.                                                  *)
(***************************************************************************)
EXTENDS AlertEngine, TLAPS

-----------------------------------------------------------------------------
(* The inductive invariant.                                                *)

Saving == {"save", "write", "send"}

\* The running pass, or the one that just ended, is done with the i-th key.
Evaluated(i) == \/ pc = "check" /\ i < at
                \/ pc \in Saving /\ i <= at
                \/ pc \in {"drain", "idle"}

\* The queues: resolutions belong to keys this pass is done with, and the
\* alert about to be sent is the one of the current key.
Queued ==
    /\ pc = "idle" => pending = <<>>
    /\ outbox # <<>> => /\ pc \in Saving /\ outbox = <<Key>>
                       /\ Key \notin Range(pending)
    /\ \A i \in 1..Len(KeyOrder) : KeyOrder[i] \in Range(pending) => Evaluated(i)

\* An alert is active if it is about to be sent, or was sent and its
\* resolution is not in the queue.
Handed ==
    \A k \in Keys : active[k] # Inactive <=>
        \/ k \in Range(outbox)
        \/ said[k] = "fired" /\ k \notin Range(pending)

\* NeverSilent, key by key while the pass goes on.
Answered ==
    \A i \in 1..Len(KeyOrder) : LET k == KeyOrder[i] IN
        Evaluated(i) /\ last[k] = "breach" /\ breach[k] = Sustained[k] =>
            active[k] \in 0..Cooldown[k] - 1

IInv == /\ TypeOK /\ ActiveIsSustained /\ HistoryOnDisk
        /\ Queued /\ Handed /\ Answered

-----------------------------------------------------------------------------
(* Facts about keys, sequences and the history.                            *)

LEMMA KeyFacts ==
    /\ Len(KeyOrder) \in Nat /\ 1 \in 1..Len(KeyOrder)
    /\ \A i \in 1..Len(KeyOrder) : KeyOrder[i] \in Keys
    /\ \A k \in Keys : \E i \in 1..Len(KeyOrder) : KeyOrder[i] = k
    /\ \A i, j \in 1..Len(KeyOrder) : KeyOrder[i] = KeyOrder[j] => i = j
    /\ \A k \in Keys : /\ Sustained[k] \in Nat /\ Sustained[k] > 0
                      /\ Cooldown[k] \in Nat /\ Cooldown[k] > 0
    /\ MaxHistory \in Nat /\ MaxHistory > 0
<1>1. Len(KeyOrder) \in Nat /\ DOMAIN KeyOrder = 1..Len(KeyOrder) /\ Len(KeyOrder) # 0
  BY AlertAssumption
<1>2. \A i \in DOMAIN KeyOrder : KeyOrder[i] \in Keys
  BY DEF Keys, Range
<1>3. \A k \in Keys : \E i \in DOMAIN KeyOrder : KeyOrder[i] = k
  BY DEF Keys, Range
<1>4. \A i, j \in DOMAIN KeyOrder : KeyOrder[i] = KeyOrder[j] => i = j
  BY AlertAssumption DEF IsInjective
<1>5. \A k \in Keys : /\ Sustained[k] \in Nat /\ Sustained[k] > 0
                    /\ Cooldown[k] \in Nat /\ Cooldown[k] > 0
  BY AlertAssumption
<1>6. MaxHistory \in Nat /\ MaxHistory > 0
  BY AlertAssumption
<1>7. /\ 1 \in 1..Len(KeyOrder)
      /\ \A i \in 1..Len(KeyOrder) : KeyOrder[i] \in Keys
      /\ \A k \in Keys : \E i \in 1..Len(KeyOrder) : KeyOrder[i] = k
      /\ \A i, j \in 1..Len(KeyOrder) : KeyOrder[i] = KeyOrder[j] => i = j
  BY <1>1, <1>2, <1>3, <1>4
<1> QED
  BY <1>1, <1>5, <1>6, <1>7

LEMMA CurrentKey ==
    ASSUME TypeOK
    PROVE  Key \in Keys /\ at \in 1..Len(KeyOrder) /\ Key = KeyOrder[at]
  BY KeyFacts DEF TypeOK, Key

LEMMA RangeOfQueue ==
    /\ Range(<<>>) = {}
    /\ \A k : Range(<<k>>) = {k}
    /\ \A s \in Seq(Keys), k \in Keys : Range(Append(s, k)) = Range(s) \cup {k}
<1>1. Range(<<>>) = {}
  BY DEF Range
<1>2. ASSUME NEW k PROVE Range(<<k>>) = {k}
  BY DEF Range
<1>3. ASSUME NEW s \in Seq(Keys), NEW k \in Keys
      PROVE  Range(Append(s, k)) = Range(s) \cup {k}
  <2>1. /\ DOMAIN s = 1..Len(s) /\ Len(s) \in Nat
        /\ DOMAIN Append(s, k) = 1..Len(s) + 1
        /\ \A i \in 1..Len(s) : Append(s, k)[i] = s[i]
        /\ Append(s, k)[Len(s) + 1] = k
    OBVIOUS
  <2>2. Range(Append(s, k)) \subseteq Range(s) \cup {k}
    BY <2>1 DEF Range
  <2>3. Range(s) \subseteq Range(Append(s, k)) /\ k \in Range(Append(s, k))
    BY <2>1 DEF Range
  <2> QED
    BY <2>2, <2>3
<1> QED
  BY <1>1, <1>2, <1>3

LEMMA KeepType ==
    ASSUME NEW h \in Seq(Event), Len(h) <= MaxHistory, NEW e \in Event
    PROVE  Keep(Append(h, e)) \in Seq(Event) /\ Len(Keep(Append(h, e))) <= MaxHistory
<1>1. Append(h, e) \in Seq(Event) /\ Len(Append(h, e)) = Len(h) + 1 /\ Len(h) \in Nat
  OBVIOUS
<1>2. CASE Len(Append(h, e)) > MaxHistory
  <2>1. Append(h, e) # <<>>
    BY <1>1
  <2>2. /\ Tail(Append(h, e)) \in Seq(Event)
        /\ Len(Tail(Append(h, e))) = Len(Append(h, e)) - 1
    BY <1>1, <2>1
  <2> QED
    BY <1>1, <1>2, <2>2, KeyFacts DEF Keep
<1>3. CASE ~(Len(Append(h, e)) > MaxHistory)
  BY <1>1, <1>3, KeyFacts DEF Keep
<1> QED
  BY <1>2, <1>3

\* The content of a torn file is not a history.
LEMMA TornIsNoHistory == Torn \notin Seq(Event)
<1> SUFFICES ASSUME Torn \in Seq(Event) PROVE FALSE
  OBVIOUS
<1>1. Torn[1] \in Event
  BY DEF Torn
<1>2. Torn[1].notice \in Notices
  BY <1>1 DEF Event
<1> QED
  BY <1>2 DEF Torn, Notices

LEMMA AdvanceType ==
    ASSUME TypeOK, Advance
    PROVE  pc' \in {"check", "drain"} /\ at' \in 1..Len(KeyOrder)
<1>1. at \in 1..Len(KeyOrder) /\ Len(KeyOrder) \in Nat /\ 1 \in 1..Len(KeyOrder)
  BY KeyFacts DEF TypeOK
<1> QED
  BY <1>1 DEF Advance

\* A notice about the current key is an event, and the deque stays bounded.
LEMMA LogType ==
    ASSUME TypeOK, NEW n \in Notices, Log(n)
    PROVE  history' \in Seq(Event) /\ Len(history') <= MaxHistory
<1>1. [key |-> Key, notice |-> n] \in Event
  BY CurrentKey DEF Event
<1> QED
  BY <1>1, KeepType DEF Log, TypeOK

LEMMA LoadedType ==
    TypeOK => Loaded \in Seq(Event) /\ Len(Loaded) <= MaxHistory
  BY KeyFacts DEF TypeOK, Loaded

-----------------------------------------------------------------------------
(* The initial states and every step.                                      *)

LEMMA InitIInv == Init => IInv
<1> SUFFICES ASSUME Init PROVE IInv
  OBVIOUS
<1>1. TypeOK
  <2>1. /\ breach \in [Keys -> Nat] /\ \A k \in Keys : breach[k] <= Sustained[k]
        /\ active \in [Keys -> Int]
        /\ \A k \in Keys : active[k] \in {Inactive} \cup 0..Cooldown[k]
    BY KeyFacts DEF Init, Inactive
  <2>2. /\ history \in Seq(Event) /\ Len(history) <= MaxHistory
        /\ pending \in Seq(Keys) /\ outbox \in Seq(Keys)
        /\ file \in Seq(Event) /\ Len(file) <= MaxHistory
    BY KeyFacts DEF Init
  <2>3. /\ said \in [Keys -> Notices \cup {"none"}] /\ last \in [Keys -> Samples]
        /\ unsaved \in BOOLEAN
    BY DEF Init, Samples
  <2>4. pc = "idle" /\ at \in 1..Len(KeyOrder)
    BY KeyFacts DEF Init
  <2> QED
    BY <2>1, <2>2, <2>3, <2>4 DEF TypeOK
<1>2. ActiveIsSustained
  BY DEF ActiveIsSustained, Init
<1>3. HistoryOnDisk
  BY DEF HistoryOnDisk, Loaded, Init
<1>4. Queued /\ Handed
  BY RangeOfQueue DEF Queued, Handed, Init
<1>5. Answered
  BY KeyFacts DEF Answered, Init
<1> QED
  BY <1>1, <1>2, <1>3, <1>4, <1>5 DEF IInv

\* Every step keeps the types.
LEMMA TypeStep == IInv /\ [Next]_vars => TypeOK'
<1> SUFFICES ASSUME IInv, [Next]_vars PROVE TypeOK'
  OBVIOUS
<1> USE DEF IInv
<1>1. CASE UNCHANGED vars
  BY <1>1 DEF TypeOK, vars, memory, ghosts
<1>2. CASE StartPass
  <2>1. /\ active' \in [Keys -> Int]
        /\ \A k \in Keys : active'[k] \in {Inactive} \cup 0..Cooldown[k]
    BY <1>2, KeyFacts DEF StartPass, TypeOK, Inactive
  <2> QED
    BY <1>2, <2>1, KeyFacts DEF StartPass, TypeOK, ghosts
<1>3. CASE Skip
  <2>1. last' \in [Keys -> Samples]
    BY <1>3, CurrentKey DEF Skip, TypeOK, Samples
  <2>2. pc' \in {"check", "drain"} /\ at' \in 1..Len(KeyOrder)
    BY <1>3, AdvanceType DEF Skip
  <2> QED
    BY <1>3, <2>1, <2>2 DEF Skip, TypeOK, memory
<1>4. CASE Breach
  <2>1. last' \in [Keys -> Samples]
    BY <1>4, CurrentKey DEF Breach, TypeOK, Samples
  <2>2. Counted(Key) \in Nat /\ Counted(Key) <= Sustained[Key]
    <3>1. /\ Key \in Keys /\ breach[Key] \in Nat /\ breach[Key] <= Sustained[Key]
          /\ Sustained[Key] \in Nat
      BY CurrentKey, KeyFacts DEF TypeOK
    <3> QED
      BY <3>1 DEF Counted
  <2>3. breach' \in [Keys -> Nat] /\ \A k \in Keys : breach'[k] <= Sustained[k]
    BY <1>4, <2>2, CurrentKey DEF Breach, TypeOK
  <2>4. UNCHANGED <<pending, file, said, unsaved>>
    BY <1>4 DEF Breach
  <2>5. CASE Advance /\ UNCHANGED <<active, history, outbox>>
    BY <2>1, <2>3, <2>4, <2>5, AdvanceType DEF TypeOK
  <2>6. CASE /\ active' = [active EXCEPT ![Key] = 0]
             /\ Log("fired") /\ outbox' = <<Key>>
             /\ pc' = "save" /\ UNCHANGED at
    <3>1. /\ active' \in [Keys -> Int]
          /\ \A k \in Keys : active'[k] \in {Inactive} \cup 0..Cooldown[k]
      BY <2>6, CurrentKey, KeyFacts DEF TypeOK
    <3>2. history' \in Seq(Event) /\ Len(history') <= MaxHistory
      BY <2>6, LogType DEF Notices
    <3>3. outbox' \in Seq(Keys)
      BY <2>6, CurrentKey
    <3> QED
      BY <2>1, <2>3, <2>4, <2>6, <3>1, <3>2, <3>3 DEF TypeOK
  <2> QED
    BY <1>4, <2>5, <2>6 DEF Breach
<1>5. CASE Normal
  <2>1. last' \in [Keys -> Samples]
    BY <1>5, CurrentKey DEF Normal, TypeOK, Samples
  <2>2. breach' \in [Keys -> Nat] /\ \A k \in Keys : breach'[k] <= Sustained[k]
    BY <1>5, CurrentKey, KeyFacts DEF Normal, TypeOK
  <2>3. /\ active' \in [Keys -> Int]
        /\ \A k \in Keys : active'[k] \in {Inactive} \cup 0..Cooldown[k]
    BY <1>5, CurrentKey DEF Normal, TypeOK, Inactive
  <2>4. UNCHANGED <<outbox, file, said, unsaved>>
    BY <1>5 DEF Normal
  <2>5. CASE Advance /\ UNCHANGED <<history, pending>>
    BY <2>1, <2>2, <2>3, <2>4, <2>5, AdvanceType DEF TypeOK
  <2>6. CASE /\ Log("resolved") /\ pending' = Append(pending, Key)
             /\ pc' = "save" /\ UNCHANGED at
    <3>1. history' \in Seq(Event) /\ Len(history') <= MaxHistory
      BY <2>6, LogType DEF Notices
    <3>2. pending' \in Seq(Keys)
      BY <2>6, CurrentKey DEF TypeOK
    <3> QED
      BY <2>1, <2>2, <2>3, <2>4, <2>6, <3>1, <3>2 DEF TypeOK
  <2> QED
    BY <1>5, <2>5, <2>6 DEF Normal
<1>6. CASE OpenFile
  <2>1. /\ pc' \in {"write", "send"} /\ unsaved' \in BOOLEAN
        /\ UNCHANGED <<at, breach, active, history, pending, outbox, said, last>>
    BY <1>6 DEF OpenFile, memory, TypeOK
  <2>2. file' = Torn \/ file' = file
    BY <1>6 DEF OpenFile
  <2>3. file' = Torn \/ (file' \in Seq(Event) /\ Len(file') <= MaxHistory)
    <3>1. CASE file' = Torn
      BY <3>1 DEF TypeOK
    <3>2. CASE file' = file
      BY <3>2 DEF TypeOK
    <3> QED
      BY <2>2, <3>1, <3>2
  <2> QED
    BY <2>1, <2>3 DEF TypeOK
<1>7. CASE WriteFile
  <2>1. /\ pc' = "send" /\ unsaved' \in BOOLEAN
        /\ UNCHANGED <<at, breach, active, history, pending, outbox, said, last>>
    BY <1>7 DEF WriteFile, memory, TypeOK
  <2>2. file' = history \/ file' = file
    BY <1>7 DEF WriteFile
  <2>3. file' = Torn \/ (file' \in Seq(Event) /\ Len(file') <= MaxHistory)
    <3>1. CASE file' = history
      BY <3>1 DEF TypeOK
    <3>2. CASE file' = file
      BY <3>2 DEF TypeOK
    <3> QED
      BY <2>2, <3>1, <3>2
  <2> QED
    BY <2>1, <2>3 DEF TypeOK
<1>8. CASE SendFired
  <2>1. said' \in [Keys -> Notices \cup {"none"}]
    BY <1>8 DEF SendFired, Send, TypeOK, Notices
  <2>2. pc' \in {"check", "drain"} /\ at' \in 1..Len(KeyOrder)
    BY <1>8, AdvanceType DEF SendFired
  <2>3. outbox' \in Seq(Keys)
    BY <1>8 DEF SendFired
  <2> QED
    BY <1>8, <2>1, <2>2, <2>3 DEF SendFired, TypeOK
<1>9. CASE SendResolved
  <2>1. said' \in [Keys -> Notices \cup {"none"}]
    BY <1>9 DEF SendResolved, Send, TypeOK, Notices
  <2>2. pending' \in Seq(Keys) /\ pc' = "idle"
    BY <1>9 DEF SendResolved
  <2> QED
    BY <1>9, <2>1, <2>2 DEF SendResolved, TypeOK
<1>10. CASE Restart
  <2>1. /\ breach' \in [Keys -> Nat] /\ \A k \in Keys : breach'[k] <= Sustained[k]
        /\ active' \in [Keys -> Int]
        /\ \A k \in Keys : active'[k] \in {Inactive} \cup 0..Cooldown[k]
    BY <1>10, KeyFacts DEF Restart, Inactive
  <2>2. pending' \in Seq(Keys) /\ outbox' \in Seq(Keys) /\ UNCHANGED file
    BY <1>10 DEF Restart
  <2>3. history' \in Seq(Event) /\ Len(history') <= MaxHistory
    BY <1>10, LoadedType DEF Restart, TypeOK
  <2>4. /\ said' \in [Keys -> Notices \cup {"none"}] /\ last' \in [Keys -> Samples]
        /\ unsaved' \in BOOLEAN
    BY <1>10 DEF Restart, Samples
  <2>5. pc' = "idle" /\ at' \in 1..Len(KeyOrder)
    BY <1>10, KeyFacts DEF Restart
  <2> QED
    BY <2>1, <2>2, <2>3, <2>4, <2>5 DEF TypeOK
<1> QED
  BY <1>1, <1>2, <1>3, <1>4, <1>5, <1>6, <1>7, <1>8, <1>9, <1>10
     DEF Next, Thread

\* Counts and active alerts change together.
LEMMA SustainedStep == IInv /\ [Next]_vars => ActiveIsSustained'
<1> SUFFICES ASSUME IInv, [Next]_vars PROVE ActiveIsSustained'
  OBVIOUS
<1> USE DEF IInv
<1>1. CASE UNCHANGED vars
  BY <1>1 DEF ActiveIsSustained, vars, memory
<1>2. CASE StartPass
  <2>1. \A k \in Keys : active'[k] # Inactive => active[k] # Inactive
    BY <1>2, KeyFacts DEF StartPass, TypeOK, Inactive
  <2> QED
    BY <1>2, <2>1 DEF StartPass, ActiveIsSustained
<1>3. CASE Skip
  BY <1>3 DEF Skip, ActiveIsSustained, memory
<1>4. CASE Breach
  <2>1. /\ Key \in Keys /\ breach[Key] \in Nat /\ breach[Key] <= Sustained[Key]
        /\ Sustained[Key] \in Nat
    BY CurrentKey, KeyFacts DEF TypeOK
  <2>2. Counted(Key) <= Sustained[Key] /\ Counted(Key) \in Nat
        /\ (breach[Key] = Sustained[Key] => Counted(Key) = Sustained[Key])
    BY <2>1 DEF Counted
  <2>3. /\ \A k \in Keys \ {Key} : breach'[k] = breach[k] /\ active'[k] = active[k]
        /\ breach'[Key] = Counted(Key)
        /\ active'[Key] # active[Key] => Counted(Key) >= Sustained[Key]
    BY <1>4, <2>1 DEF Breach, TypeOK
  <2> QED
    BY <2>1, <2>2, <2>3 DEF ActiveIsSustained
<1>5. CASE Normal
  <2>1. /\ \A k \in Keys \ {Key} : breach'[k] = breach[k] /\ active'[k] = active[k]
        /\ active'[Key] = Inactive
    BY <1>5, CurrentKey DEF Normal, TypeOK
  <2> QED
    BY <2>1 DEF ActiveIsSustained
<1>6. CASE OpenFile
  BY <1>6 DEF OpenFile, ActiveIsSustained, memory
<1>7. CASE WriteFile
  BY <1>7 DEF WriteFile, ActiveIsSustained, memory
<1>8. CASE SendFired
  BY <1>8 DEF SendFired, ActiveIsSustained, memory
<1>9. CASE SendResolved
  BY <1>9 DEF SendResolved, ActiveIsSustained, memory
<1>10. CASE Restart
  BY <1>10 DEF Restart, ActiveIsSustained, memory
<1> QED
  BY <1>1, <1>2, <1>3, <1>4, <1>5, <1>6, <1>7, <1>8, <1>9, <1>10
     DEF Next, Thread

\* The file follows the history.
LEMMA DiskStep == IInv /\ [Next]_vars => HistoryOnDisk'
<1> SUFFICES ASSUME IInv, [Next]_vars PROVE HistoryOnDisk'
  OBVIOUS
<1> USE DEF IInv
<1>1. CASE UNCHANGED vars
  BY <1>1 DEF HistoryOnDisk, Loaded, vars, memory, ghosts
<1>2. CASE StartPass
  BY <1>2 DEF StartPass, Advance, HistoryOnDisk, Loaded, memory, ghosts
<1>3. CASE Skip
  BY <1>3 DEF Skip, Advance, HistoryOnDisk, Loaded, memory, ghosts
<1>4. CASE Breach
  BY <1>4 DEF Breach, Advance, HistoryOnDisk, Loaded, memory, ghosts
<1>5. CASE Normal
  BY <1>5 DEF Normal, Advance, HistoryOnDisk, Loaded, memory, ghosts
<1>6. CASE OpenFile
  BY <1>6 DEF OpenFile, Advance, HistoryOnDisk, Loaded, memory, ghosts
<1>7. CASE WriteFile
  <2>1. history # Torn
    BY TornIsNoHistory DEF TypeOK
  <2> QED
    BY <1>7, <2>1 DEF WriteFile, HistoryOnDisk, Loaded, memory
<1>8. CASE SendFired
  BY <1>8 DEF SendFired, Advance, HistoryOnDisk, Loaded, memory, ghosts
<1>9. CASE SendResolved
  BY <1>9 DEF SendResolved, Advance, HistoryOnDisk, Loaded, memory, ghosts
<1>10. CASE Restart
  BY <1>10 DEF Restart, Advance, HistoryOnDisk, Loaded, memory, ghosts
<1> QED
  BY <1>1, <1>2, <1>3, <1>4, <1>5, <1>6, <1>7, <1>8, <1>9, <1>10
     DEF Next, Thread

\* A thread that turns to the next key, or starts a save, is done with the
\* current key and with no other.
LEMMA TurnFacts ==
    ASSUME TypeOK,
           \/ pc \in {"check", "send"} /\ Advance
           \/ pc = "check" /\ pc' = "save" /\ UNCHANGED at
    PROVE  /\ \A i \in 1..Len(KeyOrder) : Evaluated(i)' => Evaluated(i) \/ i = at
           /\ \A i \in 1..Len(KeyOrder) : Evaluated(i) => Evaluated(i)'
           /\ \A i \in 1..Len(KeyOrder) : i = at => Evaluated(i)'
           /\ pc' # "idle"
<1>1. at \in 1..Len(KeyOrder) /\ Len(KeyOrder) \in Nat
  BY KeyFacts DEF TypeOK
<1>2. CASE pc \in {"check", "send"} /\ Advance
  <2>1. CASE at < Len(KeyOrder)
    <3>1. pc' = "check" /\ at' = at + 1
      BY <1>2, <2>1 DEF Advance
    <3>2. pc = "check" \/ pc = "send"
      BY <1>2
    <3> QED
      BY <1>1, <3>1, <3>2 DEF Evaluated, Saving
  <2>2. CASE ~(at < Len(KeyOrder))
    <3>1. pc' = "drain" /\ at = Len(KeyOrder)
      BY <1>1, <1>2, <2>2 DEF Advance
    <3>2. pc = "check" \/ pc = "send"
      BY <1>2
    <3> QED
      BY <1>1, <3>1, <3>2 DEF Evaluated, Saving
  <2> QED
    BY <2>1, <2>2
<1>3. CASE pc = "check" /\ pc' = "save" /\ UNCHANGED at
  BY <1>1, <1>3 DEF Evaluated, Saving
<1> QED
  BY <1>2, <1>3

\* Before the current key is evaluated, nothing about it is queued.
LEMMA CheckFacts ==
    ASSUME TypeOK, Queued, pc = "check"
    PROVE  /\ outbox = <<>> /\ Range(outbox) = {}
           /\ Key \notin Range(pending)
           /\ ~Evaluated(at)
<1>1. outbox = <<>>
  BY DEF Queued, Saving
<1>2. ~Evaluated(at)
  BY CurrentKey DEF Evaluated, Saving
<1>3. Key \notin Range(pending)
  BY <1>2, CurrentKey DEF Queued
<1> QED
  BY <1>1, <1>2, <1>3, RangeOfQueue

\* Nothing waits in a queue longer than it should.
LEMMA QueuedStep == IInv /\ [Next]_vars => Queued'
<1> SUFFICES ASSUME IInv, [Next]_vars PROVE Queued'
  OBVIOUS
<1> USE DEF IInv
<1>1. CASE UNCHANGED vars
  BY <1>1 DEF Queued, Evaluated, Key, vars, memory
<1>2. CASE StartPass
  <2>1. pending' = <<>> /\ outbox' = <<>> /\ pc' = "check"
    BY <1>2 DEF StartPass, Queued, Saving
  <2> QED
    BY <2>1, RangeOfQueue DEF Queued
<1>3. CASE Skip
  <2>1. /\ outbox' = <<>> /\ pending' = pending
        /\ pc' # "idle" /\ \A i \in 1..Len(KeyOrder) : Evaluated(i) => Evaluated(i)'
    BY <1>3, CheckFacts, TurnFacts DEF Skip, memory
  <2> QED
    BY <2>1 DEF Queued
<1>4. CASE Breach
  <2>1. /\ pending' = pending /\ Key \notin Range(pending) /\ outbox = <<>>
        /\ pc' # "idle" /\ \A i \in 1..Len(KeyOrder) : Evaluated(i) => Evaluated(i)'
    BY <1>4, CheckFacts, TurnFacts DEF Breach
  <2>2. outbox' # <<>> => pc' \in Saving /\ outbox' = <<Key>> /\ UNCHANGED at
    BY <1>4, <2>1 DEF Breach, Saving
  <2>3. outbox' # <<>> => pc' \in Saving /\ outbox' = <<Key'>> /\ Key' \notin Range(pending')
    BY <2>1, <2>2 DEF Key
  <2> QED
    BY <2>1, <2>3 DEF Queued
<1>5. CASE Normal
  <2>1. /\ outbox' = <<>>
        /\ pc' # "idle" /\ \A i \in 1..Len(KeyOrder) : i = at => Evaluated(i)'
        /\ \A i \in 1..Len(KeyOrder) : Evaluated(i) => Evaluated(i)'
    BY <1>5, CheckFacts, TurnFacts DEF Normal
  <2>2. \A k \in Keys : k \in Range(pending') => k \in Range(pending) \/ k = Key
    <3>1. CASE pending' = pending
      BY <3>1
    <3>2. CASE pending' = Append(pending, Key)
      <4>1. Range(pending') = Range(pending) \cup {Key}
        BY <3>2, RangeOfQueue, CurrentKey DEF TypeOK
      <4> QED
        BY <4>1
    <3> QED
      BY <1>5, <3>1, <3>2 DEF Normal
  <2>3. ASSUME NEW i \in 1..Len(KeyOrder), KeyOrder[i] \in Range(pending')
        PROVE  Evaluated(i)'
    <3>1. KeyOrder[i] \in Range(pending) \/ i = at
      BY <2>2, <2>3, KeyFacts, CurrentKey
    <3>2. CASE KeyOrder[i] \in Range(pending)
      <4>1. Evaluated(i)
        BY <3>2 DEF Queued
      <4> QED
        BY <2>1, <4>1
    <3>3. CASE i = at
      BY <2>1, <3>3
    <3> QED
      BY <3>1, <3>2, <3>3
  <2> QED
    BY <2>1, <2>3 DEF Queued
<1>6. CASE OpenFile
  <2>1. /\ pc \in Saving /\ pc' \in Saving /\ UNCHANGED <<at, pending, outbox>>
    BY <1>6 DEF OpenFile, memory, Saving
  <2> QED
    BY <2>1 DEF Queued, Evaluated, Key, Saving
<1>7. CASE WriteFile
  <2>1. /\ pc \in Saving /\ pc' \in Saving /\ UNCHANGED <<at, pending, outbox>>
    BY <1>7 DEF WriteFile, memory, Saving
  <2> QED
    BY <2>1 DEF Queued, Evaluated, Key, Saving
<1>8. CASE SendFired
  <2>1. /\ outbox' = <<>> /\ pending' = pending
        /\ pc' # "idle" /\ \A i \in 1..Len(KeyOrder) : Evaluated(i) => Evaluated(i)'
    BY <1>8, TurnFacts DEF SendFired
  <2> QED
    BY <2>1 DEF Queued
<1>9. CASE SendResolved
  <2>1. pending' = <<>> /\ outbox' = <<>>
    BY <1>9 DEF SendResolved, Queued, Saving
  <2> QED
    BY <2>1, RangeOfQueue DEF Queued
<1>10. CASE Restart
  <2>1. pending' = <<>> /\ outbox' = <<>>
    BY <1>10 DEF Restart
  <2> QED
    BY <2>1, RangeOfQueue DEF Queued
<1> QED
  BY <1>1, <1>2, <1>3, <1>4, <1>5, <1>6, <1>7, <1>8, <1>9, <1>10
     DEF Next, Thread

\* Alerts and notices agree, up to the queues.
LEMMA HandedStep == IInv /\ [Next]_vars => Handed'
<1> SUFFICES ASSUME IInv, [Next]_vars PROVE Handed'
  OBVIOUS
<1> USE DEF IInv
<1>1. CASE UNCHANGED vars
  BY <1>1 DEF Handed, vars, memory, ghosts
<1>2. CASE StartPass
  <2>1. \A k \in Keys : active'[k] # Inactive <=> active[k] # Inactive
    BY <1>2, KeyFacts DEF StartPass, TypeOK, Inactive
  <2> QED
    BY <1>2, <2>1 DEF StartPass, Handed, ghosts
<1>3. CASE Skip
  BY <1>3 DEF Skip, Handed, memory
<1>4. CASE Breach
  <2>1. UNCHANGED <<pending, said>> /\ Range(outbox) = {}
    BY <1>4, CheckFacts DEF Breach
  <2>2. CASE UNCHANGED <<active, outbox>>
    BY <2>1, <2>2 DEF Handed
  <2>3. CASE active' = [active EXCEPT ![Key] = 0] /\ outbox' = <<Key>>
    <3>1. /\ Range(outbox') = {Key} /\ active'[Key] # Inactive
          /\ \A k \in Keys \ {Key} : active'[k] = active[k]
      BY <2>3, RangeOfQueue, CurrentKey DEF TypeOK, Inactive
    <3> QED
      BY <2>1, <3>1 DEF Handed
  <2> QED
    BY <1>4, <2>2, <2>3 DEF Breach
<1>5. CASE Normal
  <2>1. UNCHANGED <<outbox, said>> /\ Range(outbox) = {} /\ Key \in Keys
    BY <1>5, CheckFacts, CurrentKey DEF Normal
  <2>2. active'[Key] = Inactive /\ \A k \in Keys \ {Key} : active'[k] = active[k]
    BY <1>5, CurrentKey DEF Normal, TypeOK
  <2>3. CASE active[Key] = Inactive /\ UNCHANGED pending
    BY <2>1, <2>2, <2>3 DEF Handed
  <2>4. CASE pending' = Append(pending, Key)
    <3>1. Range(pending') = Range(pending) \cup {Key}
      BY <2>1, <2>4, RangeOfQueue DEF TypeOK
    <3> QED
      BY <2>1, <2>2, <3>1 DEF Handed
  <2> QED
    BY <1>5, <2>3, <2>4 DEF Normal
<1>6. CASE OpenFile
  BY <1>6 DEF OpenFile, Handed, memory
<1>7. CASE WriteFile
  BY <1>7 DEF WriteFile, Handed, memory
<1>8. CASE SendFired
  <2>1. UNCHANGED <<active, pending>> /\ Range(outbox') = {}
    BY <1>8, RangeOfQueue DEF SendFired
  <2>2. \A k \in Keys : said'[k] = IF k \in Range(outbox) THEN "fired" ELSE said[k]
    BY <1>8 DEF SendFired, Send
  <2>3. \A k \in Range(outbox) : k \notin Range(pending)
    <3>1. CASE outbox = <<>>
      BY <3>1, RangeOfQueue
    <3>2. CASE outbox # <<>>
      BY <3>2, RangeOfQueue DEF Queued
    <3> QED
      BY <3>1, <3>2
  <2> QED
    BY <2>1, <2>2, <2>3 DEF Handed
<1>9. CASE SendResolved
  <2>1. /\ UNCHANGED <<active, outbox>> /\ Range(pending') = {} /\ Range(outbox) = {}
    BY <1>9, RangeOfQueue DEF SendResolved, Queued, Saving
  <2>2. \A k \in Keys : said'[k] = IF k \in Range(pending) THEN "resolved" ELSE said[k]
    BY <1>9 DEF SendResolved, Send
  <2> QED
    BY <2>1, <2>2 DEF Handed
<1>10. CASE Restart
  <2>1. Range(outbox') = {}
    BY <1>10, RangeOfQueue DEF Restart
  <2>2. \A k \in Keys : active'[k] = Inactive /\ said'[k] = "none"
    BY <1>10 DEF Restart
  <2> QED
    BY <2>1, <2>2 DEF Handed
<1> QED
  BY <1>1, <1>2, <1>3, <1>4, <1>5, <1>6, <1>7, <1>8, <1>9, <1>10
     DEF Next, Thread

\* A key whose breach lasts has been answered.
LEMMA AnsweredStep == IInv /\ [Next]_vars => Answered'
<1> SUFFICES ASSUME IInv, [Next]_vars PROVE Answered'
  OBVIOUS
<1> USE DEF IInv
<1>1. CASE UNCHANGED vars
  BY <1>1 DEF Answered, Evaluated, vars, memory, ghosts
<1>2. CASE StartPass
  <2>1. \A i \in 1..Len(KeyOrder) : ~Evaluated(i)'
    BY <1>2, KeyFacts DEF StartPass, Evaluated, Saving
  <2> QED
    BY <2>1 DEF Answered
<1>3. CASE Skip
  <2>1. /\ Key \in Keys /\ at \in 1..Len(KeyOrder) /\ Key = KeyOrder[at]
        /\ ~Evaluated(at)
        /\ \A i \in 1..Len(KeyOrder) : Evaluated(i)' => Evaluated(i) \/ i = at
    BY <1>3, CurrentKey, CheckFacts, TurnFacts DEF Skip
  <2>2. \A k \in Keys \ {Key} :
            last'[k] = last[k] /\ breach'[k] = breach[k] /\ active'[k] = active[k]
    BY <1>3 DEF Skip, TypeOK, memory
  <2>3. last'[Key] = "breach" /\ breach'[Key] = Sustained[Key] =>
            active'[Key] \in 0..Cooldown[Key] - 1
    BY <1>3, <2>1 DEF Skip, TypeOK
  <2>4. ASSUME NEW i \in 1..Len(KeyOrder), Evaluated(i)',
               last'[KeyOrder[i]] = "breach",
               breach'[KeyOrder[i]] = Sustained[KeyOrder[i]]
        PROVE  active'[KeyOrder[i]] \in 0..Cooldown[KeyOrder[i]] - 1
    <3>1. CASE i = at
      BY <2>1, <2>3, <2>4, <3>1
    <3>2. CASE i # at
      <4>1. Evaluated(i) /\ KeyOrder[i] \in Keys \ {Key}
        BY <2>1, <2>4, <3>2, KeyFacts
      <4> QED
        BY <2>2, <2>4, <4>1 DEF Answered
    <3> QED
      BY <3>1, <3>2
  <2> QED
    BY <2>4 DEF Answered
<1>4. CASE Breach
  <2>1. /\ Key \in Keys /\ at \in 1..Len(KeyOrder) /\ Key = KeyOrder[at]
        /\ ~Evaluated(at)
        /\ \A i \in 1..Len(KeyOrder) : Evaluated(i)' => Evaluated(i) \/ i = at
    BY <1>4, CurrentKey, CheckFacts, TurnFacts DEF Breach
  <2>2. \A k \in Keys \ {Key} :
            last'[k] = last[k] /\ breach'[k] = breach[k] /\ active'[k] = active[k]
    BY <1>4 DEF Breach, TypeOK, memory
  <2>3. last'[Key] = "breach" /\ breach'[Key] = Sustained[Key] =>
            active'[Key] \in 0..Cooldown[Key] - 1
    <3>1. /\ Cooldown[Key] \in Nat /\ Cooldown[Key] > 0 /\ Sustained[Key] \in Nat
          /\ active[Key] \in {Inactive} \cup 0..Cooldown[Key]
          /\ breach'[Key] = Counted(Key)
      BY <1>4, <2>1, KeyFacts DEF Breach, TypeOK
    <3>2. CASE active' = [active EXCEPT ![Key] = 0]
      BY <2>1, <3>1, <3>2 DEF TypeOK
    <3>3. CASE (Counted(Key) < Sustained[Key] \/ InCooldown(Key)) /\ UNCHANGED active
      BY <3>1, <3>3 DEF InCooldown, Inactive
    <3> QED
      BY <1>4, <3>2, <3>3 DEF Breach
  <2>4. ASSUME NEW i \in 1..Len(KeyOrder), Evaluated(i)',
               last'[KeyOrder[i]] = "breach",
               breach'[KeyOrder[i]] = Sustained[KeyOrder[i]]
        PROVE  active'[KeyOrder[i]] \in 0..Cooldown[KeyOrder[i]] - 1
    <3>1. CASE i = at
      BY <2>1, <2>3, <2>4, <3>1
    <3>2. CASE i # at
      <4>1. Evaluated(i) /\ KeyOrder[i] \in Keys \ {Key}
        BY <2>1, <2>4, <3>2, KeyFacts
      <4> QED
        BY <2>2, <2>4, <4>1 DEF Answered
    <3> QED
      BY <3>1, <3>2
  <2> QED
    BY <2>4 DEF Answered
<1>5. CASE Normal
  <2>1. /\ Key \in Keys /\ at \in 1..Len(KeyOrder) /\ Key = KeyOrder[at]
        /\ ~Evaluated(at)
        /\ \A i \in 1..Len(KeyOrder) : Evaluated(i)' => Evaluated(i) \/ i = at
    BY <1>5, CurrentKey, CheckFacts, TurnFacts DEF Normal
  <2>2. \A k \in Keys \ {Key} :
            last'[k] = last[k] /\ breach'[k] = breach[k] /\ active'[k] = active[k]
    BY <1>5 DEF Normal, TypeOK, memory
  <2>3. last'[Key] = "breach" /\ breach'[Key] = Sustained[Key] =>
            active'[Key] \in 0..Cooldown[Key] - 1
    BY <1>5, <2>1 DEF Normal, TypeOK
  <2>4. ASSUME NEW i \in 1..Len(KeyOrder), Evaluated(i)',
               last'[KeyOrder[i]] = "breach",
               breach'[KeyOrder[i]] = Sustained[KeyOrder[i]]
        PROVE  active'[KeyOrder[i]] \in 0..Cooldown[KeyOrder[i]] - 1
    <3>1. CASE i = at
      BY <2>1, <2>3, <2>4, <3>1
    <3>2. CASE i # at
      <4>1. Evaluated(i) /\ KeyOrder[i] \in Keys \ {Key}
        BY <2>1, <2>4, <3>2, KeyFacts
      <4> QED
        BY <2>2, <2>4, <4>1 DEF Answered
    <3> QED
      BY <3>1, <3>2
  <2> QED
    BY <2>4 DEF Answered
<1>6. CASE OpenFile
  <2>1. pc \in Saving /\ pc' \in Saving /\ UNCHANGED <<at, breach, active, last>>
    BY <1>6 DEF OpenFile, memory, Saving
  <2> QED
    BY <2>1 DEF Answered, Evaluated, Saving
<1>7. CASE WriteFile
  <2>1. pc \in Saving /\ pc' \in Saving /\ UNCHANGED <<at, breach, active, last>>
    BY <1>7 DEF WriteFile, memory, Saving
  <2> QED
    BY <2>1 DEF Answered, Evaluated, Saving
<1>8. CASE SendFired
  <2>1. \A i \in 1..Len(KeyOrder) : Evaluated(i)' => Evaluated(i) \/ i = at
    BY <1>8, TurnFacts DEF SendFired
  <2>2. Evaluated(at)
    BY <1>8, CurrentKey DEF SendFired, Evaluated, Saving
  <2> QED
    BY <1>8, <2>1, <2>2 DEF SendFired, Answered
<1>9. CASE SendResolved
  <2>1. \A i \in 1..Len(KeyOrder) : Evaluated(i)
    BY <1>9 DEF SendResolved, Evaluated
  <2> QED
    BY <1>9, <2>1 DEF SendResolved, Answered
<1>10. CASE Restart
  <2>1. \A i \in 1..Len(KeyOrder) : last'[KeyOrder[i]] = "missing"
    BY <1>10, KeyFacts DEF Restart
  <2> QED
    BY <2>1 DEF Answered
<1> QED
  BY <1>1, <1>2, <1>3, <1>4, <1>5, <1>6, <1>7, <1>8, <1>9, <1>10
     DEF Next, Thread

-----------------------------------------------------------------------------
(* The theorems.                                                           *)

LEMMA Inductive == Spec => []IInv
<1>1. IInv /\ [Next]_vars => IInv'
  BY TypeStep, SustainedStep, DiskStep, QueuedStep, HandedStep, AnsweredStep
     DEF IInv
<1> QED
  BY InitIInv, <1>1, PTL DEF Spec

\* The types, and two facts about the process's memory: an alert is active
\* only in a sustained breach, and the file follows the history between saves
\* (_evaluate, _save_history).
THEOREM MemoryInvariant == Spec => [](TypeOK /\ ActiveIsSustained /\ HistoryOnDisk)
<1>1. IInv => TypeOK /\ ActiveIsSustained /\ HistoryOnDisk
  BY DEF IInv
<1> QED
  BY Inductive, <1>1, PTL

\* When a pass ends, a sustained breach has been answered by an alert younger
\* than its cooldown (check_all, _maybe_fire_alert).
THEOREM BreachIsNeverSilent == Spec => []NeverSilent
<1>1. IInv => NeverSilent
  <2>1. ASSUME IInv, pc = "idle", NEW k \in Keys, last[k] = "breach",
               breach[k] = Sustained[k]
        PROVE  active[k] \in 0..Cooldown[k] - 1
    <3>1. PICK i \in 1..Len(KeyOrder) : KeyOrder[i] = k
      BY KeyFacts
    <3>2. Evaluated(i)
      BY <2>1 DEF Evaluated
    <3> QED
      BY <2>1, <3>1, <3>2 DEF IInv, Answered
  <2> QED
    BY <2>1 DEF NeverSilent
<1> QED
  BY Inductive, <1>1, PTL

\* When a pass ends, the last notice sent about a key tells whether its alert
\* is active (check_all).
THEOREM NoticesTellTheTruth == Spec => []SaidAgrees
<1>1. IInv => SaidAgrees
  <2>1. ASSUME IInv, pc = "idle" PROVE Range(outbox) = {} /\ Range(pending) = {}
    BY <2>1, RangeOfQueue DEF IInv, Queued, Saving
  <2> QED
    BY <2>1 DEF SaidAgrees, IInv, Handed
<1> QED
  BY Inductive, <1>1, PTL

\* The engine's variables keep their shape; the history is never longer than
\* its bound, in memory and in the file (class AlertEngine).
THEOREM EngineTypes == Spec => []TypeOK
BY MemoryInvariant, PTL

\* An alert is active only while its breach is sustained, for any sustained
\* counts and cooldowns (_evaluate).
THEOREM ActiveAlertsAreSustained == Spec => []ActiveIsSustained
BY MemoryInvariant, PTL

-----------------------------------------------------------------------------
(* The recorded history.                                                   *)

\* The last event recorded about an active alert is its firing, as far as the
\* deque still holds it.
Reopened(h) ==
    \A k \in Keys : active[k] # Inactive =>
        \A i \in 1..Len(h) : h[i] = Resolved(k) =>
            \E m \in i + 1..Len(h) : h[m] = Fired(k)

EInv == OneResolutionPerEpisode /\ Alternates(file) /\ Reopened(history)

\* The deque after an event: what it held, less at most the oldest, and the
\* event at the end.
LEMMA KeepShifts ==
    ASSUME NEW h \in Seq(Event), NEW e \in Event
    PROVE  LET a == Append(h, e) IN
           /\ Len(h) \in Nat /\ Len(a) = Len(h) + 1 /\ a[Len(h) + 1] = e
           /\ \A i \in 1..Len(h) : a[i] = h[i]
           /\ \E d \in 0..1 :
                 /\ Len(Keep(a)) = Len(h) + 1 - d
                 /\ \A i \in 1..Len(h) + 1 - d : Keep(a)[i] = a[i + d]
<1> DEFINE a == Append(h, e)
<1>1. /\ Len(h) \in Nat /\ Len(a) = Len(h) + 1 /\ a[Len(h) + 1] = e
      /\ a \in Seq(Event) /\ \A i \in 1..Len(h) : a[i] = h[i]
  OBVIOUS
<1> HIDE DEF a
<1>2. CASE Len(a) > MaxHistory
  <2>1. /\ Len(Tail(a)) = Len(h)
        /\ \A i \in 1..Len(h) : Tail(a)[i] = a[i + 1]
    BY <1>1
  <2>2. Keep(a) = Tail(a)  BY <1>2 DEF Keep
  <2> QED  BY <1>1, <2>1, <2>2 DEF a
<1>3. CASE ~(Len(a) > MaxHistory)
  <2>1. Keep(a) = a  BY <1>3 DEF Keep
  <2>2. \A i \in 1..Len(h) + 1 : a[i] = a[i + 0]  BY <1>1
  <2> QED  BY <1>1, <2>1, <2>2 DEF a
<1> QED  BY <1>2, <1>3

\* A firing may be recorded at any time, a resolution when the last event of
\* its key is a firing.
LEMMA RecordingAlternates ==
    ASSUME NEW h \in Seq(Event), Alternates(h), NEW k \in Keys,
           NEW e \in {Fired(k), Resolved(k)},
           e = Resolved(k) => \A i \in 1..Len(h) : h[i] = Resolved(k) =>
                                 \E m \in i + 1..Len(h) : h[m] = Fired(k)
    PROVE  Alternates(Keep(Append(h, e)))
<1> DEFINE a == Append(h, e)
           p == Keep(a)
<1>1. e \in Event /\ e.key = k
  BY DEF Event, Notices, Fired, Resolved
<1>2. /\ Len(h) \in Nat /\ Len(a) = Len(h) + 1 /\ a[Len(h) + 1] = e
      /\ \A i \in 1..Len(h) : a[i] = h[i]
  BY <1>1, KeepShifts
<1>3. PICK d \in 0..1 : /\ Len(p) = Len(h) + 1 - d
                        /\ \A i \in 1..Len(h) + 1 - d : p[i] = a[i + d]
  BY <1>1, KeepShifts
<1> HIDE DEF a, p
<1>4. ASSUME NEW i \in 1..Len(h) + 1, NEW j \in 1..Len(h) + 1, NEW l \in Keys,
             i < j, a[i] = Resolved(l), a[j] = Resolved(l)
      PROVE  \E m \in i + 1..j - 1 : a[m] = Fired(l)
  <2>1. i \in 1..Len(h) /\ h[i] = Resolved(l)
    BY <1>2, <1>4
  <2>2. CASE j \in 1..Len(h)
    <3>1. PICK m \in i + 1..j - 1 : h[m] = Fired(l)
      BY <1>2, <1>4, <2>1, <2>2 DEF Alternates
    <3>2. m \in 1..Len(h)  BY <1>2, <2>1, <2>2
    <3> QED  BY <1>2, <3>1, <3>2
  <2>3. CASE j = Len(h) + 1
    <3>1. e = Resolved(l) /\ l = k
      BY <1>1, <1>2, <1>4, <2>3 DEF Resolved
    <3>2. PICK m \in i + 1..Len(h) : h[m] = Fired(l)
      BY <2>1, <3>1
    <3>3. m \in 1..Len(h) /\ m \in i + 1..j - 1  BY <1>2, <2>1, <2>3
    <3> QED  BY <1>2, <3>2, <3>3
  <2> QED  BY <1>2, <2>2, <2>3
<1>5. ASSUME NEW i \in 1..Len(p), NEW j \in 1..Len(p), NEW l \in Keys,
             i < j, p[i] = Resolved(l), p[j] = Resolved(l)
      PROVE  \E m \in i + 1..j - 1 : p[m] = Fired(l)
  <2>1. /\ i + d \in 1..Len(h) + 1 /\ j + d \in 1..Len(h) + 1 /\ i + d < j + d
        /\ a[i + d] = Resolved(l) /\ a[j + d] = Resolved(l)
    BY <1>2, <1>3, <1>5
  <2>2. PICK m \in i + d + 1..j + d - 1 : a[m] = Fired(l)
    BY <1>4, <2>1
  <2>3. /\ m - d \in i + 1..j - 1 /\ m - d \in 1..Len(h) + 1 - d
        /\ (m - d) + d = m
    BY <1>2, <1>3, <2>1, <2>2
  <2>4. p[m - d] = Fired(l)
    BY <1>3, <2>2, <2>3
  <2> QED  BY <2>3, <2>4
<1> QED  BY <1>5 DEF Alternates, p, a

\* After an event, a key whose last event was a firing still has one last,
\* unless the event is its resolution; and a firing is one.
LEMMA RecordingReopens ==
    ASSUME NEW h \in Seq(Event), NEW e \in Event, NEW l \in Keys,
           \/ e = Fired(l)
           \/ /\ e # Resolved(l)
              /\ \A i \in 1..Len(h) : h[i] = Resolved(l) =>
                    \E m \in i + 1..Len(h) : h[m] = Fired(l)
    PROVE  LET p == Keep(Append(h, e)) IN
           \A i \in 1..Len(p) : p[i] = Resolved(l) =>
               \E m \in i + 1..Len(p) : p[m] = Fired(l)
<1> DEFINE a == Append(h, e)
           p == Keep(a)
<1>1. /\ Len(h) \in Nat /\ a[Len(h) + 1] = e
      /\ \A i \in 1..Len(h) : a[i] = h[i]
  BY KeepShifts
<1>2. PICK d \in 0..1 : /\ Len(p) = Len(h) + 1 - d
                        /\ \A i \in 1..Len(h) + 1 - d : p[i] = a[i + d]
  BY KeepShifts
<1>3. Fired(l) # Resolved(l)
  BY DEF Fired, Resolved
<1> HIDE DEF a, p
<1> SUFFICES ASSUME NEW i \in 1..Len(p), p[i] = Resolved(l)
             PROVE  \E m \in i + 1..Len(p) : p[m] = Fired(l)
  BY DEF p, a
<1>4. a[i + d] = Resolved(l) /\ i + d \in 1..Len(h) + 1
  BY <1>1, <1>2
<1>5. i + d \in 1..Len(h) /\ h[i + d] = Resolved(l)
  BY <1>1, <1>3, <1>4
<1>6. CASE e = Fired(l)
  <2>1. /\ Len(p) \in 1..Len(h) + 1 - d /\ Len(p) + d = Len(h) + 1
        /\ Len(p) \in i + 1..Len(p)
    BY <1>1, <1>2, <1>5
  <2>2. p[Len(p)] = Fired(l)
    BY <1>1, <1>2, <1>6, <2>1
  <2> QED  BY <2>1, <2>2
<1>7. CASE \A n \in 1..Len(h) : h[n] = Resolved(l) =>
              \E m \in n + 1..Len(h) : h[m] = Fired(l)
  <2>1. PICK m \in i + d + 1..Len(h) : h[m] = Fired(l)
    BY <1>5, <1>7
  <2>2. /\ m \in 1..Len(h) /\ m - d \in i + 1..Len(p)
        /\ m - d \in 1..Len(h) + 1 - d /\ (m - d) + d = m
    BY <1>1, <1>2, <1>5, <2>1
  <2>3. p[m - d] = Fired(l)
    BY <1>1, <1>2, <2>1, <2>2
  <2> QED  BY <2>2, <2>3
<1> QED  BY <1>6, <1>7

LEMMA EpisodeStep == TypeOK /\ EInv /\ [Next]_vars => EInv'
<1> SUFFICES ASSUME TypeOK, EInv, [Next]_vars PROVE EInv'
  OBVIOUS
<1>1. /\ Alternates(history) /\ Alternates(file) /\ Reopened(history)
      /\ history \in Seq(Event) /\ Key \in Keys
  BY CurrentKey DEF EInv, OneResolutionPerEpisode, TypeOK
<1>2. Fired(Key) \in Event /\ Resolved(Key) \in Event /\ Fired(Key) # Resolved(Key)
  BY <1>1 DEF Event, Notices, Fired, Resolved
<1>3. ASSUME NEW k \in Keys, active[k] # Inactive
      PROVE  \A i \in 1..Len(history) : history[i] = Resolved(k) =>
                 \E m \in i + 1..Len(history) : history[m] = Fired(k)
  BY <1>1, <1>3 DEF Reopened
<1>4. ASSUME history' = history, file' = file,
             \A k \in Keys : active'[k] # Inactive => active[k] # Inactive
      PROVE  EInv'
  BY <1>1, <1>4 DEF EInv, OneResolutionPerEpisode, Reopened, Alternates
<1>5. CASE StartPass
  <2>1. \A k \in Keys : active'[k] # Inactive => active[k] # Inactive
    BY <1>5, KeyFacts DEF StartPass, Inactive, TypeOK
  <2> QED  BY <1>4, <1>5, <2>1 DEF StartPass
<1>6. CASE Skip \/ SendFired \/ SendResolved \/ UNCHANGED vars
  BY <1>4, <1>6 DEF Skip, SendFired, SendResolved, vars, memory
<1>7. CASE Breach
  <2>1. file' = file
    BY <1>7 DEF Breach
  <2>2. CASE UNCHANGED <<active, history>>
    BY <1>4, <2>1, <2>2
  <2>3. CASE active' = [active EXCEPT ![Key] = 0] /\ Log("fired")
    <3>1. history' = Keep(Append(history, Fired(Key)))
      BY <2>3 DEF Log, Fired
    <3>2. Alternates(history')
      BY <1>1, <1>2, <3>1, RecordingAlternates
    <3>3. ASSUME NEW k \in Keys, active'[k] # Inactive
          PROVE  \A i \in 1..Len(history') : history'[i] = Resolved(k) =>
                     \E m \in i + 1..Len(history') : history'[m] = Fired(k)
      <4>1. CASE k = Key
        BY <1>1, <1>2, <3>1, <4>1, RecordingReopens
      <4>2. CASE k # Key
        <5>1. active[k] # Inactive
          BY <1>1, <2>3, <3>3, <4>2 DEF TypeOK
        <5>2. Fired(Key) # Resolved(k)
          BY DEF Fired, Resolved
        <5> QED  BY <1>1, <1>2, <1>3, <3>1, <5>1, <5>2, RecordingReopens
      <4> QED  BY <4>1, <4>2
    <3> QED  BY <1>1, <2>1, <3>2, <3>3
             DEF EInv, OneResolutionPerEpisode, Reopened, Alternates
  <2> QED  BY <1>7, <2>2, <2>3 DEF Breach
<1>8. CASE Normal
  <2>1. file' = file /\ active' = [active EXCEPT ![Key] = Inactive]
    BY <1>8 DEF Normal
  <2>2. \A k \in Keys : active'[k] # Inactive => active[k] # Inactive /\ k # Key
    BY <1>1, <2>1 DEF TypeOK
  <2>3. CASE history' = history
    BY <1>4, <2>1, <2>2, <2>3
  <2>4. CASE active[Key] # Inactive /\ Log("resolved")
    <3>1. history' = Keep(Append(history, Resolved(Key)))
      BY <2>4 DEF Log, Resolved
    <3>2. \A i \in 1..Len(history) : history[i] = Resolved(Key) =>
              \E m \in i + 1..Len(history) : history[m] = Fired(Key)
      BY <1>1, <1>3, <2>4
    <3>3. Alternates(history')
      BY <1>1, <3>1, <3>2, RecordingAlternates
    <3>4. ASSUME NEW k \in Keys, active'[k] # Inactive
          PROVE  \A i \in 1..Len(history') : history'[i] = Resolved(k) =>
                     \E m \in i + 1..Len(history') : history'[m] = Fired(k)
      <4>1. active[k] # Inactive /\ k # Key
        BY <2>2, <3>4
      <4>2. Resolved(Key) # Resolved(k)
        BY <4>1 DEF Resolved
      <4> QED  BY <1>1, <1>2, <1>3, <3>1, <4>1, <4>2, RecordingReopens
    <3> QED  BY <1>1, <2>1, <3>3, <3>4
             DEF EInv, OneResolutionPerEpisode, Reopened, Alternates
  <2> QED  BY <1>8, <2>3, <2>4 DEF Normal
<1>9. ASSUME UNCHANGED <<active, history>>, Alternates(file')
      PROVE  EInv'
  BY <1>1, <1>9 DEF EInv, OneResolutionPerEpisode, Reopened, Alternates
<1>10. CASE OpenFile
  <2>1. UNCHANGED <<active, history>> /\ file' \in {Torn, file}
    BY <1>10 DEF OpenFile, memory
  <2>2. Alternates(Torn)
    BY DEF Alternates, Torn
  <2> QED  BY <1>1, <1>9, <2>1, <2>2
<1>11. CASE WriteFile
  <2>1. UNCHANGED <<active, history>> /\ file' \in {history, file}
    BY <1>11 DEF WriteFile, memory
  <2> QED  BY <1>1, <1>9, <2>1
<1>12. CASE Restart
  <2>1. Alternates(Loaded)
    BY <1>1 DEF Loaded, Alternates
  <2>2. /\ history' = Loaded /\ file' = file
        /\ \A k \in Keys : active'[k] = Inactive
    BY <1>12 DEF Restart
  <2> QED  BY <1>1, <2>1, <2>2 DEF EInv, OneResolutionPerEpisode, Reopened, Alternates
<1> QED
  BY <1>5, <1>6, <1>7, <1>8, <1>10, <1>11, <1>12 DEF Next, Thread

\* The history never shows two resolutions of a key without a firing between
\* them, whatever files a restart loads and whatever the deque drops
\* (_record_resolved, _load_history).  It may show two firings in a row: a restart
\* forgets which alerts are active, and so does not resolve them.
THEOREM EpisodesAreClosedOnce == Spec => []OneResolutionPerEpisode
<1>1. Init => EInv
  BY DEF Init, EInv, OneResolutionPerEpisode, Alternates, Reopened
<1>2. EInv => OneResolutionPerEpisode
  BY DEF EInv
<1> QED
  BY <1>1, <1>2, EpisodeStep, EngineTypes, PTL DEF Spec

=============================================================================
