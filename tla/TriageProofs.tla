---------------------------- MODULE TriageProofs ----------------------------
(***************************************************************************)
(* Proofs about log-triage for all its constants: first the tracker        *)
(* (TriageState), then the pipeline that shares it (TriagePipeline).       *)
(***************************************************************************)
EXTENDS TriagePipeline, SequenceTheorems, FiniteSetTheorems,
        WellFoundedInduction, TLAPS

\* Every recorded admission has a clock value and a key.
LEMMA AdmissionFacts ==
    ASSUME TypeOK
    PROVE  /\ Len(admitted) \in Nat /\ Len(hour_window) \in Nat
           /\ \A i \in 1..Len(admitted) :
                 /\ admitted[i] \in Admission
                 /\ admitted[i].at \in Nat
                 /\ admitted[i].key \in Keys
           /\ now \in Nat /\ now >= DEDUPE_WINDOW
           /\ HOUR \in Nat /\ DEDUPE_WINDOW \in Nat /\ MAX_PER_HOUR \in Nat
           /\ \A k \in Keys : seen[k] \in Nat
<1>1. \A i \in 1..Len(admitted) : admitted[i] \in Admission
  BY ElementOfSeq DEF TypeOK
<1>2. \A t \in Times : t \in Nat /\ t >= DEDUPE_WINDOW
  BY TriageAssumption DEF Times
<1>3. \A i \in 1..Len(admitted) :
        admitted[i].at \in Nat /\ admitted[i].key \in Keys
  BY <1>1, <1>2 DEF Admission
<1>4. \A k \in Keys : seen[k] \in Nat
  BY <1>2 DEF TypeOK, Absent
<1> QED
  BY <1>1, <1>2, <1>3, <1>4, LenProperties, TriageAssumption DEF TypeOK

\* The purge loop leaves a well-typed window: its length, its entries.
LEMMA DroppedWindow ==
    ASSUME NEW w \in Seq(Times), NEW k \in 0..Len(w)
    PROVE  /\ Dropped(w, k) \in Seq(Times)
           /\ Len(Dropped(w, k)) = Len(w) - k
           /\ \A i \in 1..Len(w) - k : Dropped(w, k)[i] = w[i + k]
<1> DEFINE m == k + 1
           n == Len(w)
<1>1. m \in Int /\ n \in Int /\ n \in Nat /\ k \in Nat
  BY LenProperties
<1>2. \A i \in m..n : w[i] \in Times
  <2> TAKE i \in m..n
  <2>1. i \in 1..Len(w)  BY <1>1
  <2> QED  BY <2>1, ElementOfSeq
<1> HIDE DEF m, n
<1>3. /\ SubSeq(w, m, n) \in Seq(Times)
      /\ Len(SubSeq(w, m, n)) = IF m <= n THEN n - m + 1 ELSE 0
      /\ \A i \in 1..n - m + 1 : SubSeq(w, m, n)[i] = w[m + i - 1]
  BY <1>1, <1>2, SubSeqProperties
<1> QED  BY <1>1, <1>3 DEF Dropped, m, n

\* After the purge the window is still a suffix of the record, all it lost is
\* older than an hour, and all it kept is not.
LEMMA PurgedWindow ==
    ASSUME TypeOK, Bookkeeping,
           NEW k \in 0..Len(hour_window), PurgeStops(hour_window, k)
    PROVE  LET w == Dropped(hour_window, k) IN
           /\ w \in Seq(Times)
           /\ Len(w) \in Nat /\ Len(w) <= Len(hour_window)
           /\ IsSuffix(w)
           /\ OldBefore(w)
           /\ \A i \in Len(admitted) - Len(w) + 1 .. Len(admitted) :
                 admitted[i].at >= now - HOUR
<1> DEFINE w == Dropped(hour_window, k)
           L == Len(admitted)
           H == Len(hour_window)
<1>1. /\ w \in Seq(Times)
      /\ Len(w) = H - k
      /\ \A i \in 1..H - k : w[i] = hour_window[i + k]
  BY DroppedWindow DEF TypeOK
<1>2. /\ L \in Nat /\ H \in Nat /\ k \in Nat /\ k <= H /\ H <= L
      /\ \A i \in 1..L : admitted[i].at \in Nat
      /\ now \in Nat /\ HOUR \in Nat
  BY AdmissionFacts DEF Bookkeeping, IsSuffix
<1>3. \A i \in 1..H : hour_window[i] = admitted[L - H + i].at
  BY DEF Bookkeeping, IsSuffix
<1> HIDE DEF w, L, H
<1>4. IsSuffix(w)
  <2>1. \A i \in 1..H - k : w[i] = admitted[L - H + (i + k)].at
    BY <1>1, <1>2, <1>3
  <2> QED  BY <1>1, <1>2, <2>1 DEF IsSuffix, L
<1>5. OldBefore(w)
  <2> SUFFICES ASSUME NEW i \in 1..L - (H - k)
               PROVE  admitted[i].at < now - HOUR
    BY <1>1, <1>2 DEF OldBefore, L
  <2>1. CASE i <= L - H
    BY <2>1, <1>2 DEF Bookkeeping, OldBefore, L, H
  <2>2. CASE i > L - H
    <3>1. i - (L - H) \in 1..k /\ i - (L - H) \in 1..H
      BY <2>2, <1>2
    <3>2. hour_window[i - (L - H)] < now - HOUR
      BY <3>1 DEF PurgeStops
    <3>3. hour_window[i - (L - H)] = admitted[L - H + (i - (L - H))].at
      BY <3>1, <1>3
    <3> QED  BY <3>2, <3>3, <1>2
  <2> QED  BY <2>1, <2>2, <1>2
<1>6. \A i \in L - (H - k) + 1 .. L : admitted[i].at >= now - HOUR
  <2> SUFFICES ASSUME NEW i \in L - (H - k) + 1 .. L
               PROVE  admitted[i].at >= now - HOUR
    OBVIOUS
  <2> DEFINE f == L - H + (k + 1)
  <2>1. k < H /\ f \in 1..L /\ f <= i /\ i \in 1..L
    BY <1>2
  <2>2. hour_window[k + 1] >= now - HOUR
    BY <2>1 DEF PurgeStops, H
  <2>3. k + 1 \in 1..H
    BY <2>1, <1>2
  <2>4. hour_window[k + 1] = admitted[f].at
    BY <2>3, <1>3
  <2>5. f < i => admitted[f].at <= admitted[i].at
    BY <2>1 DEF Bookkeeping, Chronological, L
  <2> QED  BY <2>1, <2>2, <2>4, <2>5, <1>2
<1> QED  BY <1>1, <1>2, <1>4, <1>5, <1>6 DEF w, L, H

\* The length of the purged window is the number of admissions of the last
\* hour, so comparing it with MAX_PER_HOUR decides exactly the policy's rate.
LEMMA WindowCountsTheHour ==
    ASSUME TypeOK, Bookkeeping,
           NEW k \in 0..Len(hour_window), PurgeStops(hour_window, k)
    PROVE  Policy!RateExhausted
             <=> Len(Dropped(hour_window, k)) >= MAX_PER_HOUR
<1> DEFINE w == Dropped(hour_window, k)
           L == Len(admitted)
<1>1. /\ Len(w) \in Nat /\ Len(w) <= L /\ L \in Nat
      /\ \A i \in 1..L - Len(w) : admitted[i].at < now - HOUR
      /\ \A i \in L - Len(w) + 1 .. L : admitted[i].at >= now - HOUR
  BY PurgedWindow, AdmissionFacts DEF IsSuffix, OldBefore
<1>2. /\ \A i \in 1..L : admitted[i].at \in Nat
      /\ now \in Nat /\ HOUR \in Nat
  BY AdmissionFacts
<1> HIDE DEF w, L
<1>3. {i \in 1..L : admitted[i].at >= now - HOUR} = L - Len(w) + 1 .. L
  <2>1. ASSUME NEW i \in 1..L, admitted[i].at >= now - HOUR
        PROVE  i \in L - Len(w) + 1 .. L
    BY <2>1, <1>1, <1>2
  <2> QED  BY <2>1, <1>1
<1>4. Cardinality(L - Len(w) + 1 .. L) = Len(w)
  <2> DEFINE a == L - Len(w) + 1
  <2>1. a \in Int /\ L \in Int /\ L - a + 1 = Len(w) /\ (a > L => Len(w) = 0)
    BY <1>1
  <2> HIDE DEF a
  <2>2. Cardinality(a..L) = IF a > L THEN 0 ELSE L - a + 1
    BY <2>1, FS_Interval
  <2>3. Cardinality(a..L) = Len(w)
    BY <2>1, <2>2
  <2> QED  BY <2>3 DEF a
<1> QED
  BY <1>3, <1>4
  DEF Policy!RateExhausted, Policy!AdmittedSince, Policy!Cardinality,
      Cardinality, w, L

\* The table, although pruned, answers the same as the whole record.
LEMMA TableRemembersTheWindow ==
    ASSUME TypeOK, Bookkeeping, NEW key \in Keys
    PROVE  Policy!RecentlyAdmitted(key) <=> now - seen[key] < DEDUPE_WINDOW
<1>1. /\ \A i \in 1..Len(admitted) :
            admitted[i].at \in Nat /\ admitted[i].key \in Keys
      /\ now \in Nat /\ now >= DEDUPE_WINDOW /\ seen[key] \in Nat
      /\ DEDUPE_WINDOW \in Nat
  BY AdmissionFacts
<1>2. ASSUME now - seen[key] < DEDUPE_WINDOW
      PROVE  \E i \in 1..Len(admitted) :
                admitted[i].key = key /\ now - admitted[i].at < DEDUPE_WINDOW
  <2>1. seen[key] # Absent  BY <1>1, <1>2 DEF Absent
  <2> QED  BY <2>1, <1>2 DEF Bookkeeping, TableIsLatest
<1>3. ASSUME NEW i \in 1..Len(admitted), admitted[i].key = key,
             now - admitted[i].at < DEDUPE_WINDOW
      PROVE  now - seen[key] < DEDUPE_WINDOW
  <2>1. admitted[i].at <= seen[key]
    BY <1>1, <1>3 DEF Bookkeeping, TableIsLatest
  <2> QED  BY <2>1, <1>1, <1>3
<1> QED  BY <1>2, <1>3 DEF Policy!RecentlyAdmitted

\* One call of should_process is one decision of the policy.
LEMMA ConsultDecides ==
    ASSUME TypeOK, Bookkeeping, NEW key \in Keys, Consult(key)
    PROVE  /\ decision' = [key |-> key, reason |-> Policy!Verdict(key)]
           /\ admitted' = IF Policy!Verdict(key) = "ok"
                          THEN Append(admitted, [at |-> now, key |-> key])
                          ELSE admitted
<1> PICK k \in 0..Len(hour_window) :
      LET window == Dropped(hour_window, k) IN
      /\ PurgeStops(hour_window, k)
      /\ \/ /\ Len(window) >= MAX_PER_HOUR
            /\ Refuse(key, window, "rate_limited")
         \/ /\ Len(window) < MAX_PER_HOUR
            /\ now - seen[key] < DEDUPE_WINDOW
            /\ Refuse(key, window, "deduped")
         \/ /\ Len(window) < MAX_PER_HOUR
            /\ now - seen[key] >= DEDUPE_WINDOW
            /\ Admit(key, window)
  BY DEF Consult
<1> DEFINE window == Dropped(hour_window, k)
<1>1. Policy!RateExhausted <=> Len(window) >= MAX_PER_HOUR
  BY WindowCountsTheHour
<1>2. Policy!RecentlyAdmitted(key) <=> now - seen[key] < DEDUPE_WINDOW
  BY TableRemembersTheWindow
<1>3. /\ Len(window) \in Nat /\ MAX_PER_HOUR \in Nat
      /\ now - seen[key] \in Int /\ DEDUPE_WINDOW \in Nat
  BY PurgedWindow, TriageAssumption DEF TypeOK, Times, Absent
<1> HIDE DEF window
<1>4. CASE Len(window) >= MAX_PER_HOUR
  <2>1. Refuse(key, window, "rate_limited")  BY <1>3, <1>4 DEF window
  <2>2. Policy!Verdict(key) = "rate_limited"
    BY <1>1, <1>4 DEF Policy!Verdict
  <2> QED  BY <2>1, <2>2 DEF Refuse
<1>5. CASE Len(window) < MAX_PER_HOUR /\ now - seen[key] < DEDUPE_WINDOW
  <2>1. Refuse(key, window, "deduped")  BY <1>3, <1>5 DEF window
  <2>2. Policy!Verdict(key) = "deduped"
    BY <1>1, <1>2, <1>3, <1>5 DEF Policy!Verdict
  <2> QED  BY <2>1, <2>2 DEF Refuse
<1>6. CASE Len(window) < MAX_PER_HOUR /\ now - seen[key] >= DEDUPE_WINDOW
  <2>1. Admit(key, window)  BY <1>3, <1>6 DEF window
  <2>2. Policy!Verdict(key) = "ok"
    BY <1>1, <1>2, <1>3, <1>6 DEF Policy!Verdict
  <2> QED  BY <2>1, <2>2 DEF Admit
<1> QED  BY <1>3, <1>4, <1>5, <1>6

-----------------------------------------------------------------------------
LEMMA InitEstablishes == Init => TypeOK /\ Bookkeeping
<1> SUFFICES ASSUME Init PROVE TypeOK /\ Bookkeeping
  OBVIOUS
<1>1. <<>> \in Seq(Times) /\ <<>> \in Seq(Admission) /\ Len(<<>>) = 0
  OBVIOUS
<1>2. TypeOK
  BY <1>1, TriageAssumption DEF Init, TypeOK, Times
<1>3. Bookkeeping
  BY <1>1, TriageAssumption
  DEF Init, Bookkeeping, Chronological, IsSuffix, OldBefore, TableIsLatest
<1> QED  BY <1>2, <1>3

LEMMA ForgottenPreserves ==
    ASSUME TypeOK, Forgotten, UNCHANGED now
    PROVE  TypeOK' /\ Bookkeeping'
<1>1. <<>> \in Seq(Times) /\ <<>> \in Seq(Admission) /\ Len(<<>>) = 0
  OBVIOUS
<1>2. TypeOK'
  BY <1>1 DEF Forgotten, TypeOK, Times
<1>3. Bookkeeping'
  BY <1>1, TriageAssumption
  DEF Forgotten, Bookkeeping, Chronological, IsSuffix, OldBefore, TableIsLatest
<1> QED  BY <1>2, <1>3

LEMMA TickPreserves ==
    ASSUME TypeOK, Bookkeeping, Tick
    PROVE  TypeOK' /\ Bookkeeping'
<1>1. /\ seen' = seen /\ hour_window' = hour_window
      /\ decision' = decision /\ admitted' = admitted
  BY DEF Tick, limiter
<1>2. now' \in Times /\ now' > now /\ now' \in Nat
  BY TriageAssumption DEF Tick, Times, TypeOK
<1>3. TypeOK'
  BY <1>1, <1>2 DEF TypeOK
<1>4. Chronological'
  BY <1>1, <1>2, AdmissionFacts DEF Bookkeeping, Chronological
<1>5. OldBefore(hour_window)'
  <2> SUFFICES ASSUME NEW i \in 1..Len(admitted) - Len(hour_window)
               PROVE  admitted[i].at < now' - HOUR
    BY <1>1 DEF OldBefore
  <2>1. i \in 1..Len(admitted)
    BY AdmissionFacts DEF Bookkeeping, IsSuffix
  <2>2. admitted[i].at < now - HOUR
    BY DEF Bookkeeping, OldBefore
  <2> QED  BY <2>1, <2>2, <1>2, AdmissionFacts
<1>6. TableIsLatest'
  <2>1. ASSUME NEW i \in 1..Len(admitted)
        PROVE  \/ admitted[i].at <= seen[admitted[i].key]
               \/ now' - admitted[i].at >= DEDUPE_WINDOW
    BY <1>2, AdmissionFacts DEF Bookkeeping, TableIsLatest
  <2> QED  BY <2>1, <1>1 DEF Bookkeeping, TableIsLatest
<1> QED
  BY <1>1, <1>3, <1>4, <1>5, <1>6 DEF Bookkeeping, IsSuffix

\* A refusal only purges: nothing is admitted, the table is untouched.
LEMMA RefusePreserves ==
    ASSUME TypeOK, Bookkeeping, NEW key \in Keys, NEW reason \in Reasons,
           NEW k \in 0..Len(hour_window), PurgeStops(hour_window, k),
           Refuse(key, Dropped(hour_window, k), reason), UNCHANGED now
    PROVE  TypeOK' /\ Bookkeeping'
<1> DEFINE w == Dropped(hour_window, k)
<1>1. /\ w \in Seq(Times) /\ Len(w) \in Nat /\ Len(w) <= Len(hour_window)
      /\ IsSuffix(w) /\ OldBefore(w)
  BY PurgedWindow
<1>2. /\ hour_window' = w /\ decision' = [key |-> key, reason |-> reason]
      /\ seen' = seen /\ admitted' = admitted /\ now' = now
  BY DEF Refuse
<1> HIDE DEF w
<1>3. TypeOK'
  BY <1>1, <1>2 DEF TypeOK
<1>4. Len(w) <= MAX_PER_HOUR
  BY <1>1, AdmissionFacts DEF Bookkeeping
<1> QED
  BY <1>1, <1>2, <1>3, <1>4
  DEF Bookkeeping, Chronological, IsSuffix, OldBefore, TableIsLatest

\* The record after an admission.
LEMMA AppendedRecord ==
    ASSUME TypeOK, NEW key \in Keys,
           admitted' = Append(admitted, [at |-> now, key |-> key])
    PROVE  /\ admitted' \in Seq(Admission)
           /\ Len(admitted') = Len(admitted) + 1
           /\ \A i \in 1..Len(admitted) : admitted'[i] = admitted[i]
           /\ admitted'[Len(admitted) + 1].at = now
           /\ admitted'[Len(admitted) + 1].key = key
<1>1. [at |-> now, key |-> key] \in Admission
  BY DEF TypeOK, Admission
<1> QED  BY <1>1, AppendProperties DEF TypeOK

\* An admission extends the window and the record together; pruning only
\* removes entries too old to matter.
LEMMA AdmitPreserves ==
    ASSUME TypeOK, Bookkeeping, NEW key \in Keys,
           NEW k \in 0..Len(hour_window), PurgeStops(hour_window, k),
           Len(Dropped(hour_window, k)) < MAX_PER_HOUR,
           Admit(key, Dropped(hour_window, k)), UNCHANGED now
    PROVE  TypeOK' /\ Bookkeeping'
<1> DEFINE w == Dropped(hour_window, k)
           L == Len(admitted)
           W == Len(w)
<1>1. /\ w \in Seq(Times) /\ W \in Nat /\ W <= L /\ W < MAX_PER_HOUR
      /\ \A i \in 1..W : w[i] = admitted[L - W + i].at
      /\ \A i \in 1..L - W : admitted[i].at < now - HOUR
  BY PurgedWindow DEF IsSuffix, OldBefore
<1>2. /\ hour_window' = Append(w, now)
      /\ decision' = [key |-> key, reason |-> "ok"]
      /\ seen' = Pruned([seen EXCEPT ![key] = now])
      /\ admitted' = Append(admitted, [at |-> now, key |-> key])
      /\ now' = now
  BY DEF Admit
<1>3. /\ admitted' \in Seq(Admission) /\ Len(admitted') = L + 1
      /\ \A i \in 1..L : admitted'[i] = admitted[i]
      /\ admitted'[L + 1].at = now /\ admitted'[L + 1].key = key
  BY <1>2, AppendedRecord
<1>4. /\ hour_window' \in Seq(Times) /\ Len(hour_window') = W + 1
      /\ \A i \in 1..W : hour_window'[i] = w[i]
      /\ hour_window'[W + 1] = now
  BY <1>1, <1>2, AppendProperties DEF TypeOK
<1>5. /\ L \in Nat /\ MAX_PER_HOUR \in Nat
      /\ now \in Nat /\ HOUR \in Nat /\ DEDUPE_WINDOW \in Nat
      /\ \A i \in 1..L : admitted[i].at \in Nat /\ admitted[i].key \in Keys
      /\ \A i \in 1..L : admitted[i].at <= now
      /\ \A i, j \in 1..L : i < j => admitted[i].at <= admitted[j].at
      /\ \A q \in Keys : seen[q] \in Nat
      /\ seen \in [Keys -> Times \cup {Absent}] /\ now \in Times
  BY AdmissionFacts DEF Bookkeeping, Chronological, TypeOK
<1>6. /\ seen' \in [Keys -> Times \cup {Absent}]
      /\ seen'[key] = now
      /\ \A q \in Keys \ {key} :
            seen'[q] = IF now - seen[q] > DEDUPE_WINDOW * 4
                       THEN Absent ELSE seen[q]
  <2> DEFINE T == [seen EXCEPT ![key] = now]
  <2>1. /\ T \in [Keys -> Times \cup {Absent}]
        /\ T[key] = now /\ \A q \in Keys \ {key} : T[q] = seen[q]
    BY <1>5
  <2> HIDE DEF T
  <2>2. /\ seen' = [q \in Keys |-> IF now - T[q] > DEDUPE_WINDOW * 4
                                   THEN Absent ELSE T[q]]
    BY <1>2 DEF Pruned, T
  <2>3. ~(now - T[key] > DEDUPE_WINDOW * 4)
    BY <2>1, <1>5
  <2>4. \A q \in Keys : seen'[q] = IF now - T[q] > DEDUPE_WINDOW * 4
                                  THEN Absent ELSE T[q]
    BY <2>2
  <2>5. seen' \in [Keys -> Times \cup {Absent}]
    BY <2>1, <2>2
  <2> QED  BY <2>1, <2>3, <2>4, <2>5
<1> HIDE DEF w, L, W
<1>7. TypeOK'
  BY <1>2, <1>3, <1>4, <1>5, <1>6 DEF TypeOK, Reasons
<1>8. Chronological'
  BY <1>2, <1>3, <1>5 DEF Chronological
<1>9. IsSuffix(hour_window)'
  <2>1. ASSUME NEW i \in 1..W + 1
        PROVE  hour_window'[i] = admitted'[(L + 1) - (W + 1) + i].at
    <3>1. (L + 1) - (W + 1) + i = L - W + i
      BY <1>1, <1>5
    <3>2. CASE i = W + 1
      <4>1. L - W + i = L + 1
        BY <3>2, <1>1, <1>5
      <4> QED  BY <3>1, <3>2, <4>1, <1>3, <1>4
    <3>3. CASE i \in 1..W
      <4>1. L - W + i \in 1..L
        BY <3>3, <1>1, <1>5
      <4>2. hour_window'[i] = w[i] /\ w[i] = admitted[L - W + i].at
        BY <3>3, <1>1, <1>4
      <4>3. admitted'[L - W + i] = admitted[L - W + i]
        BY <4>1, <1>3
      <4> QED  BY <3>1, <4>2, <4>3
    <3> QED  BY <3>2, <3>3, <1>1
  <2> QED  BY <2>1, <1>1, <1>3, <1>4, <1>5 DEF IsSuffix
<1>10. OldBefore(hour_window)'
  BY <1>1, <1>2, <1>3, <1>4, <1>5 DEF OldBefore
<1>11. TableIsLatest'
  <2>1. ASSUME NEW q \in Keys, seen'[q] # Absent
        PROVE  \E i \in 1..L + 1 :
                  admitted'[i].key = q /\ admitted'[i].at = seen'[q]
    <3>1. CASE q = key
      BY <3>1, <1>3, <1>5, <1>6
    <3>2. CASE q # key
      <4>1. seen'[q] = seen[q] /\ seen[q] # Absent
        BY <3>2, <2>1, <1>6
      <4>2. PICK i \in 1..L : admitted[i].key = q /\ admitted[i].at = seen[q]
        BY <4>1 DEF Bookkeeping, TableIsLatest, L
      <4> QED  BY <4>1, <4>2, <1>3, <1>5
    <3> QED  BY <3>1, <3>2
  <2>2. ASSUME NEW i \in 1..L + 1
        PROVE  \/ admitted'[i].at <= seen'[admitted'[i].key]
               \/ now - admitted'[i].at >= DEDUPE_WINDOW
    <3>1. CASE i = L + 1 \/ admitted'[i].key = key
      BY <3>1, <1>3, <1>5, <1>6
    <3>2. CASE i \in 1..L /\ admitted[i].key # key
      <4> DEFINE q == admitted[i].key
      <4>1. q \in Keys \ {key} /\ admitted'[i] = admitted[i]
        BY <3>2, <1>3, <1>5
      <4>2. admitted[i].at <= seen[q] \/ now - admitted[i].at >= DEDUPE_WINDOW
        BY <3>2 DEF Bookkeeping, TableIsLatest, L
      <4>3. seen'[q] = seen[q] \/ now - seen[q] > DEDUPE_WINDOW * 4
        BY <4>1, <1>6
      <4>4. seen[q] \in Nat /\ admitted[i].at \in Nat
        BY <4>1, <3>2, <1>5
      <4> HIDE DEF q
      <4>5. admitted[i].at <= seen'[q] \/ now - admitted[i].at >= DEDUPE_WINDOW
        <5>1. CASE seen'[q] = seen[q]
          BY <5>1, <4>2
        <5>2. CASE now - seen[q] > DEDUPE_WINDOW * 4
          <6>1. now \in Nat /\ DEDUPE_WINDOW \in Nat
            BY <1>5
          <6> QED  BY <5>2, <6>1, <4>2, <4>4
        <5> QED  BY <5>1, <5>2, <4>3
      <4> QED  BY <4>1, <4>5 DEF q
    <3> QED  BY <3>1, <3>2, <1>3, <1>5
  <2> QED  BY <2>1, <2>2, <1>2, <1>3 DEF TableIsLatest
<1>12. Len(hour_window') <= MAX_PER_HOUR
  BY <1>1, <1>4, <1>5
<1> QED
  BY <1>7, <1>8, <1>9, <1>10, <1>11, <1>12 DEF Bookkeeping

LEMMA ConsultPreserves ==
    ASSUME TypeOK, Bookkeeping, NEW key \in Keys, ShouldProcess(key)
    PROVE  TypeOK' /\ Bookkeeping'
<1> PICK k \in 0..Len(hour_window) :
      LET window == Dropped(hour_window, k) IN
      /\ PurgeStops(hour_window, k)
      /\ \/ /\ Len(window) >= MAX_PER_HOUR
            /\ Refuse(key, window, "rate_limited")
         \/ /\ Len(window) < MAX_PER_HOUR
            /\ now - seen[key] < DEDUPE_WINDOW
            /\ Refuse(key, window, "deduped")
         \/ /\ Len(window) < MAX_PER_HOUR
            /\ now - seen[key] >= DEDUPE_WINDOW
            /\ Admit(key, window)
  BY DEF ShouldProcess, Consult
<1>1. UNCHANGED now  BY DEF ShouldProcess
<1>2. CASE Refuse(key, Dropped(hour_window, k), "rate_limited")
  BY <1>1, <1>2, RefusePreserves DEF Reasons
<1>3. CASE Refuse(key, Dropped(hour_window, k), "deduped")
  BY <1>1, <1>3, RefusePreserves DEF Reasons
<1>4. CASE /\ Len(Dropped(hour_window, k)) < MAX_PER_HOUR
           /\ Admit(key, Dropped(hour_window, k))
  BY <1>1, <1>4, AdmitPreserves
<1> QED  BY <1>2, <1>3, <1>4

LEMMA NextPreserves == TypeOK /\ Bookkeeping /\ [Next]_vars
                          => TypeOK' /\ Bookkeeping'
<1> SUFFICES ASSUME TypeOK, Bookkeeping, [Next]_vars
             PROVE  TypeOK' /\ Bookkeeping'
  OBVIOUS
<1>1. CASE \E key \in Keys : ShouldProcess(key)
  BY <1>1, ConsultPreserves
<1>2. CASE Tick
  BY <1>2, TickPreserves
<1>3. CASE Restart
  BY <1>3, ForgottenPreserves DEF Restart
<1>4. CASE UNCHANGED vars
  BY <1>4
  DEF vars, limiter, TypeOK, Bookkeeping, Chronological, IsSuffix, OldBefore,
      TableIsLatest
<1> QED  BY <1>1, <1>2, <1>3, <1>4 DEF Next

\* Every reachable state is well typed and its window and table summarise the
\* admission record (class _State, should_process).
THEOREM TrackerInvariant == Spec => [](TypeOK /\ Bookkeeping)
<1>1. Init => TypeOK /\ Bookkeeping
  BY InitEstablishes
<1>2. TypeOK /\ Bookkeeping /\ [Next]_vars => TypeOK' /\ Bookkeeping'
  BY NextPreserves
<1> QED  BY <1>1, <1>2, PTL DEF Spec

\* The purging tracker answers every call exactly as the policy over the
\* complete admission record would (should_process refines "same source IP is
\* ignored for DEDUPE_WINDOW, at most MAX_PER_HOUR").
THEOREM TrackerImplementsPolicy == Spec => ImplementsPolicy
<1>1. Init => Policy!PolicyInit
  BY DEF Init, Policy!PolicyInit, NoDecision, Policy!NoDecision
<1>2. TypeOK /\ Bookkeeping /\ [Next]_vars
        => [Policy!PolicyNext]_Policy!policyVars
  <2> SUFFICES ASSUME TypeOK, Bookkeeping, [Next]_vars
               PROVE  [Policy!PolicyNext]_Policy!policyVars
    OBVIOUS
  <2>1. ASSUME NEW key \in Keys, ShouldProcess(key)
        PROVE  Policy!Decide(key)
    BY <2>1, ConsultDecides DEF ShouldProcess, Policy!Decide
  <2>2. CASE Tick
    BY <2>2 DEF Tick, limiter, Policy!PolicyNext, Policy!TimePasses
  <2>3. CASE Restart
    BY <2>3
    DEF Restart, Forgotten, Policy!PolicyNext, Policy!Forget, NoDecision,
        Policy!NoDecision
  <2>4. CASE UNCHANGED vars
    BY <2>4 DEF vars, limiter, Policy!policyVars
  <2> QED  BY <2>1, <2>2, <2>3, <2>4 DEF Next, Policy!PolicyNext
<1> QED
  BY <1>1, <1>2, TrackerInvariant, PTL
  DEF Spec, ImplementsPolicy, Policy!PolicySpec

\* What is true of the record when a call admits key.
LEMMA AdmissionPremise ==
    ASSUME TypeOK, Bookkeeping, NEW key \in Keys, ShouldProcess(key),
           admitted' # admitted
    PROVE  /\ admitted' = Append(admitted, [at |-> now, key |-> key])
           /\ \A i \in 1..Len(admitted) :
                 i + MAX_PER_HOUR > Len(admitted) + 1
                   \/ admitted[i].at < now - HOUR
           /\ \A i \in 1..Len(admitted) :
                 admitted[i].key = key =>
                   now - admitted[i].at >= DEDUPE_WINDOW
<1>1. /\ admitted' = Append(admitted, [at |-> now, key |-> key])
      /\ Policy!Verdict(key) = "ok"
  BY ConsultDecides DEF ShouldProcess
<1>2. ~Policy!RateExhausted /\ ~Policy!RecentlyAdmitted(key)
  BY <1>1 DEF Policy!Verdict
<1>3. PICK k \in 0..Len(hour_window) : PurgeStops(hour_window, k)
  BY DEF ShouldProcess, Consult
<1> DEFINE w == Dropped(hour_window, k)
<1>4. /\ Len(w) \in Nat /\ Len(w) <= Len(admitted)
      /\ \A i \in 1..Len(admitted) - Len(w) : admitted[i].at < now - HOUR
  BY <1>3, PurgedWindow DEF IsSuffix, OldBefore
<1>5. Len(w) < MAX_PER_HOUR
  BY <1>2, <1>3, <1>4, WindowCountsTheHour, AdmissionFacts
<1> HIDE DEF w
<1>6. \A i \in 1..Len(admitted) :
        i + MAX_PER_HOUR > Len(admitted) + 1 \/ admitted[i].at < now - HOUR
  BY <1>4, <1>5, AdmissionFacts
<1>7. \A i \in 1..Len(admitted) :
        admitted[i].key = key => now - admitted[i].at >= DEDUPE_WINDOW
  BY <1>2, AdmissionFacts DEF Policy!RecentlyAdmitted
<1> QED  BY <1>1, <1>6, <1>7

\* Only an admission or a restart touches the record.
LEMMA RecordSteps ==
    ASSUME [Next]_vars
    PROVE  \/ admitted' = admitted
           \/ admitted' = <<>>
           \/ \E key \in Keys : ShouldProcess(key) /\ admitted' # admitted
BY DEF Next, Tick, Restart, Forgotten, vars, limiter

LEMMA RateCapStep ==
    ASSUME TypeOK, Bookkeeping, RateCap, [Next]_vars
    PROVE  RateCap'
<1>1. CASE admitted' = admitted
  BY <1>1 DEF RateCap
<1>2. CASE admitted' = <<>>
  BY <1>2 DEF RateCap
<1>3. ASSUME NEW key \in Keys, ShouldProcess(key), admitted' # admitted
      PROVE  RateCap'
  <2> DEFINE L == Len(admitted)
  <2>1. /\ Len(admitted') = L + 1
        /\ \A i \in 1..L : admitted'[i] = admitted[i]
        /\ admitted'[L + 1].at = now
        /\ \A i \in 1..L : i + MAX_PER_HOUR > L + 1
                            \/ admitted[i].at < now - HOUR
    BY <1>3, AdmissionPremise, AppendedRecord
  <2>2. /\ L \in Nat /\ MAX_PER_HOUR \in Nat \ {0} /\ HOUR \in Nat
        /\ now \in Nat /\ \A i \in 1..L : admitted[i].at \in Nat
    BY AdmissionFacts, TriageAssumption
  <2> HIDE DEF L
  <2> SUFFICES ASSUME NEW i \in 1..L + 1, i + MAX_PER_HOUR <= L + 1
               PROVE  admitted'[i + MAX_PER_HOUR].at - admitted'[i].at > HOUR
    BY <2>1 DEF RateCap
  <2>3. i \in 1..L /\ admitted'[i] = admitted[i]
    BY <2>1, <2>2
  <2>4. CASE i + MAX_PER_HOUR = L + 1
    <3>1. admitted[i].at < now - HOUR
      BY <2>1, <2>2, <2>3, <2>4
    <3>2. admitted'[i + MAX_PER_HOUR].at = now
      BY <2>1, <2>4
    <3> QED  BY <3>1, <3>2, <2>2, <2>3
  <2>5. CASE i + MAX_PER_HOUR <= L
    <3>1. i + MAX_PER_HOUR \in 1..L
      BY <2>2, <2>3, <2>5
    <3>2. admitted'[i + MAX_PER_HOUR] = admitted[i + MAX_PER_HOUR]
      BY <3>1, <2>1
    <3>3. admitted[i + MAX_PER_HOUR].at - admitted[i].at > HOUR
      BY <2>3, <2>5 DEF RateCap, L
    <3> QED  BY <3>2, <3>3, <2>3
  <2> QED  BY <2>2, <2>4, <2>5
<1> QED  BY <1>1, <1>2, <1>3, RecordSteps

\* At most MAX_PER_HOUR summaries are paid for in any hour of one process life
\* (should_process, "Total summaries capped at MAX_PER_HOUR").
THEOREM SpendIsCapped == Spec => []RateCap
<1>1. Init => RateCap
  BY DEF Init, RateCap
<1>2. RateCap /\ TypeOK /\ Bookkeeping /\ [Next]_vars => RateCap'
  BY RateCapStep
<1> QED  BY <1>1, <1>2, TrackerInvariant, PTL DEF Spec

LEMMA SpacingStep ==
    ASSUME TypeOK, Bookkeeping, DedupeSpacing, [Next]_vars
    PROVE  DedupeSpacing'
<1>1. CASE admitted' = admitted
  BY <1>1 DEF DedupeSpacing
<1>2. CASE admitted' = <<>>
  BY <1>2 DEF DedupeSpacing
<1>3. ASSUME NEW key \in Keys, ShouldProcess(key), admitted' # admitted
      PROVE  DedupeSpacing'
  <2> DEFINE L == Len(admitted)
  <2>1. /\ Len(admitted') = L + 1
        /\ \A i \in 1..L : admitted'[i] = admitted[i]
        /\ admitted'[L + 1].at = now /\ admitted'[L + 1].key = key
        /\ \A i \in 1..L : admitted[i].key = key =>
                               now - admitted[i].at >= DEDUPE_WINDOW
    BY <1>3, AdmissionPremise, AppendedRecord
  <2>2. L \in Nat
    BY AdmissionFacts
  <2>3. \A i, j \in 1..L : i < j /\ admitted[i].key = admitted[j].key =>
          admitted[j].at - admitted[i].at >= DEDUPE_WINDOW
    BY DEF DedupeSpacing
  <2> HIDE DEF L
  <2> QED  BY <2>1, <2>2, <2>3 DEF DedupeSpacing
<1> QED  BY <1>1, <1>2, <1>3, RecordSteps

\* Two summaries of one IP are at least DEDUPE_WINDOW apart, whatever the
\* table has forgotten in between (should_process).
THEOREM SummariesAreSpaced == Spec => []DedupeSpacing
<1>1. Init => DedupeSpacing
  BY DEF Init, DedupeSpacing
<1>2. DedupeSpacing /\ TypeOK /\ Bookkeeping /\ [Next]_vars => DedupeSpacing'
  BY SpacingStep
<1> QED  BY <1>1, <1>2, TrackerInvariant, PTL DEF Spec

\* The tracker's variables keep their shape: every remembered time is a clock
\* value, for all windows, rates and keys (class _State).
THEOREM TrackerTypes == Spec => []TypeOK
BY TrackerInvariant, PTL

LEMMA MemoryStep ==
    ASSUME TypeOK, Bookkeeping, Bookkeeping', MemoryBounded, [Next]_vars
    PROVE  MemoryBounded'
<1>1. Len(hour_window') <= MAX_PER_HOUR
  BY DEF Bookkeeping
<1>2. CASE admitted' = <<>>
  BY <1>1, <1>2 DEF MemoryBounded
<1>3. CASE admitted' = admitted /\ seen' = seen
  BY <1>1, <1>3 DEF MemoryBounded
<1>4. ASSUME NEW key \in Keys, seen' = Pruned([seen EXCEPT ![key] = now]),
             admitted' = Append(admitted, [at |-> now, key |-> key])
      PROVE  MemoryBounded'
  <2>1. admitted'[Len(admitted')].at = now
    BY <1>4, AppendedRecord
  <2>2. ASSUME NEW k \in Keys, seen'[k] # Absent
        PROVE  now - seen'[k] <= DEDUPE_WINDOW * 4
    <3> DEFINE marked == [seen EXCEPT ![key] = now]
    <3>1. marked[k] \in Nat /\ now \in Nat /\ DEDUPE_WINDOW * 4 \in Nat
      BY TriageAssumption DEF TypeOK, Times, Absent
    <3>2. seen'[k] = IF now - marked[k] > DEDUPE_WINDOW * 4 THEN Absent ELSE marked[k]
      BY <1>4 DEF Pruned
    <3> HIDE DEF marked
    <3> QED  BY <2>2, <3>1, <3>2
  <2> QED  BY <1>1, <2>1, <2>2 DEF MemoryBounded
<1> QED
  BY <1>2, <1>3, <1>4
  DEF Next, Tick, Restart, Forgotten, ShouldProcess, Consult, Refuse, Admit, vars, limiter

\* The tracker remembers no more than one rate window of timestamps and, after
\* an admission, nothing older than four de-duplication windows: its memory is
\* bounded however many addresses it has seen (should_process's pruning).
THEOREM MemoryStaysBounded == Spec => []MemoryBounded
<1>1. Init => MemoryBounded
  BY TriageAssumption DEF Init, MemoryBounded
<1>2. TypeOK /\ Bookkeeping /\ (Bookkeeping)' /\ MemoryBounded /\ [Next]_vars
         => MemoryBounded'
  BY MemoryStep
<1> QED  BY <1>1, <1>2, TrackerInvariant, PTL DEF Spec

-----------------------------------------------------------------------------
\* A non-empty set of numbers has a least one.
LEMMA LeastElement ==
    ASSUME NEW K \in SUBSET Nat, K # {}
    PROVE  \E m \in K : \A n \in K : m <= n
<1> DEFINE T == {0..k : k \in K}
           R == StrictSubsetOrdering(Nat)
           S == FiniteSubsetsOf(Nat)
<1>1. IsWellFoundedOn(R, S)
    BY FS_StrictSubsetOrderingWellFounded
<1>2. T \subseteq S
    <2>1. \A k \in K : 0..k \in SUBSET Nat
        OBVIOUS
    <2>2. \A k \in K : IsFiniteSet(0..k)
        BY FS_Interval
    <2> QED
        BY <2>1, <2>2 DEF FiniteSubsetsOf
<1>3. T # {}
    OBVIOUS
<1>4. PICK X \in T : \A Y \in T : ~(<<Y, X>> \in R)
    <2> HIDE DEF T, R, S
    <2> QED BY <1>1, <1>2, <1>3, WFMin
<1>5. PICK m \in K : X = 0..m
    BY <1>4
<1>6. ASSUME NEW n \in K, n < m PROVE FALSE
    <2>1. 0..n \in T /\ 0..n \in SUBSET Nat /\ 0..m \in SUBSET Nat
        OBVIOUS
    <2>2. 0..n \subseteq 0..m /\ m \in 0..m /\ m \notin 0..n
        BY <1>6
    <2>3. <<0..n, 0..m>> \in R
        BY <2>1, <2>2 DEF StrictSubsetOrdering
    <2> QED
        BY <1>4, <1>5, <2>1, <2>3
<1> QED BY <1>6

Rising(f, n) == \A i, j \in 1..n : i < j => f[i] < f[j]

\* Every finite set of numbers can be listed in ascending order: the smallest
\* set that could not would lose its least element and then could.
LEMMA AscendingExists ==
    ASSUME NEW S \in SUBSET Nat, IsFiniteSet(S)
    PROVE  \E f \in [1..Cardinality(S) -> S] : Rising(f, Cardinality(S))
<1> DEFINE Listed(X) == \E f \in [1..Cardinality(X) -> X] : Rising(f, Cardinality(X))
           F == FiniteSubsetsOf(Nat)
           R == StrictSubsetOrdering(Nat)
           T == {X \in F : ~Listed(X)}
<1>1. IsWellFoundedOn(R, F)
    BY FS_StrictSubsetOrderingWellFounded
<1>2. ASSUME T # {} PROVE FALSE
  <2>1. PICK X \in T : \A Y \in T : ~(<<Y, X>> \in R)
    <3>1. T \subseteq F  OBVIOUS
    <3> HIDE DEF T, F, R
    <3> QED  BY <1>1, <1>2, <3>1, WFMin
  <2>2. X \in SUBSET Nat /\ IsFiniteSet(X) /\ ~Listed(X)
    BY <2>1 DEF FiniteSubsetsOf
  <2>3. X # {}
    <3> SUFFICES ASSUME X = {} PROVE Listed(X)
      BY <2>2
    <3>1. Cardinality(X) = 0  BY FS_EmptySet
    <3>2. [i \in 1..0 |-> i] \in [1..0 -> X]  OBVIOUS
    <3> QED  BY <3>1, <3>2 DEF Rising
  <2>4. PICK m \in X : \A n \in X : m <= n
    BY <2>2, <2>3, LeastElement
  <2> DEFINE Y == X \ {m}
             c == Cardinality(Y)
  <2>5. /\ Y \in SUBSET Nat /\ IsFiniteSet(Y) /\ Y \subseteq X /\ m \notin Y
        /\ Cardinality(X) = c + 1 /\ c \in Nat
    <3>1. IsFiniteSet(Y) /\ c = Cardinality(X) - 1
      BY <2>2, FS_RemoveElement
    <3>2. Cardinality(X) \in Nat /\ c \in Nat
      BY <2>2, <3>1, FS_CardinalityType
    <3> QED  BY <2>2, <3>1, <3>2
  <2>6. <<Y, X>> \in R
    BY <2>2, <2>5 DEF StrictSubsetOrdering
  <2>7. Listed(Y)
    <3>1. Y \in F  BY <2>5 DEF FiniteSubsetsOf
    <3> QED  BY <2>1, <2>6, <3>1
  <2>8. PICK f \in [1..c -> Y] : Rising(f, c)
    BY <2>7
  <2> HIDE DEF Y, c
  <2> DEFINE h == [i \in 1..c + 1 |-> IF i = 1 THEN m ELSE f[i - 1]]
  <2>9. h \in [1..c + 1 -> X]
    <3>1. \A i \in 1..c + 1 : i # 1 => i - 1 \in 1..c
      BY <2>5
    <3>2. \A i \in 1..c + 1 : (IF i = 1 THEN m ELSE f[i - 1]) \in X
      BY <3>1, <2>5, <2>8, <2>4
    <3> QED  BY <3>2
  <2>10. Rising(h, c + 1)
    <3> SUFFICES ASSUME NEW i \in 1..c + 1, NEW j \in 1..c + 1, i < j
                 PROVE  h[i] < h[j]
      BY DEF Rising
    <3>1. h[j] = f[j - 1] /\ j - 1 \in 1..c /\ f[j - 1] \in Y
      BY <2>5, <2>8
    <3>2. CASE i = 1
      <4>1. h[i] = m /\ m <= f[j - 1] /\ m # f[j - 1]
        BY <3>1, <3>2, <2>4, <2>5
      <4>2. m \in Nat /\ f[j - 1] \in Nat
        BY <2>2, <2>4, <2>5, <3>1
      <4> QED  BY <3>1, <4>1, <4>2
    <3>3. CASE i # 1
      <4>1. h[i] = f[i - 1] /\ i - 1 \in 1..c /\ i - 1 < j - 1
        BY <2>5, <3>3
      <4> QED  BY <3>1, <4>1, <2>8 DEF Rising
    <3> QED  BY <3>2, <3>3
  <2> QED  BY <2>2, <2>5, <2>9, <2>10
<1>3. S \in F
    BY DEF FiniteSubsetsOf
<1> QED  BY <1>2, <1>3

\* What Ascending returns: an enumeration of the set, smallest first.
LEMMA AscendingLists ==
    ASSUME NEW S \in SUBSET Nat, IsFiniteSet(S)
    PROVE  /\ Ascending(S) \in [1..Cardinality(S) -> S]
           /\ Rising(Ascending(S), Cardinality(S))
           /\ Cardinality(S) \in Nat
BY AscendingExists, FS_CardinalityType DEF Ascending, Rising

\* A batch becomes a sequence of groups, one per source IP and without one that
\* no alert names.
LEMMA GroupsAreAddresses ==
    ASSUME NEW alerts \in Seq(Keys)
    PROVE  /\ GroupByIp(alerts) \in Seq(Keys)
           /\ \A g, h \in 1..Len(GroupByIp(alerts)) :
                 g # h => GroupByIp(alerts)[g] # GroupByIp(alerts)[h]
           /\ \A g \in 1..Len(GroupByIp(alerts)) :
                 \E i \in 1..Len(alerts) : alerts[i] = GroupByIp(alerts)[g]
           /\ \A i \in 1..Len(alerts) :
                 \E g \in 1..Len(GroupByIp(alerts)) : alerts[i] = GroupByIp(alerts)[g]
<1> DEFINE first == {i \in 1..Len(alerts) : \A j \in 1..i - 1 : alerts[j] # alerts[i]}
           n == Cardinality(first)
           order == Ascending(first)
<1>1. Len(alerts) \in Nat /\ DOMAIN alerts = 1..Len(alerts)
  BY LenProperties
<1>2. first \in SUBSET Nat /\ IsFiniteSet(first)
  <2>1. IsFiniteSet(1..Len(alerts))  BY <1>1, FS_Interval
  <2> QED  BY <1>1, <2>1, FS_Subset
<1>3. order \in [1..n -> first] /\ Rising(order, n) /\ n \in Nat
  BY <1>2, AscendingLists
<1>4. GroupByIp(alerts) = [g \in 1..n |-> alerts[order[g]]]
  <2>1. GroupByIp(alerts) = [g \in DOMAIN order |-> alerts[order[g]]]
    BY <1>1 DEF GroupByIp
  <2> QED  BY <1>3, <2>1
<1>5. \A i \in first : i \in 1..Len(alerts) /\ alerts[i] \in Keys
  BY ElementOfSeq
<1>6. \A i, k \in first : i < k => alerts[i] # alerts[k]
  <2> SUFFICES ASSUME NEW i \in first, NEW k \in first, i < k
               PROVE  alerts[i] # alerts[k]
    OBVIOUS
  <2>1. i \in 1..k - 1  BY <1>1
  <2> QED  BY <2>1
<1>7. \A i \in 1..Len(alerts) : \E k \in first : alerts[k] = alerts[i]
  <2> SUFFICES ASSUME NEW i \in 1..Len(alerts)
               PROVE  \E k \in first : alerts[k] = alerts[i]
    OBVIOUS
  <2> DEFINE same == {k \in 1..Len(alerts) : alerts[k] = alerts[i]}
  <2>1. same \in SUBSET Nat /\ same # {}  BY <1>1
  <2>2. PICK k \in same : \A j \in same : k <= j  BY <2>1, LeastElement
  <2>3. \A j \in 1..k - 1 : alerts[j] # alerts[k]
    <3>1. ASSUME NEW j \in 1..k - 1 PROVE j \in 1..Len(alerts) /\ ~(k <= j)
      BY <1>1, <2>1
    <3> QED  BY <2>2, <3>1
  <2> QED  BY <2>2, <2>3
<1> HIDE DEF first, n, order
<1>8. \A k \in first : \E g \in 1..n : order[g] = k
  <2>1. \A g, h \in 1..n : order[g] = order[h] => g = h
    <3> SUFFICES ASSUME NEW g \in 1..n, NEW h \in 1..n, g # h
                 PROVE  order[g] # order[h]
      OBVIOUS
    <3>1. g < h \/ h < g  BY <1>3
    <3>2. order[g] \in Nat /\ order[h] \in Nat  BY <1>2, <1>3
    <3> QED  BY <1>3, <3>1, <3>2 DEF Rising
  <2>2. order \in Injection(1..n, first)
    BY <1>3, <2>1 DEF Injection, IsInjective
  <2>3. Cardinality(1..n) = n
    BY <1>3, FS_Interval
  <2>4. order \in Surjection(1..n, first)
    BY <1>2, <2>2, <2>3, FS_Injection DEF n
  <2> QED  BY <2>4 DEF Surjection
<1>9. GroupByIp(alerts) \in Seq(Keys) /\ Len(GroupByIp(alerts)) = n
  <2>1. GroupByIp(alerts) \in [1..n -> Keys]
    BY <1>3, <1>4, <1>5
  <2> QED  BY <1>3, <2>1, SeqDef, LenProperties
<1>10. ASSUME NEW g \in 1..n, NEW h \in 1..n, g # h
      PROVE  alerts[order[g]] # alerts[order[h]]
  <2>1. g < h \/ h < g  BY <1>3, <1>10
  <2>2. order[g] \in first /\ order[h] \in first  BY <1>3
  <2> QED  BY <1>3, <1>6, <2>1, <2>2 DEF Rising
<1>11. \A i \in 1..Len(alerts) : \E g \in 1..n : alerts[i] = alerts[order[g]]
  BY <1>7, <1>8
<1>12. \A g \in 1..n : /\ GroupByIp(alerts)[g] = alerts[order[g]]
                       /\ order[g] \in 1..Len(alerts)
  BY <1>3, <1>4, <1>5
<1>13. \A g, h \in 1..n : g # h => GroupByIp(alerts)[g] # GroupByIp(alerts)[h]
  BY <1>10, <1>12
<1>14. \A g \in 1..n : \E i \in 1..Len(alerts) : alerts[i] = GroupByIp(alerts)[g]
  BY <1>12
<1>15. \A i \in 1..Len(alerts) : \E g \in 1..n : alerts[i] = GroupByIp(alerts)[g]
  BY <1>11, <1>12
<1> QED  BY <1>9, <1>13, <1>14, <1>15

-----------------------------------------------------------------------------
\* The inductive invariant of the pipeline, in named parts.

Request == [batch : Batches, life : Nat, accepted : Times, groups : Seq(Keys),
            at : Nat, stage : Stages, since : Times, renderable : BOOLEAN,
            started : Seq(Times), fate : Seq(Fates)]

\* The lists of a request run in parallel and `at' points into them while the
\* request has not ended.
InStep(q) ==
    /\ q \in Request
    /\ Len(q.started) = Len(q.groups) /\ Len(q.fate) = Len(q.groups)
    /\ q.at \in 1..Len(q.groups) + 1
    /\ q.stage # "done" => q.at <= Len(q.groups)

Statuses == {"idle", "retry", "acked", "gave_up"}

PipelineShape ==
    /\ notifier \in [Batches -> [payload : Payload, tries : 0..MaxRetry + 1,
                                 status : Statuses]]
    /\ \A b \in Batches : /\ notifier[b].payload \in Payloads[b]
                          /\ CanSend(b) => notifier[b].tries <= MaxRetry
    /\ requests \in Seq(Request)
    /\ Len(requests) <= MaxRequests
    /\ \A r \in 1..Len(requests) : /\ InStep(requests[r])
                                   /\ requests[r].life <= life
    /\ life \in 0..MaxCrashes

\* Tasks of a live request start in order; only the one at `at' runs.
InOrder(q) ==
    /\ \A g \in 1..Len(q.groups) : g > q.at => q.fate[g] = "queued"
    /\ q.stage = "ready" => q.fate[q.at] = "queued"
    /\ q.stage \in Waiting => q.fate[q.at] = "running"

TasksInOrder == \A r \in 1..Len(requests) : Live(r) => InOrder(requests[r])

\* Group g of request r was admitted and its task has not been lost.
IsAdmitted(r, g) ==
    /\ r \in 1..Len(requests)
    /\ g \in 1..Len(requests[r].groups)
    /\ requests[r].fate[g] \in Admitted

\* Admission i is the one that started this task.
Records(i, r, g) == /\ admitted[i].key = requests[r].groups[g]
                    /\ admitted[i].at = requests[r].started[g]

\* The tracker's record and the tasks of the current life tell one story.
TasksAreRecorded ==
    \A r, g \in Nat : IsAdmitted(r, g) /\ requests[r].life = life =>
        \E i \in 1..Len(admitted) : Records(i, r, g)

RecordHasTasks ==
    \A i \in 1..Len(admitted) : \E r, g \in Nat :
        IsAdmitted(r, g) /\ requests[r].life = life /\ Records(i, r, g)

\* Two admitted tasks about one IP in one life started a window apart.
TasksAreSpaced ==
    \A r, g, s, h \in Nat :
        /\ IsAdmitted(r, g) /\ IsAdmitted(s, h) /\ <<r, g>> # <<s, h>>
        /\ requests[r].life = requests[s].life
        /\ requests[r].groups[g] = requests[s].groups[h]
        => \/ requests[r].started[g] - requests[s].started[h] >= DEDUPE_WINDOW
           \/ requests[s].started[h] - requests[r].started[g] >= DEDUPE_WINDOW

\* An embed in the channel since t is the one of a task that got as far as
\* posting, three outside calls after its admission at most.
Posted(e, r, g, t) ==
    /\ IsAdmitted(r, g) /\ requests[r].fate[g] # "running"
    /\ e = EmbedOf(r, g, t)
    /\ t - requests[r].started[g] \in 0..3 * StageTime

\* Every embed has its task, and a task one embed at most.
EmbedsHaveTasks ==
    /\ \A e \in posted : \E r, g, t \in Nat : Posted(e, r, g, t)
    /\ \A e, f \in posted : e.request = f.request /\ e.group = f.group => e = f

Delay(n) == n * 3 * StageTime

\* How late a live request can be at each stage of its running task.
OnTime(q) ==
    /\ q.stage = "ready" => now - q.accepted <= Delay(q.at - 1)
    /\ q.stage = "loki" => q.since - q.accepted <= Delay(q.at - 1)
    /\ q.stage = "llm" => q.since - q.accepted <= Delay(q.at - 1) + StageTime
    /\ q.stage = "discord" =>
          q.since - q.accepted <= Delay(q.at - 1) + 2 * StageTime
    /\ q.stage \in Waiting => q.since <= now /\ now <= q.since + StageTime
    /\ q.stage = "loki" => q.since = q.started[q.at]
    /\ q.stage = "llm" => q.since - q.started[q.at] \in 0..StageTime
    /\ q.stage = "discord" => q.since - q.started[q.at] \in 0..2 * StageTime

Timely == \A r \in 1..Len(requests) :
              Live(r) => InOrder(requests[r]) /\ OnTime(requests[r])

-----------------------------------------------------------------------------
\* What the helpers that build and change a request return.

LEMMA EnterFields ==
    ASSUME NEW q \in Request, NEW stage \in Stages, now \in Times
    PROVE  /\ Enter(q, stage) \in Request
           /\ Enter(q, stage) = [q EXCEPT !.stage = stage, !.since = now]
           /\ Enter(q, stage).life = q.life
           /\ Enter(q, stage).accepted = q.accepted
           /\ Enter(q, stage).groups = q.groups
           /\ Enter(q, stage).at = q.at
           /\ Enter(q, stage).started = q.started
           /\ Enter(q, stage).fate = q.fate
           /\ Enter(q, stage).stage = stage
           /\ Enter(q, stage).since = now
BY DEF Enter, Request

LEMMA FinishedFields ==
    ASSUME NEW q \in Request, InStep(q), q.at <= Len(q.groups),
           NEW fate \in Fates
    PROVE  /\ Finished(q, fate) \in Request
           /\ Finished(q, fate).life = q.life
           /\ Finished(q, fate).accepted = q.accepted
           /\ Finished(q, fate).groups = q.groups
           /\ Finished(q, fate).at = q.at + 1
           /\ Finished(q, fate).started = q.started
           /\ Finished(q, fate).stage =
                 IF q.at = Len(q.groups) THEN "done" ELSE "ready"
           /\ Finished(q, fate).fate \in Seq(Fates)
           /\ Len(Finished(q, fate).fate) = Len(q.groups)
           /\ \A g \in 1..Len(q.groups) :
                 Finished(q, fate).fate[g] = IF g = q.at THEN fate ELSE q.fate[g]
<1> DEFINE F == [q.fate EXCEPT ![q.at] = fate]
<1>1. /\ q.fate \in Seq(Fates) /\ q.at \in 1..Len(q.fate)
      /\ Len(q.fate) = Len(q.groups) /\ q.at \in Nat
  BY DEF InStep, Request
<1>2. /\ F \in Seq(Fates) /\ Len(F) = Len(q.groups)
      /\ \A g \in 1..Len(q.groups) : F[g] = IF g = q.at THEN fate ELSE q.fate[g]
  BY <1>1, ExceptSeq
<1>3. Epoch \in Times
  BY TriageAssumption DEF Times
<1>4. Finished(q, fate) =
        [q EXCEPT !.fate = F, !.at = q.at + 1,
                  !.stage = IF q.at = Len(q.groups) THEN "done" ELSE "ready",
                  !.since = Epoch, !.renderable = TRUE]
  BY DEF Finished, Request
<1> DEFINE st == IF q.at = Len(q.groups) THEN "done" ELSE "ready"
           n == q.at + 1
<1>5. st \in Stages /\ n \in Nat
  BY <1>1 DEF Stages
<1> HIDE DEF F, st, n
<1>6. Finished(q, fate) =
        [q EXCEPT !.fate = F, !.at = n, !.stage = st, !.since = Epoch,
                  !.renderable = TRUE]
  BY <1>4 DEF st, n
<1>7. /\ Finished(q, fate) \in Request
      /\ Finished(q, fate).life = q.life
      /\ Finished(q, fate).accepted = q.accepted
      /\ Finished(q, fate).groups = q.groups
      /\ Finished(q, fate).at = n
      /\ Finished(q, fate).started = q.started
      /\ Finished(q, fate).stage = st
      /\ Finished(q, fate).fate = F
  BY <1>2, <1>3, <1>5, <1>6 DEF Request
<1> QED  BY <1>2, <1>7 DEF st, n

LEMMA BegunFields ==
    ASSUME NEW q \in Request, InStep(q), q.at <= Len(q.groups), now \in Times
    PROVE  LET begun == [q EXCEPT !.started[q.at] = now] IN
           /\ begun \in Request /\ InStep(begun)
           /\ begun.life = q.life /\ begun.accepted = q.accepted
           /\ begun.groups = q.groups /\ begun.at = q.at
           /\ begun.stage = q.stage /\ begun.fate = q.fate
           /\ \A g \in 1..Len(q.groups) :
                 begun.started[g] = IF g = q.at THEN now ELSE q.started[g]
<1> DEFINE S == [q.started EXCEPT ![q.at] = now]
           begun == [q EXCEPT !.started = S]
<1>1. /\ q.started \in Seq(Times) /\ q.at \in 1..Len(q.started)
      /\ Len(q.started) = Len(q.groups)
  BY DEF InStep, Request
<1>2. /\ S \in Seq(Times) /\ Len(S) = Len(q.groups)
      /\ \A g \in 1..Len(q.groups) : S[g] = IF g = q.at THEN now ELSE q.started[g]
  BY <1>1, ExceptSeq
<1>3. [q EXCEPT !.started[q.at] = now] = begun
  BY DEF Request
<1> HIDE DEF S
<1>4. /\ begun \in Request
      /\ begun.life = q.life /\ begun.accepted = q.accepted
      /\ begun.groups = q.groups /\ begun.at = q.at
      /\ begun.stage = q.stage /\ begun.fate = q.fate /\ begun.started = S
  BY <1>2 DEF Request
<1>5. InStep(begun)
  BY <1>2, <1>4 DEF InStep
<1> QED  BY <1>2, <1>3, <1>4, <1>5

LEMMA RunningFields ==
    ASSUME NEW q \in Request, InStep(q), q.at <= Len(q.groups)
    PROVE  LET run == [q EXCEPT !.fate[q.at] = "running"] IN
           /\ run \in Request /\ InStep(run)
           /\ run.life = q.life /\ run.accepted = q.accepted
           /\ run.groups = q.groups /\ run.at = q.at
           /\ run.started = q.started
           /\ \A g \in 1..Len(q.groups) :
                 run.fate[g] = IF g = q.at THEN "running" ELSE q.fate[g]
<1> DEFINE F == [q.fate EXCEPT ![q.at] = "running"]
           run == [q EXCEPT !.fate = F]
<1>1. /\ q.fate \in Seq(Fates) /\ q.at \in 1..Len(q.fate)
      /\ Len(q.fate) = Len(q.groups) /\ "running" \in Fates
  BY DEF InStep, Request, Fates, Admitted
<1>2. /\ F \in Seq(Fates) /\ Len(F) = Len(q.groups)
      /\ \A g \in 1..Len(q.groups) : F[g] = IF g = q.at THEN "running" ELSE q.fate[g]
  BY <1>1, ExceptSeq
<1>3. [q EXCEPT !.fate[q.at] = "running"] = run
  BY DEF Request
<1> HIDE DEF F
<1>4. /\ run \in Request
      /\ run.life = q.life /\ run.accepted = q.accepted
      /\ run.groups = q.groups /\ run.at = q.at /\ run.stage = q.stage
      /\ run.started = q.started /\ run.fate = F
  BY <1>2 DEF Request
<1>5. InStep(run)
  BY <1>2, <1>4 DEF InStep
<1> QED  BY <1>2, <1>3, <1>4, <1>5

\* A new request has all its tasks queued and, unless it has none, is ready.
LEMMA NewRequestFields ==
    ASSUME NEW b \in Batches, NEW alerts \in Seq(Keys), now \in Times,
           life \in Nat
    PROVE  LET q == NewRequest(b, alerts) IN
           /\ q \in Request /\ InStep(q)
           /\ q.life = life /\ q.accepted = now /\ q.at = 1
           /\ q.stage \in {"ready", "done"}
           /\ \A g \in 1..Len(q.groups) : q.fate[g] = "queued"
<1> DEFINE q == NewRequest(b, alerts)
           G == GroupByIp(alerts)
           n == Len(G)
           S == [g \in DOMAIN G |-> Epoch]
           F == [g \in DOMAIN G |-> "queued"]
           st == IF G = <<>> THEN "done" ELSE "ready"
<1>1. G \in Seq(Keys) /\ n \in Nat /\ DOMAIN G = 1..n
  BY GroupsAreAddresses, LenProperties
<1>2. (G # <<>>) => n >= 1
  BY <1>1, EmptySeq
<1>3. Epoch \in Times /\ "queued" \in Fates /\ st \in Stages
  BY TriageAssumption DEF Times, Fates, Stages
<1> HIDE DEF G, n
<1>4. S \in [1..n -> Times] /\ F \in [1..n -> Fates]
  BY <1>1, <1>3
<1>5. S \in Seq(Times) /\ Len(S) = n
  BY <1>1, <1>4, SeqDef, LenProperties
<1>6. F \in Seq(Fates) /\ Len(F) = n
  BY <1>1, <1>4, SeqDef, LenProperties
<1>7. \A g \in 1..n : F[g] = "queued"
  BY <1>1
<1>8. q = [batch |-> b, life |-> life, accepted |-> now, groups |-> G, at |-> 1,
           stage |-> st, since |-> Epoch, renderable |-> TRUE,
           started |-> S, fate |-> F]
  BY DEF NewRequest, G
<1>9. st # "done" => n >= 1
  BY <1>2
<1>10. st \in {"ready", "done"}
  OBVIOUS
<1> HIDE DEF S, F, st, q
<1>11. /\ q \in Request
       /\ q.life = life /\ q.accepted = now /\ q.at = 1 /\ q.stage = st
       /\ q.groups = G /\ q.started = S /\ q.fate = F
  BY <1>1, <1>3, <1>5, <1>6, <1>8 DEF Request
<1>12. InStep(q)
  BY <1>1, <1>5, <1>6, <1>9, <1>11 DEF InStep, n
<1>13. \A g \in 1..Len(q.groups) : q.fate[g] = "queued"
  BY <1>7, <1>11 DEF n
<1> QED  BY <1>10, <1>11, <1>12, <1>13 DEF q

\* Replacing one request leaves the others alone.
LEMMA ReplacedRequest ==
    ASSUME requests \in Seq(Request), NEW r \in 1..Len(requests),
           NEW q \in Request, requests' = [requests EXCEPT ![r] = q]
    PROVE  /\ requests' \in Seq(Request)
           /\ Len(requests') = Len(requests)
           /\ requests'[r] = q
           /\ \A s \in 1..Len(requests) : s # r => requests'[s] = requests[s]
BY ExceptSeq

-----------------------------------------------------------------------------
\* The effect of each action on the request it serves, in four parts: only
\* that request is touched, what becomes of its task at `at', and whether the
\* request stays with that task or moves on.

Touched(r) ==
    /\ requests' \in Seq(Request) /\ Len(requests') = Len(requests)
    /\ InStep(requests'[r])
    /\ requests'[r].life = requests[r].life
    /\ requests'[r].accepted = requests[r].accepted
    /\ requests'[r].groups = requests[r].groups
    /\ \A s \in 1..Len(requests) : s # r => requests'[s] = requests[s]

Becomes(r, fate, started) ==
    \A g \in 1..Len(requests[r].groups) :
        /\ requests'[r].fate[g] =
              IF g = requests[r].at THEN fate ELSE requests[r].fate[g]
        /\ requests'[r].started[g] =
              IF g = requests[r].at THEN started ELSE requests[r].started[g]

StaysAt(r, stage) == /\ requests'[r].at = requests[r].at
                     /\ requests'[r].stage = stage
                     /\ requests'[r].since = now

MovesOn(r) ==
    /\ requests'[r].at = requests[r].at + 1
    /\ requests'[r].stage = IF requests[r].at = Len(requests[r].groups)
                            THEN "done" ELSE "ready"

\* A live request, as the actions see it.
LEMMA LiveFacts ==
    ASSUME TypeOK, PipelineShape, NEW r \in 1..Len(requests), Live(r)
    PROVE  /\ requests[r] \in Request /\ InStep(requests[r])
           /\ requests[r].at \in 1..Len(requests[r].groups)
           /\ requests[r].at \in Nat /\ Len(requests[r].groups) \in Nat
           /\ Group(r) \in Keys
           /\ requests[r].life = life
           /\ requests \in Seq(Request)
           /\ now \in Times /\ now \in Nat
<1>1. requests[r] \in Request /\ InStep(requests[r]) /\ requests \in Seq(Request)
  BY DEF PipelineShape, InStep
<1>2. requests[r].groups \in Seq(Keys) /\ Len(requests[r].groups) \in Nat
  BY <1>1, LenProperties DEF Request
<1>3. requests[r].at \in 1..Len(requests[r].groups) /\ requests[r].at \in Nat
  BY <1>1, <1>2 DEF Live, InStep, Request
<1>4. Group(r) \in Keys
  BY <1>2, <1>3, ElementOfSeq DEF Group
<1>5. now \in Times /\ now \in Nat
  BY TriageAssumption DEF TypeOK, Times
<1> QED  BY <1>1, <1>2, <1>3, <1>4, <1>5 DEF Live

\* A task that begins asks the tracker once: admitted, it runs; refused, it
\* ends with the reason.
LEMMA BeginEffect ==
    ASSUME TypeOK, Bookkeeping, PipelineShape, NEW r \in 1..Len(requests),
           BeginGroup(r)
    PROVE  /\ Live(r) /\ requests[r].stage = "ready"
           /\ ShouldProcess(Group(r))
           /\ Touched(r)
           /\ \/ /\ decision'.reason = "ok"
                 /\ admitted' = Append(admitted, [at |-> now, key |-> Group(r)])
                 /\ Becomes(r, "running", now)
                 /\ StaysAt(r, "loki")
              \/ /\ decision'.reason \in {"rate_limited", "deduped"}
                 /\ admitted' = admitted
                 /\ decision'.reason = "deduped" => Policy!RecentlyAdmitted(Group(r))
                 /\ Becomes(r, decision'.reason, now)
                 /\ MovesOn(r)
<1> DEFINE q == requests[r]
           key == Group(r)
           begun == [q EXCEPT !.started[q.at] = now]
<1>1. /\ Live(r) /\ q.stage = "ready" /\ Consult(key) /\ now' = now
      /\ requests' = [requests EXCEPT ![r] =
            IF decision'.reason = "ok"
            THEN Enter([begun EXCEPT !.fate[begun.at] = "running"], "loki")
            ELSE Finished(begun, decision'.reason)]
  <2>1. begun.at = q.at
    BY LiveFacts, BegunFields DEF BeginGroup
  <2> QED  BY <2>1 DEF BeginGroup
<1>2. /\ q \in Request /\ InStep(q) /\ q.at <= Len(q.groups) /\ key \in Keys
      /\ requests \in Seq(Request) /\ now \in Times
      /\ q.at \in Nat /\ Len(q.groups) \in Nat
  BY <1>1, LiveFacts
<1>3. ShouldProcess(key)
  BY <1>1 DEF ShouldProcess
<1>4. /\ decision' = [key |-> key, reason |-> Policy!Verdict(key)]
      /\ admitted' = IF Policy!Verdict(key) = "ok"
                     THEN Append(admitted, [at |-> now, key |-> key])
                     ELSE admitted
  BY <1>1, <1>2, ConsultDecides
<1>5. /\ begun \in Request /\ InStep(begun)
      /\ begun.life = q.life /\ begun.accepted = q.accepted
      /\ begun.groups = q.groups /\ begun.at = q.at
      /\ begun.stage = q.stage /\ begun.fate = q.fate
      /\ \A g \in 1..Len(q.groups) :
            begun.started[g] = IF g = q.at THEN now ELSE q.started[g]
  BY <1>2, BegunFields
<1> HIDE DEF begun
<1>6. CASE decision'.reason = "ok"
  <2> DEFINE run == [begun EXCEPT !.fate[begun.at] = "running"]
             p == Enter(run, "loki")
  <2>1. /\ run \in Request /\ InStep(run)
        /\ run.life = q.life /\ run.accepted = q.accepted
        /\ run.groups = q.groups /\ run.at = q.at
        /\ run.started = begun.started
        /\ \A g \in 1..Len(q.groups) :
              run.fate[g] = IF g = q.at THEN "running" ELSE q.fate[g]
    <3>1. begun.at <= Len(begun.groups)  BY <1>2, <1>5
    <3>2. /\ run \in Request /\ InStep(run)
          /\ run.life = begun.life /\ run.accepted = begun.accepted
          /\ run.groups = begun.groups /\ run.at = begun.at
          /\ run.started = begun.started
          /\ \A g \in 1..Len(begun.groups) :
                run.fate[g] = IF g = begun.at THEN "running" ELSE begun.fate[g]
      BY <1>5, <3>1, RunningFields
    <3> HIDE DEF run
    <3> QED  BY <1>5, <3>2
  <2> HIDE DEF run
  <2>2. /\ p \in Request
        /\ p.life = run.life /\ p.accepted = run.accepted
        /\ p.groups = run.groups /\ p.at = run.at
        /\ p.started = run.started /\ p.fate = run.fate
        /\ p.stage = "loki" /\ p.since = now
    <3>1. "loki" \in Stages  BY DEF Stages, Waiting
    <3> QED  BY <1>2, <2>1, <3>1, EnterFields
  <2>3. InStep(p)
    BY <1>2, <2>1, <2>2 DEF InStep
  <2> HIDE DEF p
  <2>4. requests' = [requests EXCEPT ![r] = p]
    BY <1>1, <1>6 DEF p, run
  <2>5. Touched(r) /\ requests'[r] = p
    BY <1>2, <2>1, <2>2, <2>3, <2>4, ReplacedRequest DEF Touched
  <2>6. Becomes(r, "running", now) /\ StaysAt(r, "loki")
    BY <1>5, <2>1, <2>2, <2>5 DEF Becomes, StaysAt
  <2>7. admitted' = Append(admitted, [at |-> now, key |-> key])
    BY <1>4, <1>6
  <2> QED  BY <1>1, <1>3, <1>6, <2>5, <2>6, <2>7
<1>7. CASE decision'.reason # "ok"
  <2> DEFINE f == decision'.reason
             p == Finished(begun, f)
  <2>1. /\ f = Policy!Verdict(key)
        /\ f \in {"rate_limited", "deduped"}
        /\ f = "deduped" => Policy!RecentlyAdmitted(key)
    BY <1>4, <1>7 DEF Policy!Verdict
  <2>2. f \in Fates
    BY <2>1 DEF Fates
  <2> HIDE DEF f
  <2>3. /\ p \in Request
        /\ p.life = q.life /\ p.accepted = q.accepted /\ p.groups = q.groups
        /\ p.at = q.at + 1 /\ p.started = begun.started
        /\ p.stage = IF q.at = Len(q.groups) THEN "done" ELSE "ready"
        /\ Len(p.fate) = Len(q.groups)
        /\ \A g \in 1..Len(q.groups) : p.fate[g] = IF g = q.at THEN f ELSE q.fate[g]
    BY <1>2, <1>5, <2>2, FinishedFields
  <2>4. InStep(p)
    BY <1>2, <1>5, <2>3 DEF InStep
  <2> HIDE DEF p
  <2>5. requests' = [requests EXCEPT ![r] = p]
    BY <1>1, <1>7 DEF p, f
  <2>6. Touched(r) /\ requests'[r] = p
    BY <1>2, <2>3, <2>4, <2>5, ReplacedRequest DEF Touched
  <2>7. Becomes(r, f, now) /\ MovesOn(r)
    BY <1>5, <2>3, <2>6 DEF Becomes, MovesOn
  <2>8. admitted' = admitted
    BY <1>4, <1>7, <2>1
  <2> QED  BY <1>1, <1>3, <2>1, <2>6, <2>7, <2>8 DEF f
<1> QED  BY <1>6, <1>7

\* A task that waits for Loki or the LLM only goes to its next stage.
LEMMA StageEffect ==
    ASSUME TypeOK, PipelineShape, NEW r \in 1..Len(requests), Live(r),
           NEW stage \in Stages, stage # "done",
           requests' = [requests EXCEPT ![r] = Enter(@, stage)]
           \/ \E b \in BOOLEAN :
                 requests' = [requests EXCEPT ![r] =
                                 [Enter(@, stage) EXCEPT !.renderable = b]]
    PROVE  /\ Touched(r)
           /\ Becomes(r, requests[r].fate[requests[r].at],
                      requests[r].started[requests[r].at])
           /\ StaysAt(r, stage)
<1> DEFINE q == requests[r]
           e == Enter(q, stage)
<1>1. /\ q \in Request /\ InStep(q) /\ q.at \in 1..Len(q.groups)
      /\ requests \in Seq(Request) /\ now \in Times
  BY LiveFacts
<1>2. /\ e \in Request /\ e.life = q.life /\ e.accepted = q.accepted
      /\ e.groups = q.groups /\ e.at = q.at /\ e.started = q.started
      /\ e.fate = q.fate /\ e.stage = stage /\ e.since = now
  BY <1>1, EnterFields
<1> HIDE DEF e
<1>3. PICK p : /\ requests' = [requests EXCEPT ![r] = p]
               /\ p = e \/ \E b \in BOOLEAN : p = [e EXCEPT !.renderable = b]
  <2>1. CASE requests' = [requests EXCEPT ![r] = Enter(@, stage)]
    BY <2>1 DEF e
  <2>2. CASE \E b \in BOOLEAN : requests' = [requests EXCEPT ![r] =
                                    [Enter(@, stage) EXCEPT !.renderable = b]]
    BY <2>2 DEF e
  <2> QED  BY <2>1, <2>2
<1>4. /\ p \in Request /\ p.life = q.life /\ p.accepted = q.accepted
      /\ p.groups = q.groups /\ p.at = q.at /\ p.started = q.started
      /\ p.fate = q.fate /\ p.stage = stage /\ p.since = now
  <2>1. CASE p = e  BY <1>2, <2>1
  <2>2. ASSUME NEW b \in BOOLEAN, p = [e EXCEPT !.renderable = b]
        PROVE  /\ p \in Request /\ p.life = e.life /\ p.accepted = e.accepted
               /\ p.groups = e.groups /\ p.at = e.at /\ p.started = e.started
               /\ p.fate = e.fate /\ p.stage = e.stage /\ p.since = e.since
    BY <1>2, <2>2 DEF Request
  <2> QED  BY <1>2, <1>3, <2>1, <2>2
<1>5. InStep(p)
  BY <1>1, <1>4 DEF InStep
<1>6. Touched(r) /\ requests'[r] = p
  BY <1>1, <1>3, <1>4, <1>5, ReplacedRequest DEF Touched
<1> QED  BY <1>4, <1>6 DEF Becomes, StaysAt

\* Posting ends the task; an embed can only be its own.
LEMMA PostEffect ==
    ASSUME TypeOK, PipelineShape, NEW r \in 1..Len(requests), PostDiscord(r)
    PROVE  /\ Live(r) /\ requests[r].stage = "discord"
           /\ Touched(r) /\ MovesOn(r)
           /\ \E f \in {"posted", "refused", "unrenderable"} :
                 /\ Becomes(r, f, requests[r].started[requests[r].at])
                 /\ posted' \in {posted, posted \cup {EmbedOf(r, requests[r].at, now)}}
<1> DEFINE q == requests[r]
<1>1. /\ Live(r) /\ q.stage = "discord"
      /\ \E f \in {"posted", "refused", "unrenderable"} :
            /\ requests' = [requests EXCEPT ![r] = Finished(q, f)]
            /\ posted' \in {posted, posted \cup {EmbedOf(r, q.at, now)}}
  BY DEF PostDiscord
<1>2. PICK f \in {"posted", "refused", "unrenderable"} :
            /\ requests' = [requests EXCEPT ![r] = Finished(q, f)]
            /\ posted' \in {posted, posted \cup {EmbedOf(r, q.at, now)}}
  BY <1>1
<1>3. /\ q \in Request /\ InStep(q) /\ q.at \in 1..Len(q.groups)
      /\ q.at \in Nat /\ Len(q.groups) \in Nat
      /\ requests \in Seq(Request)
  BY <1>1, LiveFacts
<1> DEFINE p == Finished(q, f)
<1>4. f \in Fates /\ q.at <= Len(q.groups)
  BY <1>3 DEF Fates, Admitted
<1>5. /\ p \in Request
      /\ p.life = q.life /\ p.accepted = q.accepted /\ p.groups = q.groups
      /\ p.at = q.at + 1 /\ p.started = q.started
      /\ p.stage = IF q.at = Len(q.groups) THEN "done" ELSE "ready"
      /\ Len(p.fate) = Len(q.groups)
      /\ \A g \in 1..Len(q.groups) : p.fate[g] = IF g = q.at THEN f ELSE q.fate[g]
  BY <1>3, <1>4, FinishedFields
<1> HIDE DEF p
<1>6. InStep(p)
  BY <1>3, <1>5 DEF InStep
<1>7. Touched(r) /\ requests'[r] = p
  BY <1>2, <1>3, <1>5, <1>6, ReplacedRequest DEF Touched, p
<1>8. Becomes(r, f, q.started[q.at]) /\ MovesOn(r)
  BY <1>5, <1>7 DEF Becomes, MovesOn
<1> QED  BY <1>1, <1>2, <1>7, <1>8


\* A task that raises ends its request: what was queued is dropped.
LEMMA RaiseEffect ==
    ASSUME TypeOK, PipelineShape, NEW r \in 1..Len(requests), BeginGroupRaises(r)
    PROVE  /\ Live(r) /\ requests[r].stage = "ready" /\ Touched(r)
           /\ requests'[r].stage = "done"
           /\ requests'[r].started = requests[r].started
           /\ \A g \in 1..Len(requests[r].groups) :
                 requests'[r].fate[g] = IF requests[r].fate[g] = "queued"
                                        THEN "aborted" ELSE requests[r].fate[g]
           /\ UNCHANGED <<vars, posted, life>>
<1> DEFINE q == requests[r]
           n == Len(q.groups)
           F == [g \in DOMAIN q.fate |-> IF q.fate[g] = "queued"
                                         THEN "aborted" ELSE q.fate[g]]
           p == [q EXCEPT !.fate = F, !.stage = "done"]
<1>1. /\ Live(r) /\ q.stage = "ready" /\ UNCHANGED <<vars, posted, life>>
      /\ requests' = [requests EXCEPT
            ![r].fate = [g \in DOMAIN @ |-> IF @[g] = "queued" THEN "aborted" ELSE @[g]],
            ![r].stage = "done"]
  BY DEF BeginGroupRaises
<1>2. q \in Request /\ InStep(q) /\ requests \in Seq(Request)
  BY <1>1, LiveFacts
<1>3. /\ q.fate \in Seq(Fates) /\ Len(q.fate) = n /\ DOMAIN q.fate = 1..n
      /\ n \in Nat /\ q.fate \in [1..n -> Fates]
  BY <1>2, LenProperties DEF InStep, Request
<1>4. "aborted" \in Fates /\ "done" \in Stages
  BY DEF Fates, Stages
<1>5. F \in [1..n -> Fates]
  BY <1>3, <1>4
<1>6. F \in Seq(Fates) /\ Len(F) = n
  BY <1>3, <1>5, SeqDef, LenProperties
<1>7. \A g \in 1..n : F[g] = IF q.fate[g] = "queued" THEN "aborted" ELSE q.fate[g]
  BY <1>3
<1>8. requests' = [requests EXCEPT ![r] = p]
  <2>1. r \in DOMAIN requests
    BY <1>2, LenProperties
  <2> QED  BY <1>1, <2>1
<1> HIDE DEF F, n
<1>9. /\ p \in Request
      /\ p.life = q.life /\ p.accepted = q.accepted /\ p.groups = q.groups
      /\ p.started = q.started /\ p.at = q.at /\ p.stage = "done" /\ p.fate = F
  BY <1>2, <1>4, <1>6 DEF Request
<1> HIDE DEF p
<1>10. InStep(p)
  BY <1>2, <1>6, <1>9 DEF InStep, n
<1>11. Touched(r) /\ requests'[r] = p
  BY <1>2, <1>8, <1>9, <1>10, ReplacedRequest DEF Touched
<1> QED  BY <1>1, <1>7, <1>9, <1>11 DEF n

\* A crash ends every live request and loses the tasks that had not ended.
LEMMA CrashEffect ==
    ASSUME TypeOK, PipelineShape, Crash
    PROVE  /\ requests' \in Seq(Request) /\ Len(requests') = Len(requests)
           /\ \A s \in 1..Len(requests) :
                 /\ InStep(requests'[s])
                 /\ requests'[s].life = requests[s].life
                 /\ requests'[s].accepted = requests[s].accepted
                 /\ requests'[s].groups = requests[s].groups
                 /\ requests'[s].started = requests[s].started
                 /\ \A g \in 1..Len(requests[s].groups) :
                       requests'[s].fate[g] =
                          IF Live(s) /\ requests[s].fate[g] \in {"queued", "running"}
                          THEN "lost" ELSE requests[s].fate[g]
           /\ life' = life + 1 /\ posted' = posted /\ admitted' = <<>>
<1> DEFINE Fallen(q) == [q EXCEPT !.stage = "done",
              !.fate = [g \in DOMAIN @ |-> IF @[g] \in {"queued", "running"}
                                           THEN "lost" ELSE @[g]]]
<1>1. /\ requests \in Seq(Request) /\ DOMAIN requests = 1..Len(requests)
      /\ Len(requests) \in Nat
      /\ \A s \in 1..Len(requests) : requests[s] \in Request /\ InStep(requests[s])
  BY LenProperties DEF PipelineShape, InStep
<1>2. requests' = [s \in 1..Len(requests) |->
                      IF Live(s) THEN Fallen(requests[s]) ELSE requests[s]]
  BY <1>1 DEF Crash
<1>3. ASSUME NEW q \in Request, InStep(q)
      PROVE  /\ Fallen(q) \in Request /\ InStep(Fallen(q))
             /\ Fallen(q).life = q.life /\ Fallen(q).accepted = q.accepted
             /\ Fallen(q).groups = q.groups /\ Fallen(q).started = q.started
             /\ \A g \in 1..Len(q.groups) :
                   Fallen(q).fate[g] = IF q.fate[g] \in {"queued", "running"}
                                       THEN "lost" ELSE q.fate[g]
  <2> DEFINE F == [g \in DOMAIN q.fate |-> IF q.fate[g] \in {"queued", "running"}
                                           THEN "lost" ELSE q.fate[g]]
             n == Len(q.groups)
  <2>1. /\ q.fate \in Seq(Fates) /\ Len(q.fate) = n /\ DOMAIN q.fate = 1..n
        /\ n \in Nat /\ q.fate \in [1..n -> Fates]
    BY <1>3, LenProperties DEF InStep, Request
  <2>2. "lost" \in Fates /\ "done" \in Stages
    BY DEF Fates, Stages
  <2>3. F \in [1..n -> Fates]
    BY <2>1, <2>2
  <2>4. F \in Seq(Fates) /\ Len(F) = n
    BY <2>1, <2>3, SeqDef, LenProperties
  <2>5. \A g \in 1..n : F[g] = IF q.fate[g] \in {"queued", "running"}
                               THEN "lost" ELSE q.fate[g]
    BY <2>1
  <2>6. Fallen(q) = [q EXCEPT !.stage = "done", !.fate = F]
    BY <1>3 DEF Request
  <2> HIDE DEF F, n, Fallen
  <2>7. /\ Fallen(q) \in Request
        /\ Fallen(q).life = q.life /\ Fallen(q).accepted = q.accepted
        /\ Fallen(q).groups = q.groups /\ Fallen(q).started = q.started
        /\ Fallen(q).at = q.at /\ Fallen(q).stage = "done" /\ Fallen(q).fate = F
    BY <1>3, <2>2, <2>4, <2>6 DEF Request
  <2>8. InStep(Fallen(q))
    BY <1>3, <2>4, <2>7 DEF InStep, n
  <2> QED  BY <2>5, <2>7, <2>8 DEF n
<1> HIDE DEF Fallen
<1>4. \A s \in 1..Len(requests) :
        requests'[s] = IF Live(s) THEN Fallen(requests[s]) ELSE requests[s]
  BY <1>2
<1>5. requests' \in [1..Len(requests) -> Request]
  BY <1>1, <1>2, <1>3
<1>6. requests' \in Seq(Request) /\ Len(requests') = Len(requests)
  BY <1>1, <1>5, SeqDef, LenProperties
<1>7. ASSUME NEW s \in 1..Len(requests)
      PROVE  /\ InStep(requests'[s])
             /\ requests'[s].life = requests[s].life
             /\ requests'[s].accepted = requests[s].accepted
             /\ requests'[s].groups = requests[s].groups
             /\ requests'[s].started = requests[s].started
             /\ \A g \in 1..Len(requests[s].groups) :
                   requests'[s].fate[g] =
                      IF Live(s) /\ requests[s].fate[g] \in {"queued", "running"}
                      THEN "lost" ELSE requests[s].fate[g]
  <2>1. CASE Live(s)  BY <1>1, <1>3, <1>4, <2>1
  <2>2. CASE ~Live(s)  BY <1>1, <1>4, <2>2
  <2> QED  BY <2>1, <2>2
<1>8. life' = life + 1 /\ posted' = posted /\ admitted' = <<>>
  BY DEF Crash, Restart, Forgotten
<1> QED  BY <1>6, <1>7, <1>8

\* The notifier's record keeps its shape whatever an attempt comes to.
LEMMA AttemptEffect ==
    ASSUME PipelineShape, NEW b \in Batches, CanSend(b),
           NEW answered \in BOOLEAN, Attempted(b, answered)
    PROVE  /\ notifier' \in [Batches -> [payload : Payload, tries : 0..MaxRetry + 1,
                                         status : Statuses]]
           /\ \A c \in Batches : /\ notifier'[c].payload \in Payloads[c]
                                 /\ CanSend(c)' => notifier'[c].tries <= MaxRetry
<1> DEFINE n == notifier[b]
           st == IF answered THEN "acked"
                 ELSE IF n.tries < MaxRetry THEN "retry" ELSE "gave_up"
           m == [n EXCEPT !.tries = n.tries + 1, !.status = st]
<1>1. /\ n \in [payload : Payload, tries : 0..MaxRetry + 1, status : Statuses]
      /\ n.tries <= MaxRetry /\ MaxRetry \in Nat
  BY PipelineAssumption DEF PipelineShape
<1>2. st \in Statuses /\ n.tries + 1 \in 0..MaxRetry + 1
  BY <1>1 DEF Statuses
<1>3. st = "retry" => n.tries + 1 <= MaxRetry
  BY <1>1
<1>4. st # "idle"
  OBVIOUS
<1>5. notifier' = [notifier EXCEPT ![b] = m]
  BY <1>1 DEF Attempted, PipelineShape
<1> HIDE DEF st
<1>6. /\ m \in [payload : Payload, tries : 0..MaxRetry + 1, status : Statuses]
      /\ m.payload = n.payload /\ m.tries = n.tries + 1 /\ m.status = st
  BY <1>1, <1>2
<1> HIDE DEF m
<1>7. /\ notifier' \in [Batches -> [payload : Payload, tries : 0..MaxRetry + 1,
                                    status : Statuses]]
      /\ notifier'[b] = m /\ \A c \in Batches \ {b} : notifier'[c] = notifier[c]
  BY <1>5, <1>6 DEF PipelineShape
<1>8. ASSUME NEW c \in Batches
      PROVE  /\ notifier'[c].payload \in Payloads[c]
             /\ CanSend(c)' => notifier'[c].tries <= MaxRetry
  <2>1. CASE c = b
    BY <1>3, <1>4, <1>6, <1>7, <2>1 DEF PipelineShape, CanSend
  <2>2. CASE c # b
    BY <1>7, <2>2 DEF PipelineShape, CanSend
  <2> QED  BY <2>1, <2>2
<1> QED  BY <1>7, <1>8

\* An attempt either leaves the requests alone or appends one new request.
LEMMA AlertEffect ==
    ASSUME TypeOK, PipelineShape, NEW b \in Batches, AlertHandler(b)
    PROVE  /\ UNCHANGED <<vars, posted, life>>
           /\ \E answered \in BOOLEAN : Attempted(b, answered)
           /\ CanSend(b)
           /\ \/ requests' = requests
              \/ \E q \in Request :
                    /\ Len(requests) < MaxRequests
                    /\ requests' = Append(requests, q)
                    /\ InStep(q) /\ q.life = life /\ q.accepted = now /\ q.at = 1
                    /\ q.stage \in {"ready", "done"}
                    /\ \A g \in 1..Len(q.groups) : q.fate[g] = "queued"
<1>1. notifier[b].payload.alerts \in Seq(Keys)
  <2>1. notifier[b].payload \in Payload
    BY DEF PipelineShape
  <2> QED  BY <2>1 DEF Payload
<1>2. now \in Times /\ life \in Nat
  BY PipelineAssumption DEF TypeOK, PipelineShape
<1> DEFINE q == NewRequest(b, notifier[b].payload.alerts)
<1>3. /\ q \in Request /\ InStep(q) /\ q.life = life /\ q.accepted = now
      /\ q.at = 1 /\ q.stage \in {"ready", "done"}
      /\ \A g \in 1..Len(q.groups) : q.fate[g] = "queued"
  BY <1>1, <1>2, NewRequestFields
<1> HIDE DEF q
<1>4. \/ requests' = requests
      \/ Len(requests) < MaxRequests /\ requests' = Append(requests, q)
  BY DEF AlertHandler, q
<1> QED  BY <1>3, <1>4 DEF AlertHandler

-----------------------------------------------------------------------------
\* The pipeline uses the tracker only through whole steps of the tracker.
LEMMA TrackerStep ==
    ASSUME TypeOK, PipelineShape, [PipelineNext]_pipelineVars
    PROVE  [Next]_vars
<1>1. ASSUME NEW b \in Batches, AlertHandler(b) \/ Unreachable(b)
      PROVE  UNCHANGED vars
  BY <1>1 DEF AlertHandler, Unreachable
<1>2. ASSUME NEW r \in 1..Len(requests), BeginGroup(r)
      PROVE  Next
  <2>1. Live(r) /\ Consult(Group(r)) /\ now' = now
    BY <1>2 DEF BeginGroup
  <2>2. Group(r) \in Keys
    BY <2>1, LiveFacts
  <2> QED  BY <2>1, <2>2 DEF Next, ShouldProcess
<1>3. ASSUME NEW r \in 1..Len(requests),
             BeginGroupRaises(r) \/ LokiAnswered(r) \/ LlmAnswered(r) \/ PostDiscord(r)
      PROVE  UNCHANGED vars
  BY <1>3 DEF BeginGroupRaises, LokiAnswered, LlmAnswered, PostDiscord
<1>4. PipelineTick => Next
  <2> SUFFICES ASSUME PipelineTick PROVE Tick
    BY DEF Next
  <2>1. now \in Nat /\ Horizon \in Nat /\ now < Horizon /\ now' = now + 1
    BY TriageAssumption DEF PipelineTick, TypeOK, Times
  <2> QED  BY <2>1 DEF PipelineTick, Tick, limiter
<1>5. Crash => Next
  BY DEF Crash, Next
<1>6. Quiescent \/ UNCHANGED pipelineVars => UNCHANGED vars
  BY DEF Quiescent, pipelineVars
<1>7. DOMAIN requests = 1..Len(requests)
  BY LenProperties DEF PipelineShape
<1> QED
  BY <1>1, <1>2, <1>3, <1>4, <1>5, <1>6, <1>7 DEF PipelineNext, Serve

\* What a step does to the tasks.  `Quietly': to none of them, though requests
\* may be added and queued tasks dropped; `Serves': to the task at `at' of
\* request r only; `Dies': those that had not ended are lost.

SameRequest(s) == /\ requests'[s].life = requests[s].life
                  /\ requests'[s].accepted = requests[s].accepted
                  /\ requests'[s].groups = requests[s].groups

Quietly ==
    /\ UNCHANGED <<admitted, posted, life>>
    /\ Len(requests) <= Len(requests')
    /\ \A s \in 1..Len(requests) :
          /\ SameRequest(s)
          /\ \A g \in 1..Len(requests[s].groups) :
                /\ \/ requests'[s].fate[g] = requests[s].fate[g]
                   \/ requests[s].fate[g] = "queued" /\ requests'[s].fate[g] = "aborted"
                /\ requests'[s].started[g] = requests[s].started[g]
    /\ \A s \in 1..Len(requests') : s > Len(requests) =>
          \A g \in 1..Len(requests'[s].groups) : requests'[s].fate[g] = "queued"

Serves(r, fate, started) ==
    /\ r \in 1..Len(requests) /\ Live(r)
    /\ Len(requests') = Len(requests)
    /\ life' = life
    /\ \A s \in 1..Len(requests) :
          /\ SameRequest(s)
          /\ \A g \in 1..Len(requests[s].groups) :
                IF s = r /\ g = requests[r].at
                THEN /\ requests'[s].fate[g] = fate
                     /\ requests'[s].started[g] = started
                ELSE /\ requests'[s].fate[g] = requests[s].fate[g]
                     /\ requests'[s].started[g] = requests[s].started[g]

Admits(r) == /\ Serves(r, "running", now)
             /\ requests[r].stage = "ready"
             /\ ShouldProcess(Group(r))
             /\ admitted' = Append(admitted, [at |-> now, key |-> Group(r)])
             /\ posted' = posted

Skips(r, reason) ==
    /\ Serves(r, reason, now)
    /\ requests[r].stage = "ready"
    /\ reason \in {"rate_limited", "deduped"}
    /\ reason = "deduped" => Policy!RecentlyAdmitted(Group(r))
    /\ UNCHANGED <<admitted, posted>>

Posts(r, fate) ==
    /\ Serves(r, fate, requests[r].started[requests[r].at])
    /\ requests[r].stage = "discord"
    /\ fate \in {"posted", "refused", "unrenderable"}
    /\ posted' \in {posted, posted \cup {EmbedOf(r, requests[r].at, now)}}
    /\ admitted' = admitted

Dies ==
    /\ Len(requests') = Len(requests)
    /\ \A s \in 1..Len(requests) :
          /\ SameRequest(s)
          /\ requests'[s].started = requests[s].started
          /\ \A g \in 1..Len(requests[s].groups) :
                requests'[s].fate[g] =
                   IF Live(s) /\ requests[s].fate[g] \in {"queued", "running"}
                   THEN "lost" ELSE requests[s].fate[g]
    /\ life' = life + 1 /\ posted' = posted /\ admitted' = <<>>

LEMMA TouchedServes ==
    ASSUME NEW r \in 1..Len(requests), Live(r), Touched(r),
           NEW fate, NEW started, Becomes(r, fate, started), life' = life
    PROVE  Serves(r, fate, started)
<1>1. ASSUME NEW s \in 1..Len(requests), s # r
      PROVE  requests'[s] = requests[s]
  BY <1>1 DEF Touched
<1>2. ASSUME NEW s \in 1..Len(requests)
      PROVE  /\ SameRequest(s)
             /\ \A g \in 1..Len(requests[s].groups) :
                   IF s = r /\ g = requests[r].at
                   THEN /\ requests'[s].fate[g] = fate
                        /\ requests'[s].started[g] = started
                   ELSE /\ requests'[s].fate[g] = requests[s].fate[g]
                        /\ requests'[s].started[g] = requests[s].started[g]
  <2>1. CASE s # r
    BY <1>1, <2>1 DEF SameRequest
  <2>2. CASE s = r
    BY <2>2 DEF SameRequest, Touched, Becomes
  <2> QED  BY <2>1, <2>2
<1> QED  BY <1>2 DEF Serves, Touched

LEMMA ServesQuietly ==
    ASSUME PipelineShape, NEW r \in 1..Len(requests),
           Serves(r, requests[r].fate[requests[r].at],
                     requests[r].started[requests[r].at]),
           UNCHANGED <<admitted, posted>>
    PROVE  Quietly
<1>1. Len(requests) \in Nat
  BY LenProperties DEF PipelineShape
<1>2. ASSUME NEW s \in 1..Len(requests), NEW g \in 1..Len(requests[s].groups)
      PROVE  /\ requests'[s].fate[g] = requests[s].fate[g]
             /\ requests'[s].started[g] = requests[s].started[g]
  BY DEF Serves
<1>3. \A s \in 1..Len(requests') : ~(s > Len(requests))
  BY <1>1 DEF Serves
<1> QED  BY <1>1, <1>2, <1>3 DEF Serves, Quietly

LEMMA StepKinds ==
    ASSUME TypeOK, Bookkeeping, PipelineShape, [PipelineNext]_pipelineVars
    PROVE  \/ Quietly
           \/ \E r \in 1..Len(requests) : Admits(r)
           \/ \E r \in 1..Len(requests) : \E reason \in Reasons : Skips(r, reason)
           \/ \E r \in 1..Len(requests) : \E fate \in Fates : Posts(r, fate)
           \/ Dies
<1>1. /\ DOMAIN requests = 1..Len(requests) /\ Len(requests) \in Nat
      /\ requests \in Seq(Request)
  BY LenProperties DEF PipelineShape
<1>2. ASSUME UNCHANGED <<admitted, posted, life, requests>>
      PROVE  Quietly
  <2>1. \A s \in 1..Len(requests') : ~(s > Len(requests))
    BY <1>1, <1>2
  <2> QED  BY <1>1, <1>2, <2>1 DEF Quietly, SameRequest
<1>3. ASSUME NEW b \in Batches, AlertHandler(b)
      PROVE  Quietly
  <2>1. UNCHANGED <<admitted, posted, life>>
    BY <1>3, AlertEffect DEF vars, limiter
  <2>2. CASE requests' = requests
    BY <1>2, <2>1, <2>2
  <2>3. ASSUME NEW q \in Request, requests' = Append(requests, q),
               \A g \in 1..Len(q.groups) : q.fate[g] = "queued"
        PROVE  Quietly
    <3>1. /\ Len(requests') = Len(requests) + 1
          /\ \A s \in 1..Len(requests) : requests'[s] = requests[s]
          /\ requests'[Len(requests) + 1] = q
      BY <1>1, <2>3, AppendProperties
    <3>2. ASSUME NEW s \in 1..Len(requests'), s > Len(requests)
          PROVE  requests'[s] = q
      <4>1. s = Len(requests) + 1  BY <1>1, <3>1, <3>2
      <4> QED  BY <3>1, <4>1
    <3> QED  BY <1>1, <2>1, <2>3, <3>1, <3>2 DEF Quietly, SameRequest
  <2> QED  BY <1>3, <2>2, <2>3, AlertEffect
<1>4. ASSUME NEW b \in Batches, Unreachable(b)
      PROVE  Quietly
  BY <1>2, <1>4 DEF Unreachable, vars, limiter
<1>5. ASSUME NEW r \in 1..Len(requests), BeginGroup(r)
      PROVE  Admits(r) \/ \E reason \in Reasons : Skips(r, reason)
  <2>1. life' = life /\ posted' = posted
    BY <1>5 DEF BeginGroup
  <2>2. CASE /\ admitted' = Append(admitted, [at |-> now, key |-> Group(r)])
             /\ Becomes(r, "running", now)
    BY <1>5, <2>1, <2>2, BeginEffect, TouchedServes DEF Admits
  <2>3. CASE /\ decision'.reason \in {"rate_limited", "deduped"}
             /\ admitted' = admitted
             /\ decision'.reason = "deduped" => Policy!RecentlyAdmitted(Group(r))
             /\ Becomes(r, decision'.reason, now)
    <3>1. Live(r) /\ Touched(r) /\ requests[r].stage = "ready"
      BY <1>5, BeginEffect
    <3>2. Serves(r, decision'.reason, now)
      BY <2>1, <2>3, <3>1, TouchedServes
    <3>3. decision'.reason \in Reasons
      BY <2>3 DEF Reasons
    <3> QED  BY <2>1, <2>3, <3>1, <3>2, <3>3 DEF Skips
  <2> QED  BY <1>5, <2>2, <2>3, BeginEffect
<1>6. ASSUME NEW r \in 1..Len(requests), LokiAnswered(r) \/ LlmAnswered(r)
      PROVE  Quietly
  <2>1. Live(r) /\ UNCHANGED <<admitted, posted, life>>
    BY <1>6 DEF LokiAnswered, LlmAnswered, vars, limiter
  <2>2. \E stage \in Stages : /\ stage # "done"
                              /\ requests' = [requests EXCEPT ![r] = Enter(@, stage)]
                                 \/ \E b \in BOOLEAN :
                                     requests' = [requests EXCEPT ![r] =
                                         [Enter(@, stage) EXCEPT !.renderable = b]]
    <3>1. "llm" \in Stages /\ "discord" \in Stages
      BY DEF Stages, Waiting
    <3>2. \A shape : Renderable(shape) \in BOOLEAN
      BY DEF Renderable
    <3> QED  BY <1>6, <3>1, <3>2 DEF LokiAnswered, LlmAnswered
  <2>3. Serves(r, requests[r].fate[requests[r].at],
                  requests[r].started[requests[r].at])
    BY <2>1, <2>2, StageEffect, TouchedServes
  <2> QED  BY <2>1, <2>3, ServesQuietly
<1>7. ASSUME NEW r \in 1..Len(requests), PostDiscord(r)
      PROVE  \E fate \in Fates : Posts(r, fate)
  <2>1. /\ Live(r) /\ requests[r].stage = "discord" /\ Touched(r)
        /\ life' = life /\ admitted' = admitted
    BY <1>7, PostEffect DEF PostDiscord, vars, limiter
  <2>2. PICK f \in {"posted", "refused", "unrenderable"} :
                /\ Becomes(r, f, requests[r].started[requests[r].at])
                /\ posted' \in {posted, posted \cup {EmbedOf(r, requests[r].at, now)}}
    BY <1>7, PostEffect
  <2>3. f \in Fates
    BY DEF Fates, Admitted
  <2>4. Posts(r, f)
    BY <2>1, <2>2, TouchedServes DEF Posts
  <2> QED  BY <2>3, <2>4
<1>8. CASE PipelineTick
  BY <1>2, <1>8 DEF PipelineTick
<1>9. CASE Crash
  BY <1>9, CrashEffect DEF Dies, SameRequest
<1>10. CASE Quiescent \/ UNCHANGED pipelineVars
  BY <1>2, <1>10 DEF Quiescent, pipelineVars, vars, limiter
<1>11. ASSUME NEW r \in 1..Len(requests), BeginGroupRaises(r)
       PROVE  Quietly
  <2>1. /\ Touched(r) /\ requests'[r].started = requests[r].started
        /\ \A g \in 1..Len(requests[r].groups) :
              requests'[r].fate[g] = IF requests[r].fate[g] = "queued"
                                     THEN "aborted" ELSE requests[r].fate[g]
        /\ UNCHANGED <<admitted, posted, life>>
    BY <1>11, RaiseEffect DEF vars, limiter
  <2>2. Len(requests') = Len(requests)
    BY <2>1 DEF Touched
  <2>3. \A s \in 1..Len(requests') : ~(s > Len(requests))
    BY <1>1, <2>2
  <2>4. ASSUME NEW s \in 1..Len(requests)
        PROVE  /\ SameRequest(s)
               /\ \A g \in 1..Len(requests[s].groups) :
                     /\ \/ requests'[s].fate[g] = requests[s].fate[g]
                        \/ /\ requests[s].fate[g] = "queued"
                           /\ requests'[s].fate[g] = "aborted"
                     /\ requests'[s].started[g] = requests[s].started[g]
    <3>1. CASE s = r  BY <2>1, <3>1 DEF Touched, SameRequest
    <3>2. CASE s # r  BY <2>1, <3>2 DEF Touched, SameRequest
    <3> QED  BY <3>1, <3>2
  <2> QED  BY <1>1, <2>1, <2>2, <2>3, <2>4 DEF Quietly
<1> QED
  BY <1>1, <1>3, <1>4, <1>5, <1>6, <1>7, <1>8, <1>9, <1>10, <1>11
  DEF PipelineNext, Serve

-----------------------------------------------------------------------------
\* How the admitted tasks fare in each kind of step.

SameTask(s, g) == /\ SameRequest(s)
                  /\ requests'[s].fate[g] = requests[s].fate[g]
                  /\ requests'[s].started[g] = requests[s].started[g]

LEMMA TaskFacts ==
    ASSUME TypeOK, PipelineShape, NEW s \in 1..Len(requests),
           NEW g \in 1..Len(requests[s].groups)
    PROVE  /\ s \in Nat /\ g \in Nat
           /\ requests[s].started[g] \in Nat /\ requests[s].accepted \in Nat
           /\ requests[s].groups[g] \in Keys
           /\ requests[s].fate[g] \in Fates
           /\ requests[s].life \in Nat /\ requests[s].life <= life
           /\ requests[s].life \in 0..MaxCrashes
<1>1. /\ requests[s] \in Request /\ InStep(requests[s])
      /\ requests[s].life <= life /\ life \in 0..MaxCrashes
  BY DEF PipelineShape, InStep
<1>2. /\ requests[s].groups \in Seq(Keys) /\ requests[s].fate \in Seq(Fates)
      /\ requests[s].started \in Seq(Times) /\ requests[s].life \in Nat
      /\ requests[s].accepted \in Times
      /\ Len(requests[s].fate) = Len(requests[s].groups)
      /\ Len(requests[s].started) = Len(requests[s].groups)
  BY <1>1 DEF Request, InStep
<1>3. /\ requests[s].started[g] \in Times /\ requests[s].groups[g] \in Keys
      /\ requests[s].fate[g] \in Fates
  BY <1>2, ElementOfSeq
<1>4. \A t \in Times : t \in Nat
  BY TriageAssumption DEF Times
<1>5. MaxCrashes \in Nat
  BY PipelineAssumption
<1> QED  BY <1>1, <1>2, <1>3, <1>4, <1>5

LEMMA QuietTasks ==
    ASSUME PipelineShape, (PipelineShape)', Quietly
    PROVE  \A s, g \in Nat :
              /\ IsAdmitted(s, g)' <=> IsAdmitted(s, g)
              /\ IsAdmitted(s, g) => SameTask(s, g)
<1>1. Len(requests) \in Nat /\ Len(requests') \in Nat
  BY LenProperties DEF PipelineShape
<1> TAKE s, g \in Nat
<1>2. ASSUME IsAdmitted(s, g)
      PROVE  IsAdmitted(s, g)' /\ SameTask(s, g)
  BY <1>1, <1>2 DEF IsAdmitted, Quietly, SameTask, SameRequest, Admitted
<1>3. ASSUME IsAdmitted(s, g)'
      PROVE  IsAdmitted(s, g)
  <2>1. CASE s > Len(requests)
    <3>1. requests'[s].fate[g] = "queued"
      BY <1>3, <2>1 DEF IsAdmitted, Quietly
    <3>2. requests'[s].fate[g] \in Admitted
      BY <1>3 DEF IsAdmitted
    <3> QED  BY <3>1, <3>2 DEF Admitted
  <2>2. CASE ~(s > Len(requests))
    <3>1. s \in 1..Len(requests)
      BY <1>1, <1>3, <2>2 DEF IsAdmitted
    <3> QED  BY <1>3, <3>1 DEF IsAdmitted, Quietly, SameRequest, Admitted
  <2> QED  BY <2>1, <2>2
<1> QED  BY <1>2, <1>3

LEMMA ServedTasks ==
    ASSUME TypeOK, PipelineShape,
           NEW r \in 1..Len(requests), NEW fate, NEW started,
           Serves(r, fate, started)
    PROVE  /\ r \in Nat /\ requests[r].at \in Nat
           /\ requests[r].at \in 1..Len(requests[r].groups)
           /\ requests[r].life = life /\ life' = life
           /\ \A a \in Nat : a = requests[r].at =>
                 (IsAdmitted(r, a)' <=> fate \in Admitted)
           /\ SameRequest(r)
           /\ requests'[r].fate[requests[r].at] = fate
           /\ requests'[r].started[requests[r].at] = started
           /\ \A s, g \in Nat : ~(s = r /\ g = requests[r].at) =>
                 /\ IsAdmitted(s, g)' <=> IsAdmitted(s, g)
                 /\ IsAdmitted(s, g) => SameTask(s, g)
<1>1. /\ requests[r].at \in 1..Len(requests[r].groups)
      /\ requests[r].at \in Nat /\ Live(r) /\ requests[r].life = life
  BY LiveFacts DEF Serves
<1>2. /\ SameRequest(r)
      /\ requests'[r].fate[requests[r].at] = fate
      /\ requests'[r].started[requests[r].at] = started
      /\ life' = life /\ Len(requests') = Len(requests)
  BY <1>1 DEF Serves
<1>3. r \in Nat
  BY LenProperties DEF PipelineShape
<1>4. ASSUME NEW a \in Nat, a = requests[r].at
      PROVE  IsAdmitted(r, a)' <=> fate \in Admitted
  BY <1>1, <1>2, <1>4 DEF IsAdmitted, SameRequest
<1>5. ASSUME NEW s \in Nat, NEW g \in Nat, ~(s = r /\ g = requests[r].at)
      PROVE  /\ IsAdmitted(s, g)' <=> IsAdmitted(s, g)
             /\ IsAdmitted(s, g) => SameTask(s, g)
  <2>1. ASSUME NEW x \in 1..Len(requests), x = s, NEW y \in 1..Len(requests[x].groups), y = g
        PROVE  SameTask(s, g)
    BY <1>5, <2>1 DEF Serves, SameTask
  <2> QED  BY <1>2, <2>1 DEF IsAdmitted, Serves, SameTask, SameRequest
<1> QED  BY <1>1, <1>2, <1>3, <1>4, <1>5

\* The task a step serves: queued before it begins, running before it posts.
LEMMA ServedTaskBefore ==
    ASSUME TypeOK, PipelineShape, TasksInOrder, NEW r \in 1..Len(requests), Live(r)
    PROVE  /\ requests[r].stage = "ready" =>
                 /\ requests[r].fate[requests[r].at] = "queued"
                 /\ ~IsAdmitted(r, requests[r].at)
           /\ requests[r].stage = "discord" =>
                 /\ requests[r].fate[requests[r].at] = "running"
                 /\ IsAdmitted(r, requests[r].at)
<1>1. InOrder(requests[r]) /\ requests[r].at \in 1..Len(requests[r].groups)
  BY LiveFacts DEF TasksInOrder
<1> QED  BY <1>1 DEF InOrder, IsAdmitted, Waiting, Admitted

\* The record after the task of request r was admitted.
LEMMA AdmitsRecord ==
    ASSUME TypeOK, Bookkeeping, PipelineShape, NEW r \in 1..Len(requests), Admits(r)
    PROVE  /\ Len(admitted) \in Nat /\ Len(admitted') = Len(admitted) + 1
           /\ \A i \in 1..Len(admitted) : admitted'[i] = admitted[i]
           /\ admitted'[Len(admitted) + 1].at = now
           /\ admitted'[Len(admitted) + 1].key = requests[r].groups[requests[r].at]
           /\ \A i \in 1..Len(admitted) :
                 admitted[i].key = requests[r].groups[requests[r].at] =>
                    now - admitted[i].at >= DEDUPE_WINDOW
<1>1. Group(r) \in Keys /\ Group(r) = requests[r].groups[requests[r].at]
  BY LiveFacts DEF Admits, Serves, Group
<1>2. admitted' = Append(admitted, [at |-> now, key |-> Group(r)])
  BY DEF Admits
<1>3. /\ Len(admitted') = Len(admitted) + 1
      /\ \A i \in 1..Len(admitted) : admitted'[i] = admitted[i]
      /\ admitted'[Len(admitted) + 1].at = now
      /\ admitted'[Len(admitted) + 1].key = Group(r)
  BY <1>1, <1>2, AppendedRecord
<1>4. Len(admitted) \in Nat
  BY AdmissionFacts
<1>5. admitted' # admitted
  BY <1>3, <1>4
<1>6. \A i \in 1..Len(admitted) :
         admitted[i].key = Group(r) => now - admitted[i].at >= DEDUPE_WINDOW
  BY <1>1, <1>5, AdmissionPremise DEF Admits
<1> QED  BY <1>1, <1>3, <1>4, <1>6

LEMMA TasksAreRecordedStep ==
    ASSUME TypeOK, Bookkeeping, PipelineShape, (PipelineShape)', TasksInOrder,
           TasksAreRecorded, [PipelineNext]_pipelineVars
    PROVE  TasksAreRecorded'
<1>1. CASE Quietly
  <2>1. admitted' = admitted /\ life' = life
    BY <1>1 DEF Quietly
  <2> SUFFICES ASSUME NEW s \in Nat, NEW g \in Nat, IsAdmitted(s, g)',
                      requests'[s].life = life'
               PROVE  \E i \in 1..Len(admitted') : Records(i, s, g)'
    BY DEF TasksAreRecorded
  <2>2. IsAdmitted(s, g) /\ SameTask(s, g)
    BY <1>1, QuietTasks
  <2> QED
    BY <2>1, <2>2 DEF TasksAreRecorded, Records, SameTask, SameRequest
<1>2. ASSUME NEW r \in 1..Len(requests), NEW fate, NEW started,
             Serves(r, fate, started),
             Len(admitted) \in Nat, Len(admitted') \in Nat,
             Len(admitted) <= Len(admitted'),
             \A i \in 1..Len(admitted) : admitted'[i] = admitted[i],
             fate \in Admitted =>
                \E i \in 1..Len(admitted') :
                   /\ admitted'[i].key = requests[r].groups[requests[r].at]
                   /\ admitted'[i].at = started
      PROVE  TasksAreRecorded'
  <2> SUFFICES ASSUME NEW s \in Nat, NEW g \in Nat, IsAdmitted(s, g)',
                      requests'[s].life = life'
               PROVE  \E i \in 1..Len(admitted') : Records(i, s, g)'
    BY DEF TasksAreRecorded
  <2>1. CASE s = r /\ g = requests[r].at
    BY <1>2, <2>1, ServedTasks DEF Records, SameRequest
  <2>2. CASE ~(s = r /\ g = requests[r].at)
    <3>1. IsAdmitted(s, g) /\ SameTask(s, g) /\ life' = life
      BY <1>2, <2>2, ServedTasks
    <3>2. PICK i \in 1..Len(admitted) : Records(i, s, g)
      BY <3>1 DEF TasksAreRecorded, SameTask, SameRequest
    <3>3. i \in 1..Len(admitted')
      BY <1>2
    <3> QED  BY <1>2, <3>1, <3>2, <3>3 DEF Records, SameTask, SameRequest
  <2> QED  BY <2>1, <2>2
<1>3. ASSUME NEW r \in 1..Len(requests), Admits(r)
      PROVE  TasksAreRecorded'
  <2>1. Serves(r, "running", now)
    BY <1>3 DEF Admits
  <2>2. Len(admitted) + 1 \in 1..Len(admitted') /\ Len(admitted') \in Nat
    BY <1>3, AdmitsRecord
  <2> QED  BY <1>2, <1>3, <2>1, <2>2, AdmitsRecord
<1>4. ASSUME NEW r \in 1..Len(requests), NEW reason \in Reasons, Skips(r, reason)
      PROVE  TasksAreRecorded'
  <2>1. Serves(r, reason, now) /\ reason \notin Admitted /\ admitted' = admitted
    BY <1>4 DEF Skips, Admitted
  <2> QED  BY <1>2, <2>1, AdmissionFacts
<1>5. ASSUME NEW r \in 1..Len(requests), NEW fate \in Fates, Posts(r, fate)
      PROVE  TasksAreRecorded'
  <2> DEFINE a == requests[r].at
  <2>1. Serves(r, fate, requests[r].started[a]) /\ admitted' = admitted
    BY <1>5 DEF Posts
  <2>2. IsAdmitted(r, a) /\ requests[r].life = life /\ r \in Nat /\ a \in Nat
    BY <1>5, ServedTaskBefore, LiveFacts, ServedTasks DEF Posts, Serves
  <2>3. \E i \in 1..Len(admitted) : Records(i, r, a)
    BY <2>2 DEF TasksAreRecorded
  <2> QED  BY <1>2, <2>1, <2>3, AdmissionFacts DEF Records
<1>6. CASE Dies
  <2> SUFFICES ASSUME NEW s \in Nat, NEW g \in Nat, IsAdmitted(s, g)',
                      requests'[s].life = life'
               PROVE  FALSE
    BY DEF TasksAreRecorded
  <2>1. s \in 1..Len(requests) /\ requests'[s].life = requests[s].life
    BY <1>6 DEF Dies, IsAdmitted, SameRequest
  <2>2. requests[s].life <= life /\ life \in Nat /\ requests[s].life \in Nat
    <3>1. requests[s] \in Request /\ requests[s].life <= life /\ life \in 0..MaxCrashes
      BY <2>1 DEF PipelineShape, InStep
    <3> QED  BY <3>1, PipelineAssumption DEF Request
  <2> QED  BY <1>6, <2>1, <2>2 DEF Dies
<1> QED  BY <1>1, <1>3, <1>4, <1>5, <1>6, StepKinds

LEMMA RecordHasTasksStep ==
    ASSUME TypeOK, Bookkeeping, PipelineShape, (PipelineShape)', TasksInOrder,
           RecordHasTasks, [PipelineNext]_pipelineVars
    PROVE  RecordHasTasks'
<1>1. CASE Quietly
  <2>1. admitted' = admitted /\ life' = life
    BY <1>1 DEF Quietly
  <2> SUFFICES ASSUME NEW i \in 1..Len(admitted)
               PROVE  \E s, g \in Nat : /\ IsAdmitted(s, g)'
                                        /\ requests'[s].life = life'
                                        /\ Records(i, s, g)'
    BY <2>1 DEF RecordHasTasks
  <2>2. PICK s, g \in Nat : /\ IsAdmitted(s, g)
                            /\ requests[s].life = life /\ Records(i, s, g)
    BY DEF RecordHasTasks
  <2>3. IsAdmitted(s, g)' /\ SameTask(s, g)
    BY <1>1, <2>2, QuietTasks
  <2> QED  BY <2>1, <2>2, <2>3 DEF Records, SameTask, SameRequest
<1>2. ASSUME NEW r \in 1..Len(requests), NEW fate, NEW started,
             Serves(r, fate, started),
             NEW i \in 1..Len(admitted), admitted'[i] = admitted[i],
             IsAdmitted(r, requests[r].at) =>
                /\ fate \in Admitted
                /\ started = requests[r].started[requests[r].at]
      PROVE  \E s, g \in Nat : /\ IsAdmitted(s, g)'
                               /\ requests'[s].life = life'
                               /\ Records(i, s, g)'
  <2>1. PICK s, g \in Nat : /\ IsAdmitted(s, g)
                            /\ requests[s].life = life /\ Records(i, s, g)
    BY DEF RecordHasTasks
  <2>2. CASE s = r /\ g = requests[r].at
    <3>1. IsAdmitted(s, g)' /\ requests'[s].life = life'
      BY <1>2, <2>1, <2>2, ServedTasks DEF SameRequest
    <3>2. Records(i, s, g)'
      BY <1>2, <2>1, <2>2, ServedTasks DEF Records, SameRequest
    <3> QED  BY <3>1, <3>2
  <2>3. CASE ~(s = r /\ g = requests[r].at)
    <3>1. IsAdmitted(s, g)' /\ SameTask(s, g) /\ life' = life
      BY <1>2, <2>1, <2>3, ServedTasks
    <3> QED  BY <1>2, <2>1, <3>1 DEF Records, SameTask, SameRequest
  <2> QED  BY <2>2, <2>3
<1>3. ASSUME NEW r \in 1..Len(requests), Admits(r)
      PROVE  RecordHasTasks'
  <2> DEFINE a == requests[r].at
  <2>1. Serves(r, "running", now) /\ ~IsAdmitted(r, a)
    BY <1>3, ServedTaskBefore DEF Admits, Serves
  <2> SUFFICES ASSUME NEW i \in 1..Len(admitted')
               PROVE  \E s, g \in Nat : /\ IsAdmitted(s, g)'
                                        /\ requests'[s].life = life'
                                        /\ Records(i, s, g)'
    BY DEF RecordHasTasks
  <2>2. CASE i \in 1..Len(admitted)
    BY <1>2, <1>3, <2>1, <2>2, AdmitsRecord
  <2>3. CASE i \notin 1..Len(admitted)
    <3>1. i = Len(admitted) + 1
      BY <1>3, <2>3, AdmitsRecord
    <3>2. r \in Nat /\ a \in Nat /\ "running" \in Admitted
      BY <2>1, ServedTasks DEF Admitted
    <3>3. \A g \in Nat : g = a => IsAdmitted(r, g)' /\ Records(i, r, g)'
      BY <1>3, <2>1, <3>1, <3>2, ServedTasks, AdmitsRecord DEF Records, SameRequest
    <3>4. requests'[r].life = life'
      BY <2>1, ServedTasks DEF SameRequest
    <3> QED  BY <3>2, <3>3, <3>4
  <2> QED  BY <2>2, <2>3
<1>4. ASSUME NEW r \in 1..Len(requests), NEW reason \in Reasons, Skips(r, reason)
      PROVE  RecordHasTasks'
  <2>1. /\ Serves(r, reason, now) /\ admitted' = admitted
        /\ ~IsAdmitted(r, requests[r].at)
    BY <1>4, ServedTaskBefore DEF Skips, Serves
  <2> QED  BY <1>2, <2>1 DEF RecordHasTasks
<1>5. ASSUME NEW r \in 1..Len(requests), NEW fate \in Fates, Posts(r, fate)
      PROVE  RecordHasTasks'
  <2>1. /\ Serves(r, fate, requests[r].started[requests[r].at])
        /\ fate \in Admitted /\ admitted' = admitted
    BY <1>5 DEF Posts, Admitted
  <2> QED  BY <1>2, <2>1 DEF RecordHasTasks
<1>6. CASE Dies
  <2>1. Len(admitted') = 0
    BY <1>6, EmptySeq DEF Dies
  <2> QED  BY <2>1 DEF RecordHasTasks
<1> QED  BY <1>1, <1>3, <1>4, <1>5, <1>6, StepKinds

LEMMA TasksAreSpacedStep ==
    ASSUME TypeOK, Bookkeeping, PipelineShape, (PipelineShape)', TasksInOrder,
           TasksAreRecorded, TasksAreSpaced, [PipelineNext]_pipelineVars
    PROVE  TasksAreSpaced'
<1> DEFINE Apart(x, y) == x - y >= DEDUPE_WINDOW \/ y - x >= DEDUPE_WINDOW
<1>1. ASSUME \A s, g \in Nat : IsAdmitted(s, g)' =>
                IsAdmitted(s, g) /\ SameRequest(s)
                /\ requests'[s].started[g] = requests[s].started[g]
      PROVE  TasksAreSpaced'
  BY <1>1 DEF TasksAreSpaced, SameRequest
<1>2. CASE Quietly
  BY <1>1, <1>2, QuietTasks DEF SameTask
<1>3. ASSUME NEW r \in 1..Len(requests), Admits(r)
      PROVE  TasksAreSpaced'
  <2> DEFINE a == requests[r].at
             ip == requests[r].groups[a]
  <2>1. Serves(r, "running", now)
    BY <1>3 DEF Admits
  <2>2. /\ r \in Nat /\ a \in Nat /\ requests[r].life = life /\ life' = life
        /\ SameRequest(r) /\ requests'[r].started[a] = now
    BY <2>1, ServedTasks
  <2>3. ASSUME NEW s \in Nat, NEW g \in Nat, ~(s = r /\ g = a)
        PROVE  /\ IsAdmitted(s, g)' => IsAdmitted(s, g) /\ SameTask(s, g)
    BY <2>1, <2>3, ServedTasks
  <2>4. ASSUME NEW s \in Nat, NEW g \in Nat, ~(s = r /\ g = a), IsAdmitted(s, g)',
               requests'[s].life = life, requests'[s].groups[g] = ip
        PROVE  now - requests'[s].started[g] >= DEDUPE_WINDOW
    <3>1. IsAdmitted(s, g) /\ SameTask(s, g)
      BY <2>3, <2>4
    <3>2. PICK i \in 1..Len(admitted) : Records(i, s, g)
      BY <2>4, <3>1 DEF TasksAreRecorded, SameTask, SameRequest
    <3>3. admitted[i].key = ip /\ admitted[i].at = requests'[s].started[g]
      BY <2>4, <3>1, <3>2 DEF Records, SameTask, SameRequest
    <3> QED  BY <1>3, <3>3, AdmitsRecord
  <2> HIDE DEF a, ip
  <2> SUFFICES ASSUME NEW s \in Nat, NEW g \in Nat, NEW p \in Nat, NEW h \in Nat,
                      IsAdmitted(s, g)', IsAdmitted(p, h)', <<s, g>> # <<p, h>>,
                      requests'[s].life = requests'[p].life,
                      requests'[s].groups[g] = requests'[p].groups[h]
               PROVE  Apart(requests'[s].started[g], requests'[p].started[h])
    BY DEF TasksAreSpaced
  <2>5. CASE s = r /\ g = a
    <3>1. ~(p = r /\ h = a)
      BY <2>5
    <3>2. requests'[p].life = life /\ requests'[p].groups[h] = ip
      BY <2>2, <2>5 DEF SameRequest, ip
    <3> QED  BY <2>2, <2>4, <2>5, <3>1, <3>2
  <2>6. CASE p = r /\ h = a
    <3>1. ~(s = r /\ g = a)
      BY <2>6
    <3>2. requests'[s].life = life /\ requests'[s].groups[g] = ip
      BY <2>2, <2>6 DEF SameRequest, ip
    <3> QED  BY <2>2, <2>4, <2>6, <3>1, <3>2
  <2>7. CASE ~(s = r /\ g = a) /\ ~(p = r /\ h = a)
    <3>1. /\ IsAdmitted(s, g) /\ SameTask(s, g)
          /\ IsAdmitted(p, h) /\ SameTask(p, h)
      BY <2>3, <2>7
    <3> QED  BY <3>1 DEF TasksAreSpaced, SameTask, SameRequest
  <2> QED  BY <2>5, <2>6, <2>7
<1>4. ASSUME NEW r \in 1..Len(requests), NEW reason \in Reasons, Skips(r, reason)
      PROVE  TasksAreSpaced'
  <2>1. Serves(r, reason, now) /\ reason \notin Admitted
    BY <1>4 DEF Skips, Admitted
  <2>2. \A s, g \in Nat : IsAdmitted(s, g)' => ~(s = r /\ g = requests[r].at)
    BY <2>1, ServedTasks
  <2>3. \A s, g \in Nat : IsAdmitted(s, g)' => IsAdmitted(s, g) /\ SameTask(s, g)
    BY <2>1, <2>2, ServedTasks
  <2> QED  BY <1>1, <2>3 DEF SameTask
<1>5. ASSUME NEW r \in 1..Len(requests), NEW fate \in Fates, Posts(r, fate)
      PROVE  TasksAreSpaced'
  <2> DEFINE a == requests[r].at
  <2>1. Serves(r, fate, requests[r].started[a])
    BY <1>5 DEF Posts
  <2>2. IsAdmitted(r, a)
    BY <1>5, <2>1, ServedTaskBefore DEF Posts, Serves
  <2>3. \A s, g \in Nat : IsAdmitted(s, g)' =>
                IsAdmitted(s, g) /\ SameRequest(s)
                /\ requests'[s].started[g] = requests[s].started[g]
    <3> SUFFICES ASSUME NEW s \in Nat, NEW g \in Nat, IsAdmitted(s, g)'
                 PROVE  /\ IsAdmitted(s, g) /\ SameRequest(s)
                        /\ requests'[s].started[g] = requests[s].started[g]
      OBVIOUS
    <3>1. CASE s = r /\ g = a
      BY <2>1, <2>2, <3>1, ServedTasks
    <3>2. CASE ~(s = r /\ g = a)
      BY <2>1, <3>2, ServedTasks DEF SameTask
    <3> QED  BY <3>1, <3>2
  <2> QED  BY <1>1, <2>3
<1>6. CASE Dies
  <2>1. ASSUME NEW s \in Nat, NEW g \in Nat, IsAdmitted(s, g)'
        PROVE  IsAdmitted(s, g) /\ SameRequest(s)
               /\ requests'[s].started[g] = requests[s].started[g]
    <3>1. s \in 1..Len(requests) /\ g \in 1..Len(requests[s].groups) /\ SameRequest(s)
      BY <1>6, <2>1 DEF Dies, IsAdmitted, SameRequest
    <3>2. requests'[s].fate[g] # "lost"
      BY <2>1 DEF IsAdmitted, Admitted
    <3>3. requests'[s].fate[g] = requests[s].fate[g]
      BY <1>6, <3>1, <3>2 DEF Dies
    <3> QED  BY <1>6, <2>1, <3>1, <3>3 DEF Dies, IsAdmitted
  <2> QED  BY <1>1, <2>1
<1> QED  BY <1>2, <1>3, <1>4, <1>5, <1>6, StepKinds

\* The last outside call of a task after the two before it.
LEMMA ThirdCall ==
    ASSUME NEW start \in Nat, NEW since \in Nat, NEW t \in Nat, NEW stage \in Nat,
           since - start \in 0..2 * stage, since <= t, t <= since + stage
    PROVE  t - start \in 0..3 * stage
OBVIOUS

LEMMA EmbedsHaveTasksStep ==
    ASSUME TypeOK, Bookkeeping, PipelineShape, (PipelineShape)', Timely,
           EmbedsHaveTasks, [PipelineNext]_pipelineVars
    PROVE  EmbedsHaveTasks'
<1>0. TasksInOrder
  BY DEF Timely, TasksInOrder
<1>1. ASSUME NEW e, NEW s \in Nat, NEW g \in Nat, NEW t \in Nat,
             SameTask(s, g), IsAdmitted(s, g)', Posted(e, s, g, t)
      PROVE  Posted(e, s, g, t)'
  BY <1>1 DEF Posted, EmbedOf, SameTask, SameRequest
<1>2. ASSUME posted' = posted,
             \A e \in posted : \E s, g, t \in Nat : Posted(e, s, g, t)'
      PROVE  EmbedsHaveTasks'
  BY <1>2 DEF EmbedsHaveTasks
<1>3. CASE Quietly
  <2> SUFFICES ASSUME NEW e \in posted
               PROVE  \E s, g, t \in Nat : Posted(e, s, g, t)'
    BY <1>2, <1>3 DEF Quietly
  <2>1. PICK s, g, t \in Nat : Posted(e, s, g, t)
    BY DEF EmbedsHaveTasks
  <2>2. IsAdmitted(s, g)' /\ SameTask(s, g)
    BY <1>3, <2>1, QuietTasks DEF Posted
  <2> QED  BY <1>1, <2>1, <2>2
<1>4. ASSUME NEW r \in 1..Len(requests), NEW fate, NEW started,
             Serves(r, fate, started),
             requests[r].stage \in {"ready", "discord"}, NEW e \in posted
      PROVE  /\ \E s, g, t \in Nat : Posted(e, s, g, t)'
             /\ ~(e.request = r /\ e.group = requests[r].at)
  <2>1. PICK s, g, t \in Nat : Posted(e, s, g, t)
    BY DEF EmbedsHaveTasks
  <2>2. ~(s = r /\ g = requests[r].at)
    BY <1>0, <1>4, <2>1, ServedTaskBefore DEF Serves, Posted
  <2>3. IsAdmitted(s, g)' /\ SameTask(s, g)
    BY <1>4, <2>1, <2>2, ServedTasks DEF Posted
  <2>4. e.request = s /\ e.group = g
    BY <2>1 DEF Posted, EmbedOf
  <2> QED  BY <1>1, <2>1, <2>2, <2>3, <2>4
<1>5. ASSUME NEW r \in 1..Len(requests), Admits(r)
      PROVE  EmbedsHaveTasks'
  BY <1>2, <1>4, <1>5 DEF Admits
<1>6. ASSUME NEW r \in 1..Len(requests), NEW reason \in Reasons, Skips(r, reason)
      PROVE  EmbedsHaveTasks'
  BY <1>2, <1>4, <1>6 DEF Skips
<1>7. ASSUME NEW r \in 1..Len(requests), NEW fate \in Fates, Posts(r, fate)
      PROVE  EmbedsHaveTasks'
  <2> DEFINE a == requests[r].at
             x == EmbedOf(r, a, now)
  <2>1. /\ Serves(r, fate, requests[r].started[a]) /\ requests[r].stage = "discord"
        /\ fate \in Admitted /\ fate # "running"
        /\ posted' \in {posted, posted \cup {x}}
    BY <1>7 DEF Posts, Admitted
  <2>2. \A e \in posted : /\ \E s, g, t \in Nat : Posted(e, s, g, t)'
                          /\ ~(e.request = r /\ e.group = a)
    BY <1>4, <2>1
  <2>3. /\ r \in Nat /\ a \in Nat /\ SameRequest(r)
        /\ requests'[r].fate[a] = fate
        /\ requests'[r].started[a] = requests[r].started[a]
        /\ \A g \in Nat : g = a => IsAdmitted(r, g)'
    BY <2>1, ServedTasks
  <2>4. now \in Nat /\ now - requests[r].started[a] \in 0..3 * StageTime
    <3>1. /\ Live(r) /\ OnTime(requests[r]) /\ a \in 1..Len(requests[r].groups)
          /\ now \in Nat /\ requests[r] \in Request
      BY <2>1, LiveFacts DEF Serves, Timely
    <3>2. requests[r].started[a] \in Nat /\ requests[r].since \in Nat /\ StageTime \in Nat
      BY <3>1, TaskFacts, TriageAssumption, PipelineAssumption DEF Request, Times
    <3>3. /\ requests[r].since <= now /\ now <= requests[r].since + StageTime
          /\ requests[r].since - requests[r].started[a] \in 0..2 * StageTime
      BY <2>1, <3>1 DEF OnTime, Waiting
    <3> HIDE DEF a
    <3> QED  BY <3>1, <3>2, <3>3, ThirdCall
  <2>5. ASSUME NEW e, e = x
        PROVE  \E s, g, t \in Nat : Posted(e, s, g, t)'
    <3>1. ASSUME NEW g \in Nat, g = a, NEW t \in Nat, t = now
          PROVE  Posted(e, r, g, t)'
      <4>1. e = EmbedOf(r, g, t)'
        BY <2>3, <2>5, <3>1 DEF EmbedOf, SameRequest
      <4> QED  BY <2>1, <2>3, <2>4, <3>1, <4>1 DEF Posted
    <3> QED  BY <2>3, <2>4, <3>1
  <2>6. x.request = r /\ x.group = a
    BY DEF EmbedOf
  <2>7. \A e, f \in posted : e.request = f.request /\ e.group = f.group => e = f
    BY DEF EmbedsHaveTasks
  <2> HIDE DEF x, a
  <2> QED  BY <2>1, <2>2, <2>5, <2>6, <2>7 DEF EmbedsHaveTasks
<1>8. CASE Dies
  <2> SUFFICES ASSUME NEW e \in posted
               PROVE  \E s, g, t \in Nat : Posted(e, s, g, t)'
    BY <1>2, <1>8 DEF Dies
  <2>1. PICK s, g, t \in Nat : Posted(e, s, g, t)
    BY DEF EmbedsHaveTasks
  <2>2. /\ s \in 1..Len(requests) /\ g \in 1..Len(requests[s].groups)
        /\ requests[s].fate[g] \notin {"queued", "running"}
    BY <2>1 DEF Posted, IsAdmitted, Admitted
  <2>3. SameTask(s, g) /\ IsAdmitted(s, g)'
    BY <1>8, <2>1, <2>2 DEF Dies, SameTask, SameRequest, Posted, IsAdmitted
  <2> QED  BY <1>1, <2>1, <2>3
<1> QED  BY <1>3, <1>5, <1>6, <1>7, <1>8, StepKinds

LEMMA Domains ==
    ASSUME PipelineShape
    PROVE  /\ DOMAIN requests = 1..Len(requests) /\ Len(requests) \in Nat
           /\ \A r \in 1..Len(requests) :
                 DOMAIN requests[r].groups = 1..Len(requests[r].groups)
<1>1. requests \in Seq(Request)
  BY DEF PipelineShape
<1>2. ASSUME NEW r \in 1..Len(requests)
      PROVE  DOMAIN requests[r].groups = 1..Len(requests[r].groups)
  <2>1. requests[r].groups \in Seq(Keys)
    <3>1. requests[r] \in Request  BY <1>1, ElementOfSeq
    <3> QED  BY <3>1 DEF Request
  <2> QED  BY <2>1, LenProperties
<1> QED  BY <1>1, <1>2, LenProperties

\* The task (p, h) is the original that (r, g) duplicates.
IsOriginal(p, h, r, g) ==
    /\ p \in 1..Len(requests) /\ h \in 1..Len(requests[p].groups)
    /\ requests[p].life = requests[r].life
    /\ requests[p].groups[h] = requests[r].groups[g]
    /\ requests[p].fate[h] \in Admitted \cup {"lost"}
    /\ requests[r].started[g] - requests[p].started[h] \in 0..DEDUPE_WINDOW - 1

DuplicatesHaveOriginals ==
    \A r \in 1..Len(requests) : \A g \in 1..Len(requests[r].groups) :
        requests[r].fate[g] = "deduped" => \E p, h \in Nat : IsOriginal(p, h, r, g)

LEMMA DuplicateForms ==
    ASSUME PipelineShape
    PROVE  DuplicateHasOriginal <=> DuplicatesHaveOriginals
<1> DEFINE Found(r, g) ==
              \E p \in DOMAIN requests : \E h \in DOMAIN requests[p].groups :
                 LET original == requests[p] IN
                 /\ original.life = requests[r].life
                 /\ original.groups[h] = requests[r].groups[g]
                 /\ original.fate[h] \in Admitted \cup {"lost"}
                 /\ requests[r].started[g] - original.started[h]
                      \in 0..DEDUPE_WINDOW - 1
<1>1. ASSUME NEW r, NEW g, Found(r, g)
      PROVE  \E p, h \in Nat : IsOriginal(p, h, r, g)
  <2>1. PICK p \in DOMAIN requests : \E h \in DOMAIN requests[p].groups :
                /\ requests[p].life = requests[r].life
                /\ requests[p].groups[h] = requests[r].groups[g]
                /\ requests[p].fate[h] \in Admitted \cup {"lost"}
                /\ requests[r].started[g] - requests[p].started[h]
                     \in 0..DEDUPE_WINDOW - 1
    BY <1>1
  <2>2. p \in 1..Len(requests) /\ p \in Nat
    BY Domains
  <2>3. PICK h \in 1..Len(requests[p].groups) : IsOriginal(p, h, r, g)
    BY <2>1, <2>2, Domains DEF IsOriginal
  <2> QED  BY <2>2, <2>3
<1>2. ASSUME NEW r, NEW g, NEW p \in Nat, NEW h \in Nat, IsOriginal(p, h, r, g)
      PROVE  Found(r, g)
  <2>1. p \in DOMAIN requests /\ h \in DOMAIN requests[p].groups
    BY <1>2, Domains DEF IsOriginal
  <2> QED  BY <1>2, <2>1 DEF IsOriginal
<1>3. DuplicateHasOriginal <=>
        \A r \in DOMAIN requests : \A g \in DOMAIN requests[r].groups :
           requests[r].fate[g] = "deduped" => Found(r, g)
  BY DEF DuplicateHasOriginal
<1> HIDE DEF Found
<1>4. ASSUME DuplicateHasOriginal PROVE DuplicatesHaveOriginals
  <2> SUFFICES ASSUME NEW r \in 1..Len(requests),
                      NEW g \in 1..Len(requests[r].groups),
                      requests[r].fate[g] = "deduped"
               PROVE  \E p, h \in Nat : IsOriginal(p, h, r, g)
    BY DEF DuplicatesHaveOriginals
  <2>1. r \in DOMAIN requests /\ g \in DOMAIN requests[r].groups
    BY Domains
  <2> QED  BY <1>1, <1>3, <1>4, <2>1
<1>5. ASSUME DuplicatesHaveOriginals PROVE DuplicateHasOriginal
  <2> SUFFICES ASSUME NEW r \in DOMAIN requests,
                      NEW g \in DOMAIN requests[r].groups,
                      requests[r].fate[g] = "deduped"
               PROVE  Found(r, g)
    BY <1>3
  <2>1. r \in 1..Len(requests) /\ g \in 1..Len(requests[r].groups)
    BY Domains
  <2>2. PICK p, h \in Nat : IsOriginal(p, h, r, g)
    BY <1>5, <2>1 DEF DuplicatesHaveOriginals
  <2> QED  BY <1>2, <2>2
<1> QED  BY <1>4, <1>5

\* A task that has been admitted, even if lost, keeps its data for good.
Lasting(p, h) == /\ SameRequest(p)
                 /\ requests'[p].started[h] = requests[p].started[h]
                 /\ requests'[p].fate[h] \in Admitted \cup {"lost"}

LEMMA AdmittedTasksLast ==
    ASSUME TypeOK, Bookkeeping, PipelineShape, (PipelineShape)', TasksInOrder,
           [PipelineNext]_pipelineVars,
           NEW p \in 1..Len(requests), NEW h \in 1..Len(requests[p].groups),
           requests[p].fate[h] \in Admitted \cup {"lost"}
    PROVE  Lasting(p, h) /\ p \in 1..Len(requests')
<1>1. CASE Quietly
  BY <1>1, Domains DEF Quietly, Lasting, Admitted
<1>2. ASSUME NEW r \in 1..Len(requests), NEW fate, NEW started,
             Serves(r, fate, started), ~(p = r /\ h = requests[r].at)
      PROVE  Lasting(p, h) /\ p \in 1..Len(requests')
  BY <1>2 DEF Serves, Lasting
<1>3. ASSUME NEW r \in 1..Len(requests), requests[r].stage = "ready", Live(r)
      PROVE  ~(p = r /\ h = requests[r].at)
  BY <1>3, ServedTaskBefore DEF Admitted
<1>4. ASSUME NEW r \in 1..Len(requests), Admits(r)
      PROVE  Lasting(p, h) /\ p \in 1..Len(requests')
  <2>1. Serves(r, "running", now) /\ Live(r) /\ requests[r].stage = "ready"
    BY <1>4 DEF Admits, Serves
  <2> QED  BY <1>2, <1>3, <2>1
<1>5. ASSUME NEW r \in 1..Len(requests), NEW reason \in Reasons, Skips(r, reason)
      PROVE  Lasting(p, h) /\ p \in 1..Len(requests')
  <2>1. Serves(r, reason, now) /\ Live(r) /\ requests[r].stage = "ready"
    BY <1>5 DEF Skips, Serves
  <2> QED  BY <1>2, <1>3, <2>1
<1>6. ASSUME NEW r \in 1..Len(requests), NEW fate \in Fates, Posts(r, fate)
      PROVE  Lasting(p, h) /\ p \in 1..Len(requests')
  <2>1. /\ Serves(r, fate, requests[r].started[requests[r].at])
        /\ fate \in Admitted
    BY <1>6 DEF Posts, Admitted
  <2>2. CASE p = r /\ h = requests[r].at
    BY <2>1, <2>2 DEF Serves, Lasting
  <2> QED  BY <1>2, <2>1, <2>2
<1>7. CASE Dies
  BY <1>7 DEF Dies, Lasting, SameRequest
<1> QED  BY <1>1, <1>4, <1>5, <1>6, <1>7, StepKinds

\* Where a duplicate is skipped, the tracker's table names an admission and the
\* record names its task.
LEMMA SkippedHasOriginal ==
    ASSUME TypeOK, Bookkeeping, PipelineShape, RecordHasTasks,
           NEW r \in 1..Len(requests), Live(r),
           Policy!RecentlyAdmitted(Group(r))
    PROVE  \E p, h \in Nat :
              /\ IsAdmitted(p, h) /\ requests[p].life = requests[r].life
              /\ requests[p].groups[h] = requests[r].groups[requests[r].at]
              /\ now - requests[p].started[h] \in 0..DEDUPE_WINDOW - 1
<1>1. PICK i \in 1..Len(admitted) :
         admitted[i].key = Group(r) /\ now - admitted[i].at < DEDUPE_WINDOW
  BY DEF Policy!RecentlyAdmitted
<1>2. /\ admitted[i].at <= now /\ admitted[i].at \in Nat /\ now \in Nat
      /\ DEDUPE_WINDOW \in Nat
  BY AdmissionFacts DEF Bookkeeping, Chronological
<1>3. now - admitted[i].at \in 0..DEDUPE_WINDOW - 1
  BY <1>1, <1>2
<1>4. PICK p, h \in Nat : /\ IsAdmitted(p, h) /\ requests[p].life = life
                          /\ Records(i, p, h)
  BY DEF RecordHasTasks
<1> QED  BY <1>1, <1>3, <1>4 DEF Records, Group, Live

LEMMA DuplicatesStep ==
    ASSUME TypeOK, Bookkeeping, PipelineShape, (PipelineShape)', TasksInOrder,
           RecordHasTasks, DuplicatesHaveOriginals, [PipelineNext]_pipelineVars
    PROVE  DuplicatesHaveOriginals'
<1>1. ASSUME NEW s \in 1..Len(requests), NEW g \in 1..Len(requests[s].groups),
             requests[s].fate[g] = "deduped", SameRequest(s),
             requests'[s].started[g] = requests[s].started[g]
      PROVE  \E p, h \in Nat : IsOriginal(p, h, s, g)'
  <2>1. PICK p, h \in Nat : IsOriginal(p, h, s, g)
    BY <1>1 DEF DuplicatesHaveOriginals
  <2>2. Lasting(p, h) /\ p \in 1..Len(requests')
    BY <2>1, AdmittedTasksLast DEF IsOriginal
  <2>3. IsOriginal(p, h, s, g)'
    BY <1>1, <2>1, <2>2 DEF IsOriginal, Lasting, SameRequest
  <2> QED  BY <2>3
<1>2. ASSUME NEW s \in 1..Len(requests), NEW g \in 1..Len(requests[s].groups),
             NEW r \in 1..Len(requests), NEW fate, NEW started,
             Serves(r, fate, started), ~(s = r /\ g = requests[r].at),
             requests'[s].fate[g] = "deduped"
      PROVE  \E p, h \in Nat : IsOriginal(p, h, s, g)'
  BY <1>1, <1>2 DEF Serves
<1>3. ASSUME NEW r \in 1..Len(requests), NEW fate, NEW started,
             Serves(r, fate, started), fate # "deduped"
      PROVE  DuplicatesHaveOriginals'
  <2> SUFFICES ASSUME NEW s \in 1..Len(requests'),
                      NEW g \in 1..Len(requests'[s].groups),
                      requests'[s].fate[g] = "deduped"
               PROVE  \E p, h \in Nat : IsOriginal(p, h, s, g)'
    BY DEF DuplicatesHaveOriginals
  <2>1. s \in 1..Len(requests) /\ g \in 1..Len(requests[s].groups)
    BY <1>3 DEF Serves, SameRequest
  <2>2. ~(s = r /\ g = requests[r].at)
    BY <1>3, <2>1 DEF Serves
  <2> QED  BY <1>2, <1>3, <2>1, <2>2
<1>4. CASE Quietly
  <2> SUFFICES ASSUME NEW s \in 1..Len(requests'),
                      NEW g \in 1..Len(requests'[s].groups),
                      requests'[s].fate[g] = "deduped"
               PROVE  \E p, h \in Nat : IsOriginal(p, h, s, g)'
    BY DEF DuplicatesHaveOriginals
  <2>1. ~(s > Len(requests))
    BY <1>4 DEF Quietly
  <2>2. Len(requests) \in Nat /\ s \in Nat
    BY Domains
  <2>3. s \in 1..Len(requests)
    BY <2>1, <2>2
  <2>4. SameRequest(s) /\ g \in 1..Len(requests[s].groups)
    BY <1>4, <2>3 DEF Quietly, SameRequest
  <2> QED  BY <1>1, <1>4, <2>3, <2>4 DEF Quietly
<1>5. ASSUME NEW r \in 1..Len(requests), Admits(r)
      PROVE  DuplicatesHaveOriginals'
  BY <1>3, <1>5 DEF Admits
<1>6. ASSUME NEW r \in 1..Len(requests), NEW fate \in Fates, Posts(r, fate)
      PROVE  DuplicatesHaveOriginals'
  BY <1>3, <1>6 DEF Posts
<1>7. ASSUME NEW r \in 1..Len(requests), NEW reason \in Reasons, Skips(r, reason)
      PROVE  DuplicatesHaveOriginals'
  <2> DEFINE a == requests[r].at
  <2>1. Serves(r, reason, now) /\ Live(r)
    BY <1>7 DEF Skips, Serves
  <2>2. CASE reason # "deduped"
    BY <1>3, <2>1, <2>2
  <2>3. CASE reason = "deduped"
    <3>1. PICK p, h \in Nat :
              /\ IsAdmitted(p, h) /\ requests[p].life = requests[r].life
              /\ requests[p].groups[h] = requests[r].groups[a]
              /\ now - requests[p].started[h] \in 0..DEDUPE_WINDOW - 1
      BY <1>7, <2>1, <2>3, SkippedHasOriginal DEF Skips
    <3>2. /\ p \in 1..Len(requests) /\ h \in 1..Len(requests[p].groups)
          /\ Lasting(p, h) /\ p \in 1..Len(requests')
      BY <3>1, AdmittedTasksLast DEF IsAdmitted
    <3>3. SameRequest(r) /\ requests'[r].started[a] = now
      BY <2>1, ServedTasks
    <3> SUFFICES ASSUME NEW s \in 1..Len(requests'),
                        NEW g \in 1..Len(requests'[s].groups),
                        requests'[s].fate[g] = "deduped"
                 PROVE  \E x, y \in Nat : IsOriginal(x, y, s, g)'
      BY DEF DuplicatesHaveOriginals
    <3>4. s \in 1..Len(requests) /\ g \in 1..Len(requests[s].groups)
      BY <2>1 DEF Serves, SameRequest
    <3>5. CASE s = r /\ g = a
      <4>1. IsOriginal(p, h, s, g)'
        BY <3>1, <3>2, <3>3, <3>5 DEF IsOriginal, Lasting, SameRequest
      <4> QED  BY <4>1
    <3>6. CASE ~(s = r /\ g = a)
      BY <1>2, <2>1, <3>4, <3>6
    <3> QED  BY <3>5, <3>6
  <2> QED  BY <2>2, <2>3
<1>8. CASE Dies
  <2> SUFFICES ASSUME NEW s \in 1..Len(requests'),
                      NEW g \in 1..Len(requests'[s].groups),
                      requests'[s].fate[g] = "deduped"
               PROVE  \E p, h \in Nat : IsOriginal(p, h, s, g)'
    BY DEF DuplicatesHaveOriginals
  <2>1. s \in 1..Len(requests) /\ g \in 1..Len(requests[s].groups) /\ SameRequest(s)
    BY <1>8 DEF Dies, SameRequest
  <2>2. /\ requests[s].fate[g] = "deduped"
        /\ requests'[s].started[g] = requests[s].started[g]
    BY <1>8, <2>1 DEF Dies
  <2> QED  BY <1>1, <2>1, <2>2
<1> QED  BY <1>4, <1>5, <1>6, <1>7, <1>8, StepKinds

-----------------------------------------------------------------------------
\* The shape of the pipeline's own state.

ShapeOfNotifier ==
    /\ notifier \in [Batches -> [payload : Payload, tries : 0..MaxRetry + 1,
                                 status : Statuses]]
    /\ \A b \in Batches : /\ notifier[b].payload \in Payloads[b]
                          /\ CanSend(b) => notifier[b].tries <= MaxRetry

ShapeOfRequests ==
    /\ requests \in Seq(Request)
    /\ Len(requests) <= MaxRequests
    /\ \A r \in 1..Len(requests) : /\ InStep(requests[r])
                                   /\ requests[r].life <= life
    /\ life \in 0..MaxCrashes

LEMMA NotifierStep ==
    ASSUME PipelineShape, [PipelineNext]_pipelineVars
    PROVE  ShapeOfNotifier'
<1>1. CASE notifier' = notifier
  BY <1>1 DEF PipelineShape, ShapeOfNotifier, CanSend
<1>2. ASSUME NEW b \in Batches, AlertHandler(b) \/ Unreachable(b)
      PROVE  ShapeOfNotifier'
  <2>1. CanSend(b) /\ \E answered \in BOOLEAN : Attempted(b, answered)
    BY <1>2 DEF AlertHandler, Unreachable
  <2> QED  BY <2>1, AttemptEffect DEF ShapeOfNotifier
<1>3. ASSUME NEW r, Serve(r) PROVE notifier' = notifier
  BY <1>3 DEF Serve, BeginGroup, BeginGroupRaises, LokiAnswered, LlmAnswered, PostDiscord
<1> QED
  BY <1>1, <1>2, <1>3
  DEF PipelineNext, PipelineTick, Crash, Quiescent, pipelineVars

LEMMA TouchedShape ==
    ASSUME PipelineShape, NEW r \in 1..Len(requests), Touched(r), life' = life
    PROVE  ShapeOfRequests'
<1>1. \A s \in 1..Len(requests) : InStep(requests'[s]) /\ requests'[s].life <= life
  <2> TAKE s \in 1..Len(requests)
  <2>1. CASE s = r  BY <2>1 DEF Touched, PipelineShape
  <2>2. CASE s # r  BY <2>2 DEF Touched, PipelineShape
  <2> QED  BY <2>1, <2>2
<1> QED  BY <1>1 DEF Touched, PipelineShape, ShapeOfRequests

LEMMA PipelineShapeStep ==
    ASSUME TypeOK, Bookkeeping, PipelineShape, [PipelineNext]_pipelineVars
    PROVE  (PipelineShape)'
<1>1. /\ requests \in Seq(Request) /\ Len(requests) \in Nat
      /\ DOMAIN requests = 1..Len(requests)
  BY LenProperties DEF PipelineShape
<1>2. CASE UNCHANGED <<requests, life>>
  <2>1. ShapeOfRequests'
    BY <1>2 DEF PipelineShape, ShapeOfRequests
  <2> QED  BY <2>1, NotifierStep DEF PipelineShape, ShapeOfRequests, ShapeOfNotifier
<1>3. ASSUME NEW b \in Batches, AlertHandler(b)
      PROVE  ShapeOfRequests'
  <2>1. CASE requests' = requests
    BY <1>3, <2>1 DEF AlertHandler, PipelineShape, ShapeOfRequests
  <2>2. ASSUME NEW q \in Request, Len(requests) < MaxRequests,
               requests' = Append(requests, q), InStep(q), q.life = life
        PROVE  ShapeOfRequests'
    <3>1. /\ requests' \in Seq(Request) /\ Len(requests') = Len(requests) + 1
          /\ \A s \in 1..Len(requests) : requests'[s] = requests[s]
          /\ requests'[Len(requests) + 1] = q
      BY <1>1, <2>2, AppendProperties
    <3>2. life' = life /\ life \in Nat /\ MaxRequests \in Nat /\ MaxCrashes \in Nat
      BY <1>3, PipelineAssumption DEF AlertHandler, PipelineShape
    <3>3. \A s \in 1..Len(requests') : InStep(requests'[s]) /\ requests'[s].life <= life
      <4> TAKE s \in 1..Len(requests')
      <4>1. CASE s \in 1..Len(requests)
        BY <3>1, <4>1 DEF PipelineShape
      <4>2. CASE s = Len(requests) + 1
        BY <2>2, <3>1, <3>2, <4>2
      <4> QED  BY <1>1, <3>1, <4>1, <4>2
    <3>4. Len(requests') <= MaxRequests /\ life' \in 0..MaxCrashes
      BY <1>1, <2>2, <3>1, <3>2 DEF PipelineShape
    <3> QED  BY <3>1, <3>2, <3>3, <3>4 DEF ShapeOfRequests
  <2> QED  BY <1>3, <2>1, <2>2, AlertEffect
<1>4. ASSUME NEW r \in 1..Len(requests), Serve(r)
      PROVE  ShapeOfRequests'
  <2>1. life' = life
    BY <1>4 DEF Serve, BeginGroup, BeginGroupRaises, LokiAnswered, LlmAnswered, PostDiscord
  <2>2. Touched(r)
    <3>1. CASE BeginGroup(r)  BY <3>1, BeginEffect
    <3>5. CASE BeginGroupRaises(r)  BY <3>5, RaiseEffect
    <3>2. CASE LokiAnswered(r)
      <4>1. "llm" \in Stages  BY DEF Stages, Waiting
      <4> QED  BY <3>2, <4>1, StageEffect DEF LokiAnswered
    <3>3. CASE LlmAnswered(r)
      <4>1. "discord" \in Stages /\ \A shape : Renderable(shape) \in BOOLEAN
        BY DEF Stages, Waiting, Renderable
      <4> QED  BY <3>3, <4>1, StageEffect DEF LlmAnswered
    <3>4. CASE PostDiscord(r)  BY <3>4, PostEffect
    <3> QED  BY <1>4, <3>1, <3>2, <3>3, <3>4, <3>5 DEF Serve
  <2> QED  BY <2>1, <2>2, TouchedShape
<1>5. ASSUME Crash PROVE ShapeOfRequests'
  <2>1. /\ requests' \in Seq(Request) /\ Len(requests') = Len(requests)
        /\ \A s \in 1..Len(requests) :
              InStep(requests'[s]) /\ requests'[s].life = requests[s].life
        /\ life' = life + 1
    BY <1>5, CrashEffect
  <2>2. life < MaxCrashes /\ MaxCrashes \in Nat /\ life \in 0..MaxCrashes
    BY <1>5, PipelineAssumption DEF Crash, PipelineShape
  <2>3. \A s \in 1..Len(requests) : requests[s].life \in Nat /\ requests[s].life <= life
    BY DEF PipelineShape, InStep, Request
  <2>4. \A s \in 1..Len(requests) : requests'[s].life <= life'
    BY <2>1, <2>2, <2>3
  <2>5. Len(requests') <= MaxRequests /\ life' \in 0..MaxCrashes
    BY <2>1, <2>2 DEF PipelineShape
  <2>6. \A s \in 1..Len(requests') : /\ InStep(requests'[s])
                                     /\ requests'[s].life <= life'
    BY <2>1, <2>4
  <2>7. requests' \in Seq(Request)
    BY <2>1
  <2> QED  BY <2>5, <2>6, <2>7 DEF ShapeOfRequests
<1>6. \/ UNCHANGED <<requests, life>>
      \/ \E b \in Batches : AlertHandler(b)
      \/ \E r \in 1..Len(requests) : Serve(r)
      \/ Crash
  BY <1>1
  DEF PipelineNext, Unreachable, PipelineTick, Quiescent, pipelineVars
<1>7. ASSUME ShapeOfRequests' PROVE (PipelineShape)'
  BY <1>7, NotifierStep DEF PipelineShape, ShapeOfRequests, ShapeOfNotifier
<1> QED  BY <1>2, <1>3, <1>4, <1>5, <1>6, <1>7

-----------------------------------------------------------------------------
\* The order and the timing of the tasks of live requests.

LEMMA DelayGrows ==
    ASSUME NEW n \in Nat
    PROVE  /\ Delay(n) \in Nat /\ Delay(0) = 0
           /\ Delay(n + 1) = Delay(n) + 3 * StageTime
           /\ StageTime \in Nat /\ StageTime > 0
<1> DEFINE D == 3 * StageTime
<1>1. D \in Nat /\ StageTime \in Nat /\ StageTime > 0
  BY PipelineAssumption
<1>2. n * 3 * StageTime = n * D /\ (n + 1) * 3 * StageTime = (n + 1) * D
  BY <1>1
<1> HIDE DEF D
<1>3. n * D \in Nat /\ (n + 1) * D = n * D + D
  BY <1>1
<1>4. 0 * 3 * StageTime = 0
  BY <1>1
<1> QED  BY <1>1, <1>2, <1>3, <1>4 DEF Delay, D

\* When one request is touched, only that one needs a look.
LEMMA TouchedTimely ==
    ASSUME Timely, NEW r \in 1..Len(requests), Touched(r),
           UNCHANGED <<now, life>>,
           Live(r)' => InOrder(requests'[r]) /\ OnTime(requests[r])'
    PROVE  Timely'
<1> SUFFICES ASSUME NEW s \in 1..Len(requests'), Live(s)'
             PROVE  InOrder(requests'[s]) /\ OnTime(requests[s])'
  BY DEF Timely
<1>1. CASE s = r
  BY <1>1
<1>2. CASE s # r
  <2>1. s \in 1..Len(requests) /\ requests'[s] = requests[s]
    BY <1>2 DEF Touched
  <2>2. InOrder(requests[s]) /\ OnTime(requests[s])
    BY <2>1 DEF Timely, Live
  <2> QED  BY <2>1, <2>2 DEF OnTime
<1> QED  BY <1>1, <1>2

\* The next task of the request is up: all before it took their time at most.
LEMMA MovesOnTimely ==
    ASSUME TypeOK, PipelineShape, Timely, NEW r \in 1..Len(requests), Live(r),
           requests[r].stage \in {"ready", "discord"},
           Touched(r), MovesOn(r), NEW fate, NEW started,
           Becomes(r, fate, started), UNCHANGED <<now, life>>
    PROVE  Timely'
<1> DEFINE q == requests[r]
           p == requests'[r]
<1>1. /\ InOrder(q) /\ OnTime(q)
      /\ q.at \in 1..Len(q.groups) /\ q.at \in Nat /\ Len(q.groups) \in Nat
      /\ q \in Request /\ now \in Nat
  BY LiveFacts DEF Timely
<1>2. /\ p.at = q.at + 1 /\ p.groups = q.groups /\ p.accepted = q.accepted
      /\ p.stage = IF q.at = Len(q.groups) THEN "done" ELSE "ready"
      /\ \A g \in 1..Len(q.groups) : g # q.at => p.fate[g] = q.fate[g]
  BY DEF Touched, MovesOn, Becomes
<1> SUFFICES ASSUME Live(r)' PROVE InOrder(p) /\ OnTime(requests[r])'
  BY TouchedTimely
<1>3. p.stage = "ready" /\ q.at < Len(q.groups)
  BY <1>1, <1>2 DEF Live
<1>4. InOrder(p)
  <2>1. \A g \in 1..Len(q.groups) : g > q.at => p.fate[g] = "queued"
    BY <1>1, <1>2 DEF InOrder
  <2>2. q.at + 1 \in 1..Len(q.groups) /\ q.at + 1 > q.at
    BY <1>1, <1>3
  <2>3. \A g \in 1..Len(q.groups) : g > q.at + 1 => g > q.at
    BY <1>1
  <2> QED  BY <1>2, <1>3, <2>1, <2>2, <2>3 DEF InOrder, Waiting
<1>5. now - q.accepted <= Delay(q.at)
  <2>1. /\ Delay(q.at - 1) \in Nat /\ Delay((q.at - 1) + 1) = Delay(q.at - 1) + 3 * StageTime
        /\ StageTime \in Nat
    <3>1. q.at - 1 \in Nat  BY <1>1
    <3> QED  BY <3>1, DelayGrows
  <2>2. (q.at - 1) + 1 = q.at
    BY <1>1
  <2>3. q.since \in Nat /\ q.accepted \in Nat
    BY <1>1, TriageAssumption DEF Request, Times
  <2>4. CASE q.stage = "ready"
    BY <1>1, <2>1, <2>2, <2>3, <2>4 DEF OnTime
  <2>5. CASE q.stage = "discord"
    <3>1. /\ q.since - q.accepted <= Delay(q.at - 1) + 2 * StageTime
          /\ now <= q.since + StageTime
      BY <1>1, <2>5 DEF OnTime, Waiting
    <3> QED  BY <1>1, <2>1, <2>2, <2>3, <3>1
  <2> QED  BY <2>4, <2>5
<1>6. p.at - 1 = q.at
  BY <1>1, <1>2
<1>7. OnTime(requests[r])'
  BY <1>2, <1>3, <1>5, <1>6 DEF OnTime, Waiting, Delay
<1> QED  BY <1>4, <1>7

\* The request goes to the next stage of its running task.
LEMMA StaysAtTimely ==
    ASSUME TypeOK, PipelineShape, Timely, NEW r \in 1..Len(requests), Live(r),
           NEW stage,
           NEW started,
           \/ requests[r].stage = "ready" /\ stage = "loki" /\ started = now
           \/ /\ \/ requests[r].stage = "loki" /\ stage = "llm"
                 \/ requests[r].stage = "llm" /\ stage = "discord"
              /\ started = requests[r].started[requests[r].at],
           Touched(r), StaysAt(r, stage),
           Becomes(r, "running", started), UNCHANGED <<now, life>>
    PROVE  Timely'
<1> DEFINE q == requests[r]
           p == requests'[r]
           d == Delay(q.at - 1)
<1>1. /\ InOrder(q) /\ OnTime(q)
      /\ q.at \in 1..Len(q.groups) /\ q.at \in Nat /\ q \in Request /\ now \in Nat
  BY LiveFacts DEF Timely
<1>2. /\ p.at = q.at /\ p.groups = q.groups /\ p.accepted = q.accepted
      /\ p.stage = stage /\ p.since = now
      /\ \A g \in 1..Len(q.groups) : g # q.at => p.fate[g] = q.fate[g]
      /\ p.fate[q.at] = "running" /\ p.started[q.at] = started
  BY <1>1 DEF Touched, StaysAt, Becomes
<1>3. stage \in Waiting /\ stage # "ready"
  BY DEF Waiting
<1>4. InOrder(p)
  <2>1. \A g \in 1..Len(q.groups) : g > q.at => g # q.at
    BY <1>1
  <2> QED  BY <1>1, <1>2, <1>3, <2>1 DEF InOrder
<1>5. /\ d \in Nat /\ StageTime \in Nat /\ q.since \in Nat /\ q.accepted \in Nat
  <2>1. q.since \in Nat /\ q.accepted \in Nat
    <3>1. q.since \in Times /\ q.accepted \in Times
      BY <1>1 DEF Request
    <3> QED  BY <3>1, TriageAssumption DEF Times
  <2>2. q.at - 1 \in Nat  BY <1>1
  <2> QED  BY <2>1, <2>2, DelayGrows
<1> HIDE DEF d
<1>6. /\ stage = "loki" => now - q.accepted <= d
      /\ stage = "llm" => now - q.accepted <= d + StageTime
      /\ stage = "discord" => now - q.accepted <= d + 2 * StageTime
  <2>1. CASE q.stage = "ready" /\ stage = "loki"
    BY <1>1, <2>1 DEF OnTime, d
  <2>2. CASE q.stage = "loki" /\ stage = "llm"
    <3>1. q.since - q.accepted <= d /\ now <= q.since + StageTime
      BY <1>1, <2>2 DEF OnTime, Waiting, d
    <3> QED  BY <1>1, <1>5, <2>2, <3>1
  <2>3. CASE q.stage = "llm" /\ stage = "discord"
    <3>1. q.since - q.accepted <= d + StageTime /\ now <= q.since + StageTime
      BY <1>1, <2>3 DEF OnTime, Waiting, d
    <3> QED  BY <1>1, <1>5, <2>3, <3>1
  <2> QED  BY <2>1, <2>2, <2>3
<1>7. now <= now /\ now <= now + StageTime
  BY <1>1, <1>5
<1>8. /\ stage = "loki" => now = started
      /\ stage = "llm" => now - started \in 0..StageTime
      /\ stage = "discord" => now - started \in 0..2 * StageTime
  <2>1. q.started[q.at] \in Nat
    BY <1>1, TaskFacts
  <2>2. CASE q.stage = "loki" /\ stage = "llm"
    <3>1. /\ q.since = q.started[q.at] /\ q.since <= now
          /\ now <= q.since + StageTime
      BY <1>1, <2>2 DEF OnTime, Waiting
    <3> QED  BY <1>1, <1>5, <2>1, <2>2, <3>1
  <2>3. CASE q.stage = "llm" /\ stage = "discord"
    <3>1. /\ q.since - q.started[q.at] \in 0..StageTime /\ q.since <= now
          /\ now <= q.since + StageTime
      BY <1>1, <2>3 DEF OnTime, Waiting
    <3> QED  BY <1>1, <1>5, <2>1, <2>3, <3>1
  <2> QED  BY <2>2, <2>3
<1>9. OnTime(requests[r])'
  BY <1>2, <1>3, <1>6, <1>7, <1>8 DEF OnTime, Delay, d
<1> QED  BY <1>4, <1>9, TouchedTimely

LEMMA TimelyStep ==
    ASSUME TypeOK, Bookkeeping, PipelineShape, Timely, [PipelineNext]_pipelineVars
    PROVE  Timely'
<1>1. /\ requests \in Seq(Request) /\ Len(requests) \in Nat
      /\ DOMAIN requests = 1..Len(requests)
  BY LenProperties DEF PipelineShape
<1>2. CASE UNCHANGED <<now, life, requests>>
  BY <1>2 DEF Timely, Live, OnTime
<1>3. ASSUME NEW b \in Batches, AlertHandler(b)
      PROVE  Timely'
  <2>1. UNCHANGED <<now, life>>
    BY <1>3, AlertEffect DEF vars
  <2>2. ASSUME NEW q \in Request, requests' = Append(requests, q), InStep(q),
               q.life = life, q.accepted = now, q.at = 1,
               q.stage \in {"ready", "done"},
               \A g \in 1..Len(q.groups) : q.fate[g] = "queued"
        PROVE  Timely'
    <3>1. /\ Len(requests') = Len(requests) + 1
          /\ \A s \in 1..Len(requests) : requests'[s] = requests[s]
          /\ requests'[Len(requests) + 1] = q
      BY <1>1, <2>2, AppendProperties
    <3>2. now \in Nat /\ Delay(0) = 0
      BY TriageAssumption, DelayGrows DEF TypeOK, Times
    <3> SUFFICES ASSUME NEW s \in 1..Len(requests'), Live(s)'
                 PROVE  InOrder(requests'[s]) /\ OnTime(requests[s])'
      BY DEF Timely
    <3>3. CASE s \in 1..Len(requests)
      <4>1. requests'[s] = requests[s] /\ Live(s)
        BY <2>1, <3>1, <3>3 DEF Live
      <4>2. InOrder(requests[s]) /\ OnTime(requests[s])
        BY <3>3, <4>1 DEF Timely
      <4> QED  BY <2>1, <4>1, <4>2 DEF OnTime
    <3>4. CASE s = Len(requests) + 1
      <4>1. requests'[s] = q /\ q.stage = "ready"
        BY <2>2, <3>1, <3>4 DEF Live
      <4>2. q.at <= Len(q.groups) /\ Len(q.groups) \in Nat
        BY <2>2, <4>1, LenProperties DEF InStep, Request
      <4>3. InOrder(q)
        BY <2>2, <4>1, <4>2 DEF InOrder, Waiting
      <4>4. OnTime(requests[s])'
        BY <2>1, <2>2, <3>2, <4>1 DEF OnTime, Waiting, Delay
      <4> QED  BY <4>1, <4>3, <4>4
    <3> QED  BY <1>1, <3>1, <3>3, <3>4
  <2> QED  BY <1>2, <1>3, <2>1, <2>2, AlertEffect
<1>4. ASSUME NEW r \in 1..Len(requests), BeginGroup(r)
      PROVE  Timely'
  <2>1. /\ Live(r) /\ requests[r].stage = "ready" /\ Touched(r)
        /\ UNCHANGED <<now, life>>
    BY <1>4, BeginEffect DEF BeginGroup
  <2>2. CASE Becomes(r, "running", now) /\ StaysAt(r, "loki")
    BY <2>1, <2>2, StaysAtTimely
  <2>3. CASE Becomes(r, decision'.reason, now) /\ MovesOn(r)
    BY <2>1, <2>3, MovesOnTimely
  <2> QED  BY <1>4, <2>2, <2>3, BeginEffect
<1>13. ASSUME NEW r \in 1..Len(requests), BeginGroupRaises(r)
       PROVE  Timely'
  <2>1. Touched(r) /\ requests'[r].stage = "done" /\ UNCHANGED <<now, life>>
    BY <1>13, RaiseEffect DEF vars
  <2> QED  BY <2>1, TouchedTimely DEF Live
<1>5. ASSUME NEW r \in 1..Len(requests), Live(r),
             requests[r].stage \in {"loki", "llm", "discord"}
      PROVE  requests[r].fate[requests[r].at] = "running"
  BY <1>5 DEF Timely, InOrder, Waiting
<1>6. ASSUME NEW r \in 1..Len(requests), LokiAnswered(r)
      PROVE  Timely'
  <2>1. /\ Live(r) /\ requests[r].stage = "loki" /\ UNCHANGED <<now, life>>
    BY <1>6 DEF LokiAnswered, vars
  <2>2. "llm" \in Stages  BY DEF Stages, Waiting
  <2>3. /\ Touched(r) /\ StaysAt(r, "llm")
        /\ Becomes(r, "running", requests[r].started[requests[r].at])
    BY <1>5, <1>6, <2>1, <2>2, StageEffect DEF LokiAnswered
  <2> QED  BY <2>1, <2>3, StaysAtTimely
<1>7. ASSUME NEW r \in 1..Len(requests), LlmAnswered(r)
      PROVE  Timely'
  <2>1. /\ Live(r) /\ requests[r].stage = "llm" /\ UNCHANGED <<now, life>>
    BY <1>7 DEF LlmAnswered, vars
  <2>2. "discord" \in Stages /\ \A shape : Renderable(shape) \in BOOLEAN
    BY DEF Stages, Waiting, Renderable
  <2>3. /\ Touched(r) /\ StaysAt(r, "discord")
        /\ Becomes(r, "running", requests[r].started[requests[r].at])
    BY <1>5, <1>7, <2>1, <2>2, StageEffect DEF LlmAnswered
  <2> QED  BY <2>1, <2>3, StaysAtTimely
<1>8. ASSUME NEW r \in 1..Len(requests), PostDiscord(r)
      PROVE  Timely'
  <2>1. UNCHANGED <<now, life>>
    BY <1>8 DEF PostDiscord, vars
  <2> QED  BY <1>8, <2>1, PostEffect, MovesOnTimely
<1>9. CASE PipelineTick
  <2>1. /\ UNCHANGED <<requests, life>> /\ now' = now + 1
        /\ \A r \in 1..Len(requests) :
              Live(r) => /\ requests[r].stage \in Waiting
                         /\ now < requests[r].since + StageTime
    BY <1>1, <1>9 DEF PipelineTick
  <2> SUFFICES ASSUME NEW s \in 1..Len(requests), Live(s)
               PROVE  OnTime(requests[s])'
    BY <2>1 DEF Timely, Live
  <2>2. /\ OnTime(requests[s]) /\ requests[s].stage # "ready"
        /\ now < requests[s].since + StageTime
    BY <2>1 DEF Timely, Waiting
  <2>3. now \in Nat /\ requests[s].since \in Nat /\ StageTime \in Nat
    <3>1. requests[s] \in Request
      BY LiveFacts
    <3> QED
      BY <3>1, TriageAssumption, PipelineAssumption DEF TypeOK, Times, Request
  <2>4. now + 1 <= requests[s].since + StageTime /\ requests[s].since <= now + 1
    <3>1. requests[s].since <= now
      BY <2>1 DEF Timely, OnTime
    <3> QED  BY <2>2, <2>3, <3>1
  <2> QED  BY <2>1, <2>2, <2>4 DEF OnTime, Delay
<1>10. CASE Crash
  <2> SUFFICES ASSUME NEW s \in 1..Len(requests'), Live(s)' PROVE FALSE
    BY DEF Timely
  <2>1. /\ s \in 1..Len(requests) /\ requests'[s].life = requests[s].life
        /\ life' = life + 1
    BY <1>10, CrashEffect
  <2>2. requests[s] \in Request /\ requests[s].life <= life /\ life \in 0..MaxCrashes
    BY <2>1 DEF PipelineShape, InStep
  <2>3. requests[s].life \in Nat /\ life \in Nat
    BY <2>2, PipelineAssumption DEF Request
  <2>4. requests'[s].life = life'
    BY DEF Live
  <2> QED  BY <2>1, <2>2, <2>3, <2>4
<1>11. CASE Quiescent \/ UNCHANGED pipelineVars
  BY <1>2, <1>11 DEF Quiescent, pipelineVars, vars
<1>12. ASSUME NEW b \in Batches, Unreachable(b) PROVE Timely'
  BY <1>2, <1>12 DEF Unreachable, vars
<1> QED
  BY <1>1, <1>3, <1>4, <1>6, <1>7, <1>8, <1>9, <1>10, <1>11, <1>12, <1>13
  DEF PipelineNext, Serve


StartsOnTime ==
    \A r \in 1..Len(requests) : \A g \in 1..Len(requests[r].groups) :
        Started(requests[r], g) =>
            requests[r].started[g] - requests[r].accepted <= Delay(g - 1)

LEMMA DelayForms ==
    ASSUME PipelineShape
    PROVE  QueueingDelay <=> StartsOnTime
BY Domains DEF QueueingDelay, StartsOnTime, Delay

LEMMA StartsOnTimeStep ==
    ASSUME TypeOK, Bookkeeping, PipelineShape, (PipelineShape)', Timely,
           StartsOnTime, [PipelineNext]_pipelineVars
    PROVE  StartsOnTime'
<1> DEFINE Prompt(s, g) ==
              Started(requests'[s], g) =>
                 requests'[s].started[g] - requests'[s].accepted <= Delay(g - 1)
<1> SUFFICES ASSUME NEW s \in 1..Len(requests'),
                    NEW g \in 1..Len(requests'[s].groups)
             PROVE  Prompt(s, g)
  BY DEF StartsOnTime, Started
<1>1. Len(requests) \in Nat /\ Len(requests') \in Nat
  BY LenProperties DEF PipelineShape
<1>2. ASSUME s \in 1..Len(requests), SameRequest(s),
             requests'[s].started[g] = requests[s].started[g],
             Started(requests'[s], g) => Started(requests[s], g)
      PROVE  Prompt(s, g)
  BY <1>2 DEF StartsOnTime, SameRequest
<1>3. CASE Quietly
  <2>1. CASE s \in 1..Len(requests)
    BY <1>2, <1>3, <2>1 DEF Quietly, Started, SameRequest
  <2>2. CASE s \notin 1..Len(requests)
    <3>1. s > Len(requests)  BY <1>1, <2>2
    <3>2. requests'[s].fate[g] = "queued"  BY <1>3, <3>1 DEF Quietly
    <3> QED  BY <3>2 DEF Started
  <2> QED  BY <2>1, <2>2
<1>4. CASE Dies
  <2>1. s \in 1..Len(requests) /\ g \in 1..Len(requests[s].groups)
    BY <1>4 DEF Dies, SameRequest
  <2>2. Started(requests'[s], g) => Started(requests[s], g)
    BY <1>4, <2>1 DEF Dies, Started
  <2> QED  BY <1>2, <1>4, <2>1, <2>2 DEF Dies
<1>5. ASSUME NEW r \in 1..Len(requests), NEW fate, NEW started,
             Serves(r, fate, started),
             \/ started = now /\ requests[r].stage = "ready"
             \/ /\ started = requests[r].started[requests[r].at]
                /\ requests[r].stage = "discord"
      PROVE  Prompt(s, g)
  <2>1. s \in 1..Len(requests) /\ g \in 1..Len(requests[s].groups) /\ SameRequest(s)
    BY <1>5 DEF Serves, SameRequest
  <2>2. CASE s = r /\ g = requests[r].at
    <3>1. requests'[s].started[g] = started
      BY <1>5, <2>1, <2>2 DEF Serves
    <3>2. InOrder(requests[r]) /\ OnTime(requests[r])
      BY <1>5 DEF Serves, Timely
    <3>3. CASE started = now /\ requests[r].stage = "ready"
      BY <2>1, <2>2, <3>1, <3>2, <3>3 DEF OnTime, SameRequest
    <3>4. CASE /\ started = requests[r].started[requests[r].at]
               /\ requests[r].stage = "discord"
      <4>1. Started(requests[s], g)
        BY <2>2, <3>2, <3>4 DEF InOrder, Waiting, Started
      <4> QED  BY <1>2, <2>1, <2>2, <3>1, <3>4, <4>1
    <3> QED  BY <1>5, <3>3, <3>4
  <2>3. CASE ~(s = r /\ g = requests[r].at)
    <3>1. /\ requests'[s].fate[g] = requests[s].fate[g]
          /\ requests'[s].started[g] = requests[s].started[g]
      BY <1>5, <2>1, <2>3 DEF Serves
    <3> QED  BY <1>2, <2>1, <3>1 DEF Started
  <2> QED  BY <2>2, <2>3
<1>6. ASSUME NEW r \in 1..Len(requests), Admits(r)
      PROVE  Prompt(s, g)
  BY <1>5, <1>6 DEF Admits
<1>7. ASSUME NEW r \in 1..Len(requests), NEW reason \in Reasons, Skips(r, reason)
      PROVE  Prompt(s, g)
  BY <1>5, <1>7 DEF Skips
<1>8. ASSUME NEW r \in 1..Len(requests), NEW fate \in Fates, Posts(r, fate)
      PROVE  Prompt(s, g)
  BY <1>5, <1>8 DEF Posts
<1> QED  BY <1>3, <1>4, <1>6, <1>7, <1>8, StepKinds

-----------------------------------------------------------------------------
\* The embeds in the channel.

LEMMA EmbedsAreSpaced ==
    ASSUME TypeOK, PipelineShape, TasksAreSpaced, EmbedsHaveTasks
    PROVE  NoDoubleEmbed
<1> SUFFICES ASSUME NEW e \in posted, NEW f \in posted,
                    e # f, e.ip = f.ip, e.life = f.life
             PROVE  Gap(e, f) >= DEDUPE_WINDOW
  BY DEF NoDoubleEmbed
<1>1. PICK r, g, t \in Nat : IsAdmitted(r, g) /\ e = EmbedOf(r, g, t)
  BY DEF EmbedsHaveTasks, Posted
<1>2. PICK s, h, u \in Nat : IsAdmitted(s, h) /\ f = EmbedOf(s, h, u)
  BY DEF EmbedsHaveTasks, Posted
<1>3. <<r, g>> # <<s, h>>
  BY <1>1, <1>2 DEF EmbedsHaveTasks, EmbedOf
<1>4. /\ e.ip = requests[r].groups[g] /\ e.life = requests[r].life
      /\ e.admittedAt = requests[r].started[g]
      /\ f.ip = requests[s].groups[h] /\ f.life = requests[s].life
      /\ f.admittedAt = requests[s].started[h]
  BY <1>1, <1>2 DEF EmbedOf
<1>5. \/ e.admittedAt - f.admittedAt >= DEDUPE_WINDOW
      \/ f.admittedAt - e.admittedAt >= DEDUPE_WINDOW
  BY <1>1, <1>2, <1>3, <1>4 DEF TasksAreSpaced
<1>6. e.admittedAt \in Nat /\ f.admittedAt \in Nat /\ DEDUPE_WINDOW \in Nat
  BY <1>1, <1>2, <1>4, TaskFacts, TriageAssumption DEF IsAdmitted
<1> QED  BY <1>5, <1>6 DEF Gap

\* What the running process has posted in an hour less the delay of an embed.
LifeBudget ==
    \A t \in Times :
        Cardinality({e \in posted :
                        /\ e.life = life
                        /\ e.postedAt \in t..t + HOUR - 3 * StageTime})
            <= MAX_PER_HOUR

\* No more than MAX_PER_HOUR entries of the record fall into one hour.
LEMMA HourOfTheRecord ==
    ASSUME TypeOK, Bookkeeping, RateCap, NEW t \in Int
    PROVE  LET K == {i \in 1..Len(admitted) : admitted[i].at \in t..t + HOUR} IN
           IsFiniteSet(K) /\ Cardinality(K) <= MAX_PER_HOUR
<1> DEFINE K == {i \in 1..Len(admitted) : admitted[i].at \in t..t + HOUR}
<1>1. /\ Len(admitted) \in Nat /\ HOUR \in Nat
      /\ MAX_PER_HOUR \in Nat /\ MAX_PER_HOUR > 0
      /\ \A i \in 1..Len(admitted) : admitted[i].at \in Nat
  BY AdmissionFacts, TriageAssumption
<1>2. K \in SUBSET Nat
  BY <1>1
<1>3. CASE K = {}
  <2>1. IsFiniteSet(K) /\ Cardinality(K) = 0
    <3> HIDE DEF K
    <3> QED  BY <1>3, FS_EmptySet
  <2> QED  BY <1>1, <2>1
<1>4. CASE K # {}
  <2>1. PICK m \in K : \A n \in K : m <= n
    BY <1>2, <1>4, LeastElement
  <2>2. m \in 1..Len(admitted) /\ m \in Nat /\ admitted[m].at >= t
    BY <1>1, <2>1
  <2>3. ASSUME NEW n \in K, n > m + MAX_PER_HOUR - 1 PROVE FALSE
    <3>1. /\ n \in 1..Len(admitted) /\ admitted[n].at <= t + HOUR
          /\ m + MAX_PER_HOUR \in 1..Len(admitted)
          /\ m + MAX_PER_HOUR <= Len(admitted) /\ m + MAX_PER_HOUR <= n
      BY <1>1, <2>2, <2>3
    <3>2. admitted[m + MAX_PER_HOUR].at - admitted[m].at > HOUR
      BY <2>2, <3>1 DEF RateCap
    <3>3. admitted[m + MAX_PER_HOUR].at <= admitted[n].at
      BY <1>1, <3>1 DEF Bookkeeping, Chronological
    <3> QED  BY <1>1, <2>2, <3>1, <3>2, <3>3
  <2>4. K \in SUBSET (m..m + MAX_PER_HOUR - 1)
    BY <1>1, <1>2, <2>1, <2>2, <2>3
  <2>5. /\ IsFiniteSet(m..m + MAX_PER_HOUR - 1)
        /\ Cardinality(m..m + MAX_PER_HOUR - 1) = MAX_PER_HOUR
    <3>1. m \in Int /\ m + MAX_PER_HOUR - 1 \in Int
      BY <1>1, <2>2
    <3>2. IF m > m + MAX_PER_HOUR - 1
          THEN FALSE ELSE (m + MAX_PER_HOUR - 1) - m + 1 = MAX_PER_HOUR
      BY <1>1, <2>2
    <3> QED  BY <3>1, <3>2, FS_Interval
  <2>6. IsFiniteSet(K) /\ Cardinality(K) <= Cardinality(m..m + MAX_PER_HOUR - 1)
    BY <2>4, <2>5, FS_Subset
  <2> QED  BY <2>5, <2>6
<1> QED  BY <1>3, <1>4

\* Each embed of this life has an entry of its own in the record.
LEMMA LifeBudgetHolds ==
    ASSUME TypeOK, Bookkeeping, RateCap, PipelineShape, TasksAreRecorded,
           EmbedsHaveTasks, NoDoubleEmbed
    PROVE  LifeBudget
<1> SUFFICES ASSUME NEW t \in Times
             PROVE  Cardinality({e \in posted :
                                    /\ e.life = life
                                    /\ e.postedAt \in t..t + HOUR - 3 * StageTime})
                        <= MAX_PER_HOUR
  BY DEF LifeBudget
<1> DEFINE u == t - 3 * StageTime
           E == {e \in posted : /\ e.life = life
                                /\ e.postedAt \in t..t + HOUR - 3 * StageTime}
           K == {i \in 1..Len(admitted) : admitted[i].at \in u..u + HOUR}
           Entry(e, i) == admitted[i].key = e.ip /\ admitted[i].at = e.admittedAt
           f == [e \in E |-> CHOOSE i \in K : Entry(e, i)]
<1>1. IsFiniteSet(K) /\ Cardinality(K) <= MAX_PER_HOUR
  <2>1. u \in Int  BY TriageAssumption, PipelineAssumption DEF Times
  <2> HIDE DEF u
  <2> QED  BY <2>1, HourOfTheRecord
<1>2. \A e \in E : (\E i \in K : Entry(e, i)) /\ e.admittedAt \in Nat
  <2> SUFFICES ASSUME NEW e \in E
               PROVE  (\E i \in K : Entry(e, i)) /\ e.admittedAt \in Nat
    OBVIOUS
  <2>1. PICK r, g, v \in Nat : /\ IsAdmitted(r, g) /\ e = EmbedOf(r, g, v)
                               /\ v - requests[r].started[g] \in 0..3 * StageTime
    BY DEF EmbedsHaveTasks, Posted
  <2>2. /\ e.ip = requests[r].groups[g] /\ e.life = requests[r].life
        /\ e.admittedAt = requests[r].started[g] /\ e.postedAt = v
    BY <2>1 DEF EmbedOf
  <2>3. PICK i \in 1..Len(admitted) : Records(i, r, g)
    BY <2>1, <2>2 DEF TasksAreRecorded
  <2>4. e.admittedAt \in Nat
    BY <2>1, <2>2, TaskFacts DEF IsAdmitted
  <2>5. e.admittedAt \in u..u + HOUR
    <3>1. /\ v \in t..t + HOUR - 3 * StageTime /\ v - e.admittedAt \in 0..3 * StageTime
          /\ t \in Nat /\ HOUR \in Nat /\ StageTime \in Nat
      BY <2>1, <2>2, TriageAssumption, PipelineAssumption DEF Times
    <3> QED  BY <2>4, <3>1
  <2> QED  BY <2>2, <2>3, <2>4, <2>5 DEF Records
<1>3. f \in [E -> K] /\ \A e \in E : Entry(e, f[e])
  BY <1>2
<1>4. \A d, e \in E : f[d] = f[e] => d = e
  <2> SUFFICES ASSUME NEW d \in E, NEW e \in E, f[d] = f[e], d # e
               PROVE  FALSE
    OBVIOUS
  <2> HIDE DEF f
  <2>1. d.ip = e.ip /\ d.admittedAt = e.admittedAt /\ d.life = e.life
    BY <1>3
  <2>2. Gap(d, e) >= DEDUPE_WINDOW
    BY <2>1 DEF NoDoubleEmbed
  <2>3. DEDUPE_WINDOW \in Nat /\ DEDUPE_WINDOW > 0 /\ d.admittedAt \in Nat
    BY <1>2, TriageAssumption
  <2> QED  BY <2>1, <2>2, <2>3 DEF Gap
<1>5. f \in Injection(E, K)
  <2> HIDE DEF f, E, K
  <2> QED  BY <1>3, <1>4 DEF Injection, IsInjective
<1>6. IsFiniteSet(E) /\ Cardinality(E) <= Cardinality(K)
  <2> HIDE DEF f, E, K
  <2> QED  BY <1>1, <1>5, FS_Injection
<1>7. Cardinality(E) \in Nat /\ Cardinality(K) \in Nat /\ MAX_PER_HOUR \in Nat
  <2> HIDE DEF f, E, K
  <2> QED  BY <1>1, <1>6, FS_CardinalityType, TriageAssumption
<1> QED  BY <1>1, <1>6, <1>7

\* Earlier lives post nothing any more.
LEMMA EmbedBudgetStep ==
    ASSUME TypeOK, Bookkeeping, PipelineShape, LifeBudget', EmbedBudget,
           [PipelineNext]_pipelineVars
    PROVE  EmbedBudget'
<1>1. CASE posted' = posted
  BY <1>1 DEF EmbedBudget
<1>2. ASSUME NEW r \in 1..Len(requests), NEW fate \in Fates, Posts(r, fate),
             NEW t \in Times, NEW l \in 0..MaxCrashes
      PROVE  Cardinality({e \in posted' :
                             /\ e.life = l
                             /\ e.postedAt \in t..t + HOUR - 3 * StageTime})
                 <= MAX_PER_HOUR
  <2>1. life' = life /\ requests[r].life = life
    BY <1>2, ServedTasks DEF Posts
  <2>2. CASE l = life
    <3>1. l = life'
      BY <2>1, <2>2
    <3> QED  BY <3>1 DEF LifeBudget
  <2>3. CASE l # life
    <3> DEFINE In(e) == /\ e.life = l
                        /\ e.postedAt \in t..t + HOUR - 3 * StageTime
    <3>1. EmbedOf(r, requests[r].at, now).life = life
      BY <2>1 DEF EmbedOf
    <3>2. {e \in posted' : In(e)} = {e \in posted : In(e)}
      BY <1>2, <2>3, <3>1 DEF Posts
    <3> QED  BY <3>2 DEF EmbedBudget
  <2> QED  BY <2>2, <2>3
<1>3. \/ posted' = posted
      \/ \E r \in 1..Len(requests) : \E fate \in Fates : Posts(r, fate)
  BY StepKinds DEF Quietly, Admits, Skips, Dies
<1> QED  BY <1>1, <1>2, <1>3 DEF EmbedBudget

-----------------------------------------------------------------------------
\* The inductive invariant and what follows from it.

PipelineFacts == /\ TypeOK /\ Bookkeeping /\ PipelineShape
                 /\ Timely
                 /\ TasksAreRecorded /\ RecordHasTasks
                 /\ TasksAreSpaced /\ EmbedsHaveTasks

LEMMA PipelineInitEstablishes ==
    PipelineInit => PipelineFacts /\ RateCap /\ DuplicatesHaveOriginals
                    /\ StartsOnTime /\ EmbedBudget
<1> SUFFICES ASSUME PipelineInit
             PROVE  PipelineFacts /\ RateCap /\ DuplicatesHaveOriginals
                    /\ StartsOnTime /\ EmbedBudget
  OBVIOUS
<1>1. TypeOK /\ Bookkeeping /\ RateCap
  BY InitEstablishes DEF PipelineInit, Init, RateCap
<1>2. requests = <<>> /\ posted = {} /\ life = 0 /\ Len(requests) = 0
  BY DEF PipelineInit
<1>3. admitted = <<>> /\ Len(admitted) = 0
  BY DEF PipelineInit, Init
<1>4. \A r : r \notin 1..Len(requests)
  BY <1>2
<1>5. PipelineShape
  <2>1. PICK body \in [Batches -> UNION {Payloads[b] : b \in Batches}] :
            /\ \A b \in Batches : body[b] \in Payloads[b]
            /\ notifier = [b \in Batches |-> [payload |-> body[b], tries |-> 0,
                                             status |-> "idle"]]
    BY DEF PipelineInit
  <2>2. /\ MaxRetry \in Nat /\ MaxRequests \in Nat /\ MaxCrashes \in Nat
        /\ \A b \in Batches : body[b] \in Payload
    BY <2>1, PipelineAssumption
  <2>3. 0 \in 0..MaxRetry + 1 /\ "idle" \in Statuses /\ life \in 0..MaxCrashes
    BY <1>2, <2>2 DEF Statuses
  <2>4. \A b \in Batches : /\ notifier[b].payload \in Payloads[b]
                           /\ CanSend(b) => notifier[b].tries <= MaxRetry
    BY <2>1, <2>2
  <2>5. notifier \in [Batches -> [payload : Payload, tries : 0..MaxRetry + 1,
                                  status : Statuses]]
    BY <2>1, <2>2, <2>3
  <2>6. requests \in Seq(Request) /\ Len(requests) <= MaxRequests
    BY <1>2, <2>2
  <2> QED  BY <1>4, <2>3, <2>4, <2>5, <2>6 DEF PipelineShape
<1>6. Timely /\ TasksAreRecorded /\ TasksAreSpaced /\ DuplicatesHaveOriginals /\ StartsOnTime
  BY <1>4 DEF Timely, TasksAreRecorded, TasksAreSpaced, DuplicatesHaveOriginals,
              StartsOnTime, IsAdmitted
<1>7. RecordHasTasks /\ EmbedsHaveTasks
  BY <1>2, <1>3 DEF RecordHasTasks, EmbedsHaveTasks
<1>8. EmbedBudget
  <2>1. Cardinality({}) = 0 /\ MAX_PER_HOUR \in Nat /\ MAX_PER_HOUR > 0
    BY FS_EmptySet, TriageAssumption
  <2> SUFFICES ASSUME NEW t \in Times, NEW l \in 0..MaxCrashes
               PROVE  Cardinality({e \in posted :
                                      /\ e.life = l
                                      /\ e.postedAt \in t..t + HOUR - 3 * StageTime})
                          <= MAX_PER_HOUR
    BY DEF EmbedBudget
  <2>2. {e \in posted : /\ e.life = l
                        /\ e.postedAt \in t..t + HOUR - 3 * StageTime} = {}
    BY <1>2
  <2> QED  BY <2>1, <2>2
<1> QED  BY <1>1, <1>5, <1>6, <1>7, <1>8 DEF PipelineFacts

LEMMA PipelineFactsStep ==
    PipelineFacts /\ [PipelineNext]_pipelineVars => PipelineFacts'
<1> SUFFICES ASSUME PipelineFacts, [PipelineNext]_pipelineVars
             PROVE  PipelineFacts'
  OBVIOUS
<1>1. /\ TypeOK /\ Bookkeeping /\ PipelineShape /\ Timely /\ TasksInOrder
      /\ TasksAreRecorded /\ RecordHasTasks /\ TasksAreSpaced /\ EmbedsHaveTasks
  BY DEF PipelineFacts, Timely, TasksInOrder
<1>2. TypeOK' /\ Bookkeeping'
  BY <1>1, TrackerStep, NextPreserves
<1>3. (PipelineShape)'
  BY <1>1, PipelineShapeStep
<1>4. Timely'
  BY <1>1, <1>3, TimelyStep
<1>5. TasksAreRecorded' /\ RecordHasTasks'
  BY <1>1, <1>3, TasksAreRecordedStep, RecordHasTasksStep
<1>6. TasksAreSpaced' /\ EmbedsHaveTasks'
  BY <1>1, <1>3, TasksAreSpacedStep, EmbedsHaveTasksStep
<1> QED  BY <1>2, <1>3, <1>4, <1>5, <1>6 DEF PipelineFacts

\* In every reachable state of the pipeline the tracker's record and the tasks
\* of the running process tell one story (alert_handler, _process_ip_group):
\* every admitted task has its entry and every entry its task, tasks run in
\* order and on time, and every embed is the one of an admitted task.
THEOREM PipelineInvariant == PipelineSpec => []PipelineFacts
<1>1. PipelineInit => PipelineFacts
  BY PipelineInitEstablishes
<1> QED  BY <1>1, PipelineFactsStep, PTL DEF PipelineSpec

\* Concurrent requests, retries and crashes use the tracker only through whole
\* calls of should_process: the pipeline implements the tracker's
\* specification, and so has all its properties (_process_ip_group).
THEOREM PipelineUsesTracker == PipelineSpec => UsesTracker
<1>1. PipelineInit => Init
  BY DEF PipelineInit
<1>2. PipelineFacts /\ [PipelineNext]_pipelineVars => [Next]_vars
  BY TrackerStep DEF PipelineFacts
<1> QED  BY <1>1, <1>2, PipelineInvariant, PTL DEF PipelineSpec, Spec, UsesTracker

\* The state of the pipeline keeps its shape, for all batches, bodies, retries
\* and crashes (alert_handler and its background tasks).
THEOREM PipelineTypes == PipelineSpec => []PipelineTypeOK
<1>1. PipelineFacts => PipelineTypeOK
  <2> SUFFICES ASSUME TypeOK, PipelineShape PROVE PipelineTypeOK
    BY DEF PipelineFacts
  <2>1. \A r \in 1..Len(requests) : InStep(requests[r]) /\ requests[r] \in Request
    BY DEF PipelineShape, InStep
  <2>2. \A r \in 1..Len(requests) :
           /\ requests[r].batch \in Batches /\ requests[r].stage \in Stages
           /\ requests[r].renderable \in BOOLEAN
    BY <2>1 DEF Request
  <2>3. ASSUME NEW r \in 1..Len(requests), NEW g \in 1..Len(requests[r].groups)
        PROVE  /\ requests[r].groups[g] \in Keys
               /\ requests[r].fate[g] \in Fates
               /\ requests[r].started[g] \in Times
    BY <2>1, <2>3, ElementOfSeq DEF InStep, Request
  <2>4. \A b \in Batches :
           /\ notifier[b].payload \in Payloads[b]
           /\ notifier[b].tries \in 0..MaxRetry + 1
           /\ notifier[b].status \in {"idle", "retry", "acked", "gave_up"}
    BY DEF PipelineShape, Statuses
  <2>5. Len(requests) <= MaxRequests /\ life \in 0..MaxCrashes
    BY DEF PipelineShape
  <2> QED  BY <2>2, <2>3, <2>4, <2>5, Domains DEF PipelineTypeOK
<1> QED  BY <1>1, PipelineInvariant, PTL

\* However requests interleave and however often a batch is delivered, one IP
\* gets one embed per de-duplication window and process life: the IP is marked
\* before the first await (_process_ip_group).
THEOREM OneEmbedPerWindow == PipelineSpec => []NoDoubleEmbed
<1>1. PipelineFacts => NoDoubleEmbed
  BY EmbedsAreSpaced DEF PipelineFacts
<1> QED  BY <1>1, PipelineInvariant, PTL

\* In an hour less the time of three outside calls, one process life puts at most
\* MAX_PER_HOUR embeds into the channel, over all requests: admissions are capped
\* per hour, and an embed appears that late after its admission at most
\* (should_process, _process_ip_group).
THEOREM EmbedsStayInBudget == PipelineSpec => []EmbedBudget
<1>1. PipelineSpec => []RateCap
  BY PipelineUsesTracker, SpendIsCapped, PTL DEF UsesTracker
<1>2. PipelineFacts /\ RateCap => LifeBudget
  BY EmbedsAreSpaced, LifeBudgetHolds DEF PipelineFacts
<1>3. PipelineFacts /\ LifeBudget' /\ EmbedBudget /\ [PipelineNext]_pipelineVars
          => EmbedBudget'
  BY EmbedBudgetStep DEF PipelineFacts
<1>4. PipelineInit => EmbedBudget
  BY PipelineInitEstablishes
<1> QED  BY <1>1, <1>2, <1>3, <1>4, PipelineInvariant, PTL DEF PipelineSpec

\* A group waits at most for the outside calls of the groups before it in its
\* own request, whatever other requests do (_process_ip_group's timeouts).
THEOREM TasksStartOnTime == PipelineSpec => []QueueingDelay
<1>1. PipelineInit => StartsOnTime
  BY PipelineInitEstablishes
<1>2. PipelineFacts /\ (PipelineFacts)' /\ StartsOnTime /\ [PipelineNext]_pipelineVars
          => StartsOnTime'
  <2> SUFFICES ASSUME PipelineFacts, (PipelineFacts)', StartsOnTime,
                      [PipelineNext]_pipelineVars
               PROVE  StartsOnTime'
    OBVIOUS
  <2>1. TypeOK /\ Bookkeeping /\ PipelineShape /\ (PipelineShape)' /\ Timely
    BY DEF PipelineFacts
  <2> QED  BY <2>1, StartsOnTimeStep
<1>3. PipelineFacts /\ StartsOnTime => QueueingDelay
  BY DelayForms DEF PipelineFacts
<1> QED  BY <1>1, <1>2, <1>3, PipelineInvariant, PTL DEF PipelineSpec

\* An alert skipped as a duplicate is one of an IP whose task this process
\* admitted within the window and has not forgotten (_process_ip_group).
THEOREM DuplicatesAreJustified == PipelineSpec => []DuplicateHasOriginal
<1>1. PipelineInit => DuplicatesHaveOriginals
  BY PipelineInitEstablishes
<1>2. PipelineFacts /\ (PipelineFacts)' /\ DuplicatesHaveOriginals /\ [PipelineNext]_pipelineVars
          => DuplicatesHaveOriginals'
  <2> SUFFICES ASSUME PipelineFacts, (PipelineFacts)', DuplicatesHaveOriginals,
                      [PipelineNext]_pipelineVars
               PROVE  DuplicatesHaveOriginals'
    OBVIOUS
  <2>1. /\ TypeOK /\ Bookkeeping /\ PipelineShape /\ (PipelineShape)'
        /\ TasksInOrder /\ RecordHasTasks
    BY DEF PipelineFacts, Timely, TasksInOrder
  <2> QED  BY <2>1, DuplicatesStep
<1>3. PipelineFacts /\ DuplicatesHaveOriginals => DuplicateHasOriginal
  BY DuplicateForms DEF PipelineFacts
<1> QED  BY <1>1, <1>2, <1>3, PipelineInvariant, PTL DEF PipelineSpec


-----------------------------------------------------------------------------
(* What EveryGroupSettles rests on, besides fairness: a request has only so *)
(* many steps before it, and only the running process holds open ones.      *)

\* Every group that has not begun takes four steps at most.
StepsLeft(q) ==
    CASE q.stage = "done"    -> 0
      [] q.stage = "discord" -> 4 * (Len(q.groups) - q.at) + 1
      [] q.stage = "llm"     -> 4 * (Len(q.groups) - q.at) + 2
      [] q.stage = "loki"    -> 4 * (Len(q.groups) - q.at) + 3
      [] q.stage = "ready"   -> 4 * (Len(q.groups) - q.at) + 4

\* A request that is not done is one the running process serves, and what it has
\* before it is bounded by its groups.
OpenIsLive ==
    \A r \in 1..Len(requests) : requests[r].stage # "done" => requests[r].life = life

RequestsAreBounded ==
    /\ OpenIsLive
    /\ \A r \in 1..Len(requests) :
          /\ StepsLeft(requests[r]) \in 0..4 * Len(requests[r].groups)
          /\ requests[r].stage = "done" <=> StepsLeft(requests[r]) = 0

\* A step of a request's tasks leaves it less to do; any other step leaves it
\* alone or ends it.
RequestsRunDown ==
    \A r \in 1..Len(requests) :
        IF Serve(r) THEN StepsLeft(requests'[r]) < StepsLeft(requests[r])
        ELSE requests'[r] = requests[r] \/ requests'[r].stage = "done"

\* The steps before a request, by its stage.
LEMMA StepsByStage ==
    ASSUME NEW q, InStep(q)
    PROVE  /\ StepsLeft(q) \in 0..4 * Len(q.groups)
           /\ q.stage = "done" <=> StepsLeft(q) = 0
           /\ q.stage # "done" => Len(q.groups) - q.at \in Nat
<1>1. q \in Request /\ q.at \in Nat /\ q.at >= 1 /\ Len(q.groups) \in Nat
  <2>1. q \in Request  BY DEF InStep
  <2> QED  BY <2>1, LenProperties DEF InStep, Request
<1>2. q.stage \in {"done", "discord", "llm", "loki", "ready"}
  BY <1>1 DEF Request, Stages, Waiting
<1>3. q.stage # "done" => Len(q.groups) - q.at \in Nat
  BY <1>1 DEF InStep
<1>4. CASE q.stage = "done"
  <2>1. StepsLeft(q) = 0 /\ 4 * Len(q.groups) \in Nat
    BY <1>1, <1>4 DEF StepsLeft
  <2> QED  BY <1>4, <2>1
<1>5. CASE q.stage # "done"
  <2>1. PICK k \in 1..4 : StepsLeft(q) = 4 * (Len(q.groups) - q.at) + k
    BY <1>2, <1>5 DEF StepsLeft
  <2>2. Len(q.groups) - q.at \in Nat /\ Len(q.groups) - q.at <= Len(q.groups) - 1
    BY <1>1, <1>3, <1>5
  <2>3. 4 * (Len(q.groups) - q.at) + k \in 1..4 * Len(q.groups)
    BY <1>1, <2>2
  <2> QED  BY <1>5, <2>1, <2>2, <2>3
<1> QED  BY <1>4, <1>5

\* A served request has less before it.
LEMMA ServedRunsDown ==
    ASSUME TypeOK, Bookkeeping, PipelineShape, Timely,
           NEW r \in 1..Len(requests), Serve(r)
    PROVE  /\ Touched(r) /\ Live(r) /\ life' = life
           /\ StepsLeft(requests'[r]) < StepsLeft(requests[r])
<1> DEFINE q == requests[r]
           p == requests'[r]
           d == Len(q.groups) - q.at
<1>1. InStep(q) /\ q.at \in Nat /\ Len(q.groups) \in Nat
  <2>1. q \in Request /\ InStep(q)  BY DEF PipelineShape, InStep
  <2> QED  BY <2>1, LenProperties DEF InStep, Request
<1>2. life' = life
  BY DEF Serve, BeginGroup, BeginGroupRaises, LokiAnswered, LlmAnswered, PostDiscord
<1>3. /\ Live(r) /\ Touched(r)
      /\ \/ q.stage = "ready" /\ StaysAt(r, "loki")
         \/ q.stage = "loki" /\ StaysAt(r, "llm")
         \/ q.stage = "llm" /\ StaysAt(r, "discord")
         \/ q.stage \in {"ready", "discord"} /\ MovesOn(r)
         \/ q.stage = "ready" /\ p.stage = "done"
  <2>1. CASE BeginGroup(r)  BY <2>1, BeginEffect
  <2>5. CASE BeginGroupRaises(r)  BY <2>5, RaiseEffect
  <2>2. CASE LokiAnswered(r)
    <3>1. "llm" \in Stages  BY DEF Stages, Waiting
    <3> QED  BY <2>2, <3>1, StageEffect DEF LokiAnswered
  <2>3. CASE LlmAnswered(r)
    <3>1. "discord" \in Stages /\ \A shape : Renderable(shape) \in BOOLEAN
      BY DEF Stages, Waiting, Renderable
    <3> QED  BY <2>3, <3>1, StageEffect DEF LlmAnswered
  <2>4. CASE PostDiscord(r)  BY <2>4, PostEffect
  <2> QED  BY <2>1, <2>2, <2>3, <2>4, <2>5 DEF Serve
<1>4. d \in Nat /\ p.groups = q.groups /\ InStep(p)
  BY <1>1, <1>3, StepsByStage DEF Touched, Live
<1>5. CASE MovesOn(r)
  <2>1. StepsLeft(q) \in {4 * d + 4, 4 * d + 1}
    BY <1>3, <1>5 DEF MovesOn, StaysAt, StepsLeft
  <2>2. CASE d = 0
    <3>1. q.at = Len(q.groups)  BY <1>1, <2>2
    <3>2. p.stage = "done"  BY <1>5, <3>1 DEF MovesOn
    <3>3. StepsLeft(p) = 0  BY <3>2 DEF StepsLeft
    <3> QED  BY <1>2, <1>3, <1>4, <2>1, <3>3
  <2>3. CASE d # 0
    <3>1. q.at # Len(q.groups) /\ Len(q.groups) - (q.at + 1) = d - 1
      BY <1>1, <2>3
    <3>2. p.stage = "ready" /\ p.at = q.at + 1  BY <1>5, <3>1 DEF MovesOn
    <3>3. StepsLeft(p) = 4 * (d - 1) + 4
      BY <1>4, <3>1, <3>2 DEF StepsLeft
    <3>4. 4 * (d - 1) + 4 < 4 * d + 1
      BY <1>4
    <3>5. 4 * d + 1 < 4 * d + 4 /\ 4 * (d - 1) + 4 < 4 * d + 4
      BY <1>4
    <3> QED  BY <1>2, <1>3, <2>1, <3>3, <3>4, <3>5
  <2> QED  BY <2>2, <2>3
<1>6. ASSUME NEW stage, StaysAt(r, stage),
             \/ q.stage = "ready" /\ stage = "loki"
             \/ q.stage = "loki" /\ stage = "llm"
             \/ q.stage = "llm" /\ stage = "discord"
      PROVE  StepsLeft(p) < StepsLeft(q)
  <2>1. PICK k \in 2..4 : StepsLeft(q) = 4 * d + k /\ StepsLeft(p) = 4 * d + (k - 1)
    <3>1. p.stage = stage /\ Len(p.groups) - p.at = d
      BY <1>4, <1>6 DEF StaysAt
    <3>2. CASE q.stage = "ready" /\ stage = "loki"
      <4>1. StepsLeft(q) = 4 * d + 4 /\ StepsLeft(p) = 4 * d + 3
        BY <3>1, <3>2 DEF StepsLeft
      <4> QED  BY <4>1
    <3>3. CASE q.stage = "loki" /\ stage = "llm"
      <4>1. StepsLeft(q) = 4 * d + 3 /\ StepsLeft(p) = 4 * d + 2
        BY <3>1, <3>3 DEF StepsLeft
      <4> QED  BY <4>1
    <3>4. CASE q.stage = "llm" /\ stage = "discord"
      <4>1. StepsLeft(q) = 4 * d + 2 /\ StepsLeft(p) = 4 * d + 1
        BY <3>1, <3>4 DEF StepsLeft
      <4> QED  BY <4>1
    <3> QED  BY <1>6, <3>2, <3>3, <3>4
  <2> QED  BY <1>4, <2>1
<1>7. CASE q.stage = "ready" /\ p.stage = "done"
  <2>1. StepsLeft(q) = 4 * d + 4 /\ StepsLeft(p) = 0
    BY <1>7 DEF StepsLeft
  <2>2. 0 < 4 * d + 4
    BY <1>4
  <2> HIDE DEF d
  <2> QED  BY <1>2, <1>3, <2>1, <2>2
<1> QED  BY <1>2, <1>3, <1>5, <1>6, <1>7

\* A crash ends the open requests and touches no other.
LEMMA CrashEnds ==
    ASSUME PipelineShape, Crash, NEW r \in 1..Len(requests)
    PROVE  IF Live(r) THEN requests'[r].stage = "done" ELSE requests'[r] = requests[r]
<1>1. requests[r] \in Request /\ DOMAIN requests = 1..Len(requests)
  BY LenProperties DEF PipelineShape, InStep
<1>2. CASE Live(r)
  <2>1. requests'[r].stage = "done"
    BY <1>1, <1>2 DEF Crash, Request
  <2> QED  BY <1>2, <2>1
<1>3. CASE ~Live(r)
  BY <1>1, <1>3 DEF Crash
<1> QED  BY <1>2, <1>3

\* Each step, for one request.
LEMMA RunningDown ==
    ASSUME TypeOK, Bookkeeping, PipelineShape, Timely,
           [PipelineNext]_pipelineVars
    PROVE  RequestsRunDown /\ (OpenIsLive => OpenIsLive')
<1>1. /\ requests \in Seq(Request) /\ Len(requests) \in Nat
      /\ DOMAIN requests = 1..Len(requests)
  BY LenProperties DEF PipelineShape
<1>2. ASSUME NEW r \in 1..Len(requests), Serve(r)
      PROVE  StepsLeft(requests'[r]) < StepsLeft(requests[r])
  BY <1>2, ServedRunsDown
<1> DEFINE Left(s) == requests'[s] = requests[s] \/ requests'[s].stage = "done"
           Good == /\ \A s \in 1..Len(requests) : Serve(s) \/ Left(s)
                   /\ OpenIsLive => OpenIsLive'
<1>3. ASSUME UNCHANGED <<requests, life>> PROVE Good
  BY <1>3 DEF OpenIsLive
<1>4. ASSUME NEW r \in 1..Len(requests), Serve(r) PROVE Good
  <2>1. Touched(r) /\ Live(r) /\ life' = life
    BY <1>4, ServedRunsDown
  <2>2. ASSUME NEW s \in 1..Len(requests), s # r
        PROVE  requests'[s] = requests[s]
    BY <2>1, <2>2 DEF Touched
  <2>3. OpenIsLive => OpenIsLive'
    BY <2>1, <2>2 DEF OpenIsLive, Touched, Live
  <2> QED  BY <1>4, <2>2, <2>3
<1>5. ASSUME NEW b \in Batches, AlertHandler(b) PROVE Good
  <2>1. life' = life
    BY <1>5, AlertEffect
  <2>2. CASE requests' = requests
    BY <1>3, <2>1, <2>2
  <2>3. ASSUME NEW q \in Request, requests' = Append(requests, q), q.life = life
        PROVE  Good
    <3>1. /\ Len(requests') = Len(requests) + 1
          /\ \A s \in 1..Len(requests) : requests'[s] = requests[s]
          /\ requests'[Len(requests) + 1] = q
      BY <1>1, <2>3, AppendProperties
    <3>2. \A s \in 1..Len(requests') : s \in 1..Len(requests) \/ s = Len(requests) + 1
      BY <1>1, <3>1
    <3>3. OpenIsLive => OpenIsLive'
      BY <2>1, <2>3, <3>1, <3>2 DEF OpenIsLive
    <3> QED  BY <3>1, <3>3
  <2> QED  BY <1>5, <2>2, <2>3, AlertEffect
<1>6. ASSUME Crash PROVE Good
  <2>1. \A s \in 1..Len(requests) :
            IF Live(s) THEN requests'[s].stage = "done" ELSE requests'[s] = requests[s]
    BY <1>6, CrashEnds
  <2>2. Len(requests') = Len(requests)
    BY <1>6, CrashEffect
  <2>3. OpenIsLive => OpenIsLive'
    BY <2>1, <2>2 DEF OpenIsLive, Live
  <2> QED  BY <2>1, <2>3
<1>7. \/ UNCHANGED <<requests, life>>
      \/ \E b \in Batches : AlertHandler(b)
      \/ \E r \in 1..Len(requests) : Serve(r)
      \/ Crash
  BY <1>1
  DEF PipelineNext, Unreachable, PipelineTick, Quiescent, pipelineVars
<1>8. Good
  <2> HIDE DEF Good
  <2> QED  BY <1>3, <1>4, <1>5, <1>6, <1>7
<1>9. RequestsRunDown
  <2>1. ASSUME NEW r \in 1..Len(requests)
        PROVE  IF Serve(r) THEN StepsLeft(requests'[r]) < StepsLeft(requests[r])
               ELSE Left(r)
    BY <1>2, <1>8
  <2> QED  BY <2>1 DEF RequestsRunDown
<1> QED  BY <1>8, <1>9

\* No request is left open by a process that died, and none is served for ever:
\* it takes four steps per group at most, and each step of its tasks leaves fewer,
\* whatever other requests, the notifier and crashes do (alert_handler,
\* _process_ip_group).  With the fairness of PipelineSpec this is why every group
\* reaches an end.
THEOREM RequestsRunToTheirEnd ==
    PipelineSpec => []RequestsAreBounded /\ [][RequestsRunDown]_pipelineVars
<1> DEFINE Inv == PipelineFacts /\ OpenIsLive
<1>1. PipelineInit => Inv
  <2>1. PipelineInit => OpenIsLive
    BY DEF PipelineInit, OpenIsLive
  <2> QED  BY <2>1, PipelineInitEstablishes
<1>2. Inv /\ [PipelineNext]_pipelineVars => Inv' /\ RequestsRunDown
  BY PipelineFactsStep, RunningDown DEF PipelineFacts
<1>3. Inv => RequestsAreBounded
  <2> SUFFICES ASSUME PipelineShape, NEW r \in 1..Len(requests)
               PROVE  /\ StepsLeft(requests[r]) \in 0..4 * Len(requests[r].groups)
                      /\ requests[r].stage = "done" <=> StepsLeft(requests[r]) = 0
    BY DEF PipelineFacts, RequestsAreBounded
  <2>1. InStep(requests[r])
    BY DEF PipelineShape
  <2> QED  BY <2>1, StepsByStage
<1>4. Inv /\ [PipelineNext]_pipelineVars => [RequestsRunDown]_pipelineVars
  BY <1>2
<1> HIDE DEF Inv
<1> QED  BY <1>1, <1>2, <1>3, <1>4, PTL DEF PipelineSpec
=============================================================================
