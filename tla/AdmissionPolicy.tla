-------------------------- MODULE AdmissionPolicy --------------------------
(***************************************************************************)
(* What services/log-triage/app.py promises about the alerts it summarises *)
(* ("Rate limiting" in the module's docstring), stated over the complete   *)
(* record of past admissions.  There is no purging, no pruning and no      *)
(* per-key table here: this is the meaning that the bookkeeping of         *)
(* TriageState has to reproduce.                                           *)
(***************************************************************************)
EXTENDS Integers, Sequences, FiniteSets

CONSTANTS Keys,           \* source IPs
          HOUR,           \* the length of the rate window (3600 s)
          MAX_PER_HOUR,   \* admissions allowed in one rate window
          DEDUPE_WINDOW,  \* a key is ignored for this long after an admission
          Epoch, Horizon  \* the clock runs from Epoch to Horizon

VARIABLES now,       \* time.time()
          admitted,  \* every admission so far, oldest first: [at, key]
          decision   \* the value returned by the last call

policyVars == <<now, admitted, decision>>

NoDecision == [key |-> "nobody", reason |-> "none"]
Reasons == {"ok", "rate_limited", "deduped"}

AdmittedSince(t) == {i \in 1..Len(admitted) : admitted[i].at >= t}

RateExhausted == Cardinality(AdmittedSince(now - HOUR)) >= MAX_PER_HOUR

RecentlyAdmitted(k) ==
    \E i \in 1..Len(admitted) :
        admitted[i].key = k /\ now - admitted[i].at < DEDUPE_WINDOW

Verdict(k) == IF RateExhausted THEN "rate_limited"
              ELSE IF RecentlyAdmitted(k) THEN "deduped"
              ELSE "ok"

PolicyInit == now = Epoch /\ admitted = <<>> /\ decision = NoDecision

Decide(k) ==
    /\ decision' = [key |-> k, reason |-> Verdict(k)]
    /\ admitted' = IF Verdict(k) = "ok"
                   THEN Append(admitted, [at |-> now, key |-> k])
                   ELSE admitted
    /\ UNCHANGED now

TimePasses == /\ now < Horizon
              /\ now' \in now + 1 .. Horizon
              /\ UNCHANGED <<admitted, decision>>

Forget == admitted' = <<>> /\ decision' = NoDecision /\ UNCHANGED now

PolicyNext == (\E k \in Keys : Decide(k)) \/ TimePasses \/ Forget

PolicySpec == PolicyInit /\ [][PolicyNext]_policyVars
=============================================================================
