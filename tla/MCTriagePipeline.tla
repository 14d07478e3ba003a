-------------------------- MODULE MCTriagePipeline --------------------------
EXTENDS TriagePipeline, TLC

CONSTANTS ipA, ipB, batch

\* One attack with two alerts on ipA next to an alert on ipB; the notifier may
\* carry a token that does not match.
MCPayloads ==
    batch :> { [token |-> token, json |-> TRUE,
                alerts |-> <<ipA, ipB, ipA>>] : token \in BOOLEAN }
=============================================================================
