---------------------------- MODULE MCBotHistory ----------------------------
EXTENDS BotHistory
UpTo(n) == UNION {[1..k -> Character] : k \in 1..n}
Long(n) == [i \in 1..n |-> "x"]
SomeReplies == {<<"x">>, <<"n", "x", "x", "x">>, Long(7), Long(10)}
AllTexts == UpTo(8) \cup SomeReplies
=============================================================================
