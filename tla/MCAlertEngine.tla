--------------------------- MODULE MCAlertEngine ---------------------------
EXTENDS AlertEngine, TLC

CONSTANTS memory_percent, ac_power_lost

\* One threshold metric and the power state of one machine, with the real
\* limits (12 passes and 60, 2 and 360) scaled down but kept different.
MCKeyOrder == <<memory_percent, ac_power_lost>>
MCSustained == memory_percent :> 2 @@ ac_power_lost :> 1
MCCooldown == memory_percent :> 1 @@ ac_power_lost :> 2
=============================================================================
