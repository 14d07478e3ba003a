CONSTANTS
    memory_percent = memory_percent
    ac_power_lost = ac_power_lost
    KeyOrder <- MCKeyOrder
    Sustained <- MCSustained
    Cooldown <- MCCooldown
    MaxHistory = 3
SPECIFICATION Spec
INVARIANTS TypeOK ActiveIsSustained NeverSilent HistoryOnDisk SaidAgrees OneResolutionPerEpisode
PROPERTIES PersistentBreachRepeats
