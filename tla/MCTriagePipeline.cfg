CONSTANTS
    ipA = ipA
    ipB = ipB
    batch = batch
    Keys = {ipA, ipB}
    HOUR = 4
    MAX_PER_HOUR = 2
    DEDUPE_WINDOW = 2
    Epoch = 3
    Horizon = 7
    Batches = {batch}
    Payloads <- MCPayloads
    MaxRetry = 1
    MaxRequests = 2
    StageTime = 1
    MaxCrashes = 1
SPECIFICATION PipelineSpec
INVARIANTS PipelineTypeOK NoDoubleEmbed EmbedBudget QueueingDelay DuplicateHasOriginal
PROPERTIES UsesTracker EveryGroupSettles
