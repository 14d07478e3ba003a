SPECIFICATION Spec
CONSTANTS
    Messages = {m}
    Asks = {a}
    Pdfs = {p}
    Fetches = {f}
    MaxHistory = 3
    MaxLen = 3
    FenceLen = 1
    FenceBelow = 2
    Texts <- AllTexts
    Replies <- SomeReplies
INVARIANTS TypeOK HistoryExplained SplitIsFaithful
CHECK_DEADLOCK FALSE
