CONSTANTS
    r1 = r1
    r2 = r2
    r3 = r3
    r4 = r4
    Absent = Absent
    Requests = {r1, r2, r3, r4}
    Invalid = {r4}
    RowLength <- MCRowLength
    HeaderLength = 2
    FormRequests = {r1, r2}
    OneFirst = TRUE
    MaxHandlers = 3
    MaxCrashes = 1
SPECIFICATION FairFormSpec
INVARIANTS TypeOK AnswerIsTrue OneAtATime FeedbackIsTrue
PROPERTIES OnlyGrows Answered ButtonEnabledAgain
