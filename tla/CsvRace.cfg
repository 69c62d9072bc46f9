CONSTANTS
    r1 = r1
    r2 = r2
    r3 = r3
    r4 = r4
    Absent = Absent
    Requests = {r1, r2, r3, r4}
    Invalid = {r4}
    RowLength <- MCRowLength
    HeaderLength = 2
    FormRequests = {}
    OneFirst = FALSE
    MaxHandlers = 2
    MaxCrashes = 0
SPECIFICATION FormSpec
INVARIANT AnswerIsTrue
