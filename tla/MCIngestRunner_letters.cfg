\* Two clients, every request refused.
SPECIFICATION Spec
CONSTANTS
    c1 = c1
    c2 = c2
    p1 = p1
    p2 = p2
    Client = {c1, c2}
    Payload = {p1, p2}
    Answers <- RefusingAnswers
    MaxRetries = 0
    BackoffSeconds = 1
    RequestTimeout = 6
    TimeoutMax = 12
    ScaleNum = 3
    ScaleDen = 2
    AllowPartial = TRUE
    MaxTime = 1
    MaxJobs = 2
SYMMETRY Alike
INVARIANT FailureLeavesLetter
CHECK_DEADLOCK FALSE
