\* One client, two jobs; the policy 180 -> 270 -> 360 in units of 30 seconds.
SPECIFICATION FairSpec
CONSTANTS
    c1 = c1
    c2 = c2
    p1 = p1
    p2 = p2
    Client = {c1}
    Payload = {p1, p2}
    Answers <- RouteAnswers
    MaxRetries = 2
    BackoffSeconds = 1
    RequestTimeout = 6
    TimeoutMax = 12
    ScaleNum = 3
    ScaleDen = 2
    AllowPartial = TRUE
    MaxTime = 1
    MaxJobs = 2
INVARIANTS
    SuccessIsReal
    ScheduleKept
    ResentOnlyUnanswered
PROPERTIES
    JobsEnd
CHECK_DEADLOCK FALSE
