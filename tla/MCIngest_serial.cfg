\* One server process, a statement failure anywhere.
SPECIFICATION FairSpec
CONSTANTS
    s1 = s1
    s2 = s2
    k1 = k1
    k2 = k2
    k3 = k3
    k4 = k4
    p1 = p1
    p2 = p2
    m1 = m1
    g1 = g1
    u1 = u1
    c1 = c1
    Key = {k1, k2, k3, k4}
    Poll = {p1, p2}
    Matchup = {m1}
    Region = {g1}
    Article = {u1}
    Candidate = {c1}
    Office = {"metro", "local"}
    Name = {"kim", "lee"}
    Proc = {s1}
    Payloads <- SerialPayloads
    Faulty <- Point
    MaxRuns = 3
    MaxFaults = 1
    MaxCrashes = 0
INVARIANTS
    RunAccountsForItsRecords
    RejectedRecordsAreReported
    FingerprintUnique
    SourceRolesRespected
    ExplicitScenariosSupersedeDefaults
PROPERTIES
    QualityNeverDrops
    StoredRecordsAddNoRow
    RequestsEnd
CHECK_DEADLOCK FALSE
