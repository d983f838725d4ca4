SPECIFICATION Spec
CONSTANTS
    ip1 = ip1
    ip2 = ip2
    None = None
    V4 = {ip1}
    StableMinAge = 3
    NoArgument = None
    IPs = {ip1, ip2}
    Private = {}
    Answers <- SomeAnswers
    Asked = {1, 4}
    MinInterval = 1
    MaxInterval = 2
    DefaultInterval = 2
    Window = 3
    MaxDowntime = 5
    HistMax = 2
    MaxTime = 7
INVARIANTS TypeOK RowTellsLastAttempts RecentIpsTellLookups NeverTooEager ApiTellsPast
