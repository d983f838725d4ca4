SPECIFICATION Spec
CONSTANTS
    ip1 = ip1
    ip2 = ip2
    None = None
    V4 = {ip1}
    StableMinAge = 3
    NoArgument = None
    IPs = {ip1}
    Private = {}
    Answers = {{ip1}}
    Asked = {1, 4}
    MinInterval = 1
    MaxInterval = 2
    DefaultInterval = 2
    Window = 3
    MaxDowntime = 5
    HistMax = 2
    MaxTime = 9
INVARIANT IntervalRespected
