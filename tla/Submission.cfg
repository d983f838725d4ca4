SPECIFICATION Spec
CONSTANTS
    x = x
    y = y
    None = None
    Torn = Torn
    Candidates = {x, y}
    PortOf <- SomePorts
    NoPort = 0
    MaxPort = 8
    BepRecords <- SomeRecords
    Intervals = {0, 1, 2, 4}
    MinInterval = 2
    MaxInterval = 3
    HistoryMax = 3
INVARIANTS TypeOK AttemptsAsAdvertised RefusedIntervalsShown InsertionsShown TriesShown
CHECK_DEADLOCK FALSE
