SPECIFICATION Spec
CONSTANTS
    None = None
    Deny = Deny
    Records <- SomeRecords
    Services <- SomeServices
    MaxPort = 8
    MaxCrashes = 1
PROPERTY RecordUsable
