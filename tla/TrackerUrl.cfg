SPECIFICATION FairSpec
CONSTANTS
    None = None
    Deny = Deny
    Records <- SomeRecords
    Services <- SomeServices
    MaxPort = 8
    MaxCrashes = 1
INVARIANTS TypeOK UrlWarranted UpAtItsUrl NoNeedlessContact
PROPERTY RecordFollowed
