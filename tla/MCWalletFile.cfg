SPECIFICATION FairSpec
CONSTANTS
    MaxKeys = 2
    MaxMasters = 2
    Jobs <- MCJobs
INVARIANTS
    NoCloseInUse
    KeysSurvive
    BackupLoads
    FormsAgree
PROPERTIES
    EncryptReturns
    UpdatesReachFile
CHECK_DEADLOCK TRUE
