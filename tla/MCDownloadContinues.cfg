SPECIFICATION FairSpec
CONSTANTS
    Node = {"ahead", "behind"}
    MaxHeight = 6
    MaxAhead = 1
    nLimit = 1
    nWorkHeight = 3
    StartHeight <- MCTwoStart
    Dials <- MCOneDial
PROPERTY DownloadContinues
