SPECIFICATION FairSpec
CONSTANTS
    Node = {"ahead", "other", "behind"}
    MaxHeight = 3
    MaxAhead = 1
    nLimit = 2
    nWorkHeight = 1
    StartHeight <- MCStart
    Dials <- MCDials
INVARIANT TypeOK
 
PROPERTY RequestsAnswered
