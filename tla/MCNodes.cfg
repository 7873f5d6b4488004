SPECIFICATION FairSpec
CONSTANTS
    Node = {n1, n2}
    Addr = {a1}
    Opener = {open, added}
    NoNode = NoNode
    nMaxOutbound = 2
    nMaxInbound = 1
INVARIANT NoUseAfterDelete
INVARIANT OutboundBounded
 
