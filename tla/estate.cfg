\* A zone over its child, one address and one vantage, two acts of the operator
\* and one lost fold or dead letter; a batch of two names over two authorities.
SPECIFICATION GroundSpec
CONSTANTS
    apex = apex
    sub = sub
    parent = parent
    child = child
    range = range
    Name = {apex, sub}
    Address = {a1}
    Vantage = {v1}
    Domain = {parent, child}
    Block = {range}
    Apex <- MCApex
    NamesIn <- MCNamesIn
    AddrsIn <- MCAddrsIn
    Excludable = {range}
    Outcome = {"NameError", "Gap"}
    MaxActs = 2
    MaxFaults = 1
    Straddle = FALSE
    WalkNames <- MCNames
    Qtypes <- MCQtypes
    Servers = {"s1", "s2"}
    Private = {"s2"}
    UDPAttempts = 2
    TCPAttempts = 1
    Labels = {1, 2}
    Kinds = {"resolution-walk", "wildcard-discrimination"}
INVARIANTS  OutageIffDown 
PROPERTIES GapsHoldCitations PreviewIsTheAct
CHECK_DEADLOCK FALSE
