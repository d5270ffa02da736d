SPECIFICATION FairSpec
CONSTANTS
    w1 = w1  w2 = w2  p1 = p1  p2 = p2  p3 = p3  p4 = p4  p5 = p5
    Writers = {w1, w2}
    Payloads = {p1, p2}
    Size <- MCSize2
    MaxBytes = 3
    Rejected = {p2}
    NoPayload = NoPayload
    Torn = Torn
    MaxFaults = 1
    MaxCrashes = 2
    MaxPowerLosses = 1
INVARIANTS PublishedComplete
PROPERTIES AckedDelivered
