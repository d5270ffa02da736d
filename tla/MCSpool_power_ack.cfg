SPECIFICATION Spec
CONSTANTS
    w1 = w1  w2 = w2  p1 = p1  p2 = p2  p3 = p3  p4 = p4  p5 = p5
    Writers = {w1, w2}
    Payloads = {p1, p2}
    Size <- MCSize2
    MaxBytes = 3
    Rejected = {}
    NoPayload = NoPayload
    Torn = Torn
    MaxFaults = 0
    MaxCrashes = 0
    MaxPowerLosses = 1
SYMMETRY WriterSymmetry
INVARIANTS AcceptedDurable
