SPECIFICATION Spec
CONSTANTS
    w1 = w1  w2 = w2  p1 = p1  p2 = p2  p3 = p3  p4 = p4  p5 = p5
    Writers = {w1, w2}
    Payloads = {p1, p2, p3, p4, p5}
    Size <- MCSize
    MaxBytes = 2
    Rejected = {}
    NoPayload = NoPayload
    Torn = Torn
    MaxFaults = 2
    MaxCrashes = 1
    MaxPowerLosses = 0
SYMMETRY SizeSymmetry
INVARIANTS TypeOK AcceptedDurable RefusedNotHeld Accounting DiskBounded FifoByAcceptance
PROPERTIES NoOverwrite RefinesOutbox
