SPECIFICATION Spec
CONSTANTS
    http = http  grpc = grpc  w1 = w1  w2 = w2  w3 = w3
    p1 = p1  p2 = p2  p3 = p3  p4 = p4
    Transports = {http, grpc}
    Payloads = {p1, p2, p3, p4}
    Via <- MCVia
    Workers = {w1, w2, w3}
    Pool <- MCPool
    channel_capacity = 1
    Unreadable = {p4}
    Malformed = {p3}
    NoPayload = NoPayload
    MaxStops = 2
    MaxPanics = 2
CHECK_DEADLOCK FALSE
INVARIANTS TypeOK NoFalseAccept RefusedNotHeld OneOwner
SYMMETRY MCSymmetry
