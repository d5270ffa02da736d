SPECIFICATION FairSpec
CONSTANTS
    http = http  grpc = grpc  w1 = w1  w2 = w2  w3 = w3
    p1 = p1  p2 = p2  p3 = p3  p4 = p4
    Transports = {http}
    Payloads = {p1, p2, p3}
    Via <- MCViaHttp
    Workers = {w1}
    Pool <- MCPoolHttp
    channel_capacity = 1
    Unreadable = {}
    Malformed = {p3}
    NoPayload = NoPayload
    MaxStops = 1
    MaxPanics = 0
CHECK_DEADLOCK FALSE
PROPERTIES RequestsEnd ShutdownCompletes
