SPECIFICATION Spec
CONSTANTS
    c1 = c1  c2 = c2  c3 = c3
    Callers = {c1, c2, c3}
    Threshold = 2
    Window = 1
    Cooldown = 2
    MaxTime = 4
    MaxFaults = 5
SYMMETRY CallerSymmetry
INVARIANTS TypeOK TripEarned WarnedOnce OutageBounded TumblingWindow
