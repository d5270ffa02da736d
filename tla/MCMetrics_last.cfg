SPECIFICATION Spec
CONSTANTS
    s1 = s1  s2 = s2  s3 = s3
    Samples = {s1, s2, s3}
    Fields <- MCFields
    MaxFlushes = 2
SYMMETRY SampleSymmetry
CHECK_DEADLOCK FALSE
INVARIANTS LastWindowReported
