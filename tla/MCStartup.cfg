SPECIFICATION Spec
CONSTANTS
    Files <- MCFiles
    Edits <- MCEdits
    NoFile = NoFile
    Keys <- MCKeys
    Namespaces <- MCNamespaces
    Severities = {8, 9}
    Sockets <- MCSockets
    Observed <- MCObserved
    MaxStarts = 2
CHECK_DEADLOCK FALSE
INVARIANTS TypeOK FailFast ErrorTruthful NestingLinted GovernsAsWritten VersionTracksPolicy
