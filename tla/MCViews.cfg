SPECIFICATION ViewsSpec
CHECK_DEADLOCK FALSE
CONSTANTS
    Volumes <- MCVolumes
    MaxDepth = 3
    MaxRefused = 1
    MaxTicks = 2
INVARIANT ViewsAgree
INVARIANT StaleOnlyByRecovery
INVARIANT TickCoversBelow
INVARIANT RecoveredIsTheFolder
