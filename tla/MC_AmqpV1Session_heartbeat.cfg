\* A client that keeps its connection alive with empty frames and never
\* goes silent, so a read deadline never passes.
CONSTANTS
    Width = 16
    FrameMax = 512
    IdleTimeouts <- MCIdleTimeouts
    MaxQueue = 2
    MaxPerformatives = 2
    ClientMaySilence = FALSE
SPECIFICATION Spec
PROPERTY ReaderFailureEndsConnection
CHECK_DEADLOCK FALSE
