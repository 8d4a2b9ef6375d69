SPECIFICATION FairSpec
CONSTANTS
    Handlers = {h1}
    Service <- BothServices
    MaxSize = 1
    MaxNotes = 1
PROPERTY ShutdownEnds
CHECK_DEADLOCK FALSE
