SPECIFICATION FairSpec
CONSTANTS
    Handlers = {h1, h2}
    Service <- BothServices
    MaxSize = 2
    MaxNotes = 3
INVARIANT SentInOrder
 
PROPERTY NoForgottenNote
CHECK_DEADLOCK FALSE
