SPECIFICATION Spec
CONSTANTS
    Messages <- Kinds
    MaxLines = 2
    MaxCrashes = 1
INVARIANTS
    OneReply
    ReplyIsTruthful
PROPERTY EveryLineHandled
CHECK_DEADLOCK FALSE
