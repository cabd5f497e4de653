CONSTANTS
    Base = 4
    ShortBytes = 1
    IdBytes = 1
    ErrorBytes = 2
    DataBytes = 1
    Unencodable = Unencodable
    Frames <- MCFrames
    Answers <- MCAnswers
    MaxSent = 3

SPECIFICATION Spec

INVARIANTS
    FramesInStep
    AnswersInStep
    IntsRoundTrip

CHECK_DEADLOCK FALSE
