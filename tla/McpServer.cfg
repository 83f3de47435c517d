SPECIFICATION LiveSpec
CONSTANTS
    Frames <- SomeFrames
    MaxFrames = 3
    MaxFaults = 1
INVARIANTS
    AnswersMirrorRequests
    WritesAreApproved
    NoneUnanswered

    
