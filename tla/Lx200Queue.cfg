\* The times have the order of the code's (3, 5, 10 and half a second), and
\* the telescope is as slow as PromptAssumption allows, or too slow.
SPECIFICATION Spec
CONSTANTS
    SlewTimeout = 2
    ReadTimeout = 3
    QuietTime = 4
    PollPause = 1
    Gap = 1
    PromptSlew = 1
    Prompt = 5
    MaxAge = 8
    MaxDue = 2
    MaxArrived = 2
INVARIANTS
    QueueInv
    AnswersAreOwn
PROPERTIES
    FormatStaysLong
    PollsAgain
