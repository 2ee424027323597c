\* Request and answer for ever, three of them lost or late; ids and ticks come round.
SPECIFICATION CoapSpec
CONSTANTS
    NoAnswer = NoAnswer
    Ids = 8
    Ticks = 6
    Faults = {"loss", "late"}
    MaxFaults = 3
INVARIANTS
    CoapTypeOK
    AnswerAge
    ReadingAge
    AnsweredIsInForce
PROPERTIES
    KeepsSwitching
