\* Every prompt, and every text up to four characters.
CONSTANTS
    MaxLength = 4
    Texts <- AllTexts
    Queries <- SomeQueries
    Asked <- Flat
    CharCode <- Codes
    UpperCase <- Uppers
    None = None
SPECIFICATION Spec
INVARIANTS PlanIsServed ReplyTellsOutcome GrepFindsEveryLine
CHECK_DEADLOCK FALSE
