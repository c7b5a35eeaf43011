\* A search with the arguments where the manifest has them.
CONSTANTS
    MaxLength = 2
    Texts <- AllTexts
    Queries <- SomeQueries
    Asked <- Nested
    CharCode <- Codes
    UpperCase <- Uppers
    None = None
SPECIFICATION Spec
INVARIANT SchemaArgsReachTask
CHECK_DEADLOCK FALSE
