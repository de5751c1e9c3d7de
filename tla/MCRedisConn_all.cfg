SPECIFICATION FairSpec
CONSTANTS
    c1 = c1
    c2 = c2
    Null = Null
    Conn = {c1, c2}
    Handlers <- AllHandlers
    Answers <- MCAnswers
    Password = FALSE
INVARIANTS
    CleanBetween
    AnswerIsServed
    ErrorOnlyKept
PROPERTIES
    PoolHeals
    CallsReturn
    CallSpec
