CONSTANTS
    q1 = q1  q2 = q2
    Requests <- TwoRequests
    Batches <- PlainOnly
    Countries <- SomeCountries
    Amounts <- SomeAmounts
    Descriptions <- SomeDescriptions
    Mentions <- SomeMentions
    ModelScores <- LowestScore
    HasRedis = TRUE
    HasOpenAi = TRUE
    AuditOn = FALSE
SPECIFICATION Spec
INVARIANT EveryAnswerIsScored
CHECK_DEADLOCK FALSE
