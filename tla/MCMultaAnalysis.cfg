CONSTANTS
    q1 = q1  q2 = q2
    Requests <- TwoRequests
    Batches <- AlikeOrThree
    Countries <- SomeCountries
    Amounts <- SomeAmounts
    Descriptions <- SomeDescriptions
    Mentions <- SomeMentions
    ModelScores <- LowestScore
    HasRedis = TRUE
    HasOpenAi = TRUE
    AuditOn = TRUE
SPECIFICATION FairSpec
INVARIANTS TypeOK VerdictIsOfThisFine TraceExplainsScore EvidenceNeverLowers VerdictIsCoherent
PROPERTY EveryRequestIsAnswered
CHECK_DEADLOCK FALSE
