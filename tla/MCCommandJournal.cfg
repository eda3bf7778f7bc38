SPECIFICATION Spec
CONSTANTS
    once = once
    twice = twice
    x = x
    y = y
    k1 = k1
    k2 = k2
    None = None
    Commands <- MCCommands
    Idempotent <- MCIdempotent
    Retries <- MCRetries
    Bodies <- MCBodies
    Calls <- MCCalls
    Responses <- MCResponses
    Durable = TRUE
    MaxRequests = 2
    MaxCrashes = 1
INVARIANT OneExecution
INVARIANT TypeOK
INVARIANT SendBudget
INVARIANT NoFalseVerdict
INVARIANT AnswersFromJournal
PROPERTY SettledIsFinal
PROPERTY AcceptedIsAnswered
CHECK_DEADLOCK FALSE
