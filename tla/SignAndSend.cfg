\* Three calls of one account: two bids on different chains and a retraction.
SPECIFICATION Spec
CONSTANTS
    Calls = {bidA, bidB, retraction}
    MaxRetries = 3
INVARIANTS TypeOK NothingPooledAfterSuccess
PROPERTIES KeepsPromise AnswersUnlessOvertaken
CHECK_DEADLOCK FALSE
