SPECIFICATION FairSpec
CONSTANTS
    None = None
    Items = 2
    MaxPolls = 3
    MaxWait = 2
    JobTimeout = 5
    MaxAttempts = 2
INVARIANTS
    TypeOK
    TweetComplete
PROPERTIES
    AttemptEnds
