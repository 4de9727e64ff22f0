SPECIFICATION CalmSpec
CONSTANTS
    t1 = t1
    t2 = t2
    alice = alice
    budget = budget
    launch = launch
    knows = knows
    Transcripts = {t1}
    People = {alice}
    Topics = {}
    Titles = {}
    NoDate = NoDate
    LastDay = 0
    Requests = {}
    NoRequest = NoRequest
    MaxRetries = 1
    Workers = {w1}
    Relations = {}
    Extractions <- OnePerson
    Unusable = {}
    MaxCrashes = 0
    NoMessage = NoMessage
    NoKey = NoKey
CHECK_DEADLOCK FALSE
INVARIANTS
    PendingHasJob
