SPECIFICATION FairSpec
CONSTANTS
    t1 = t1
    t2 = t2
    alice = alice
    budget = budget
    launch = launch
    knows = knows
    Transcripts = {t1}
    People = {alice}
    Topics = {}
    Titles = {}
    NoDate = NoDate
    LastDay = 0
    Requests = {r1}
    NoRequest = NoRequest
    MaxRetries = 2
    Workers = {w1}
    Relations = {}
    Extractions <- OnePerson
    Unusable = {t1}
    MaxCrashes = 1
    NoMessage = NoMessage
    NoKey = NoKey
CHECK_DEADLOCK FALSE
INVARIANTS
    TypeOK
    NoSilentLoss
    FailedHasError
    LocksAreHeld
    RewritesOnlyRepeats
PROPERTIES
    JobsEnd
    Settles
