SPECIFICATION Spec
CONSTANTS
    t1 = t1
    t2 = t2
    alice = alice
    budget = budget
    launch = launch
    knows = knows
    Transcripts = {t1, t2}
    People = {alice}
    Topics = {budget}
    Titles = {launch}
    NoDate = NoDate
    LastDay = 1
    Requests = {}
    NoRequest = NoRequest
    MaxRetries = 1
    Workers = {w1}
    Relations = {knows}
    Extractions <- SharedPerson
    Unusable = {}
    MaxCrashes = 1
    NoMessage = NoMessage
    NoKey = NoKey
CHECK_DEADLOCK FALSE
INVARIANTS
    NoDanglingIndex
    CompletedIndexed
    CompletedFiled
    MergeSurvives
PROPERTIES
    AtomicTree
