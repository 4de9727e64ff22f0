SPECIFICATION WholeSpec
CONSTANTS
    t1 = t1
    t2 = t2
    alice = alice
    budget = budget
    people = people
    topics = topics
    profile = profile
    overview = overview
    Transcripts = {t1, t2}
    People = {alice}
    Topics = {budget}
    Titles = {}
    NoDate = NoDate
    LastDay = 0
    Requests = {}
    NoRequest = NoRequest
    MaxRetries = 0
    Workers = {w1}
    Relations = {}
    Extractions <- SharedPerson
    Unusable = {}
    MaxCrashes = 0
    NoMessage = NoMessage
    NoKey = NoKey
    Names = {people, topics, alice, budget, profile, overview}
    Clients = {c1}
    PathOf <- Layout
    Rank <- Alphabetical
    Asked <- SomePaths
CHECK_DEADLOCK FALSE
INVARIANTS
    WholeTypeOK
    CompletedIsFound
PROPERTIES
    ReadersSeeTree
