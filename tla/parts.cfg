SPECIFICATION MCSpec
CONSTANTS
    t1 = t1
    t2 = t2
    alice = alice
    budget = budget
    launch = launch
    people = people
    topics = topics
    events = events
    profile = profile
    overview = overview
    minutes = minutes
    Transcripts = {t1, t2}
    People = {alice}
    Topics = {budget}
    Titles = {launch}
    NoDate = NoDate
    LastDay = 0
    Names = {people, alice, profile, topics, budget, overview, events, minutes}
    Clients = {c1}
    PathOf <- Layout
    Rank <- Alphabetical
    Asked <- SomePaths
    Rows = {r1, r2, r3, r4}
    PageSize = 2
    Servers = {s1, s2, s3}
    MaxTasks = 1
    MaxRestarts = 1
    MaxSubmissions = 3
    MaxLost = 2
    NoTranscript = NoTranscript
    MaxPosted = 3
    PageLength = 2
    MaxLoads = 2
    MaxMissing = 2
    anna = anna
    longname = longname
    blank = blank
    spaces = spaces
    Mentions = {anna, longname, blank, spaces}
    Nameless = {blank, spaces}
    LongSlugs = {longname, spaces}
    Replies <- ShortReplies
    NoReply = NoReply
    MaxAttempts = 3
CHECK_DEADLOCK FALSE
INVARIANTS
    PartTypes
    GrepBetween
    LsBetween
    NothingForgotten
    PathsResolve
    WalkIsComplete
    CountedMissesNoMore
    TasksFindTheirPlace
    NoLeakedTimer
    BusyHasCause
    NamedKept
    PermanentOnlyIfEmpty
PROPERTIES
    OneServes
    ButtonReturns
    PollingEnds
    SpinnerEnds
    RefreshingEnds
    ExtractionEnds
