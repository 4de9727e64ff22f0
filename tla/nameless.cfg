SPECIFICATION ExtractSpec
CONSTANTS
    anna = anna
    longname = longname
    blank = blank
    spaces = spaces
    Mentions = {anna, longname, blank, spaces}
    Nameless = {blank, spaces}
    LongSlugs = {longname, spaces}
    Replies <- ShortReplies
    NoReply = NoReply
    MaxAttempts = 3
CHECK_DEADLOCK FALSE
INVARIANTS
    NamelessRemoved
