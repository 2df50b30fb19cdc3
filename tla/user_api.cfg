CONSTANTS
    tp = tp  sm = sm  other = other  player = player  anna = anna  bert = bert
    k1 = k1  r1 = r1  r2 = r2  r3 = r3  r4 = r4  r5 = r5  r6 = r6
    Absent = Absent  Garbled = Garbled  Empty = Empty  Undated = Undated
    Unstorable = Unstorable
    Nobody = Nobody  NoKey = NoKey  LongKey = LongKey
    Vendors = {tp, sm}
    Clubs = {"7I", "DR", "PT"}
    Putter = "PT"
    DefaultLimit = 2
    MaxLimit = 3
    DefaultWindow = 3
    MaxStatsRows = 3
    LowSampleSize = 2
    Request = {r1, r2, r3, r4, r5, r6}
    PathOf <- MCPathOf
    KeyOf <- MCKeyOf
    AskOf <- MCAskOf
    Scenario <- MCScenario
    MaxNow = 5
SPECIFICATION Spec
INVARIANTS
    TypeOK
    NoShotListedTwice
    WalkIsComplete
    QueryErrorsAreKnown
    ReplaysWereEarned
    SecondRunIsExplained
PROPERTIES
    StatsAgreeWithListing
    WalksEnd
CHECK_DEADLOCK FALSE
