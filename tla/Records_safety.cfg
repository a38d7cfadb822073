SPECIFICATION FairSpec
CONSTANTS
    Writers = {w1, w2}
    Family <- MCFamily
    OtherKeys <- MCOtherKeys
    Sizes = {1, 2}
    Capacity = 10
    MaxGeneration = 1
    MaxEpochs = 1
    MaxStamps = 2
    MaxCrashes = 1
    ForeignSize = 2
    Histories <- MCHistories
    Kinds <- MCKinds
    MaxBatches = 3
    Accounts <- MCAccounts
    Assets = {"USDT", "BNB"}
    ParityGenerations = 3
    MaxLedgerGenerations = 5
    Trades = {"t1", "t2"}
    Lessons = {"l1", "l2"}
    NoLesson = "none"
    Targets = {2}
    Rules = {"g1"}
    MaxActions = 1
    MaxTime = 3
    MaxSetBacks = 1
    ClassicFiles <- MCClassicFiles
    TradeSets <- MCTradeSets
    Sealers = {"s1", "s2", "s3"}
    Vault <- MCVault
    ObjectIds = {o1, o2, o3}
    MaxLine = 2
    MaxSpoiled = 1
    NoObject = NoObject
    Spoiled = Spoiled
INVARIANTS ReopensAsShown CountedOnce TrustedReplayFollowsHistory PrimaryIsEarned BookedOnce ProjectionsAgree StoredIsShownWhole ActionFollowsLesson OpenedAsSaved
PROPERTIES ImplementsAtomicStore ClearsComplete OwnReviewsStay
CHECK_DEADLOCK FALSE
