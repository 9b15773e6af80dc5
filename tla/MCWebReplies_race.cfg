\* Overlapping, failing, paged polls and concurrent inserts.
SPECIFICATION FairSpec
CONSTANTS
    Pages <- TwoPages
    Askers = {"s1", "s2"}
    OwnBusiness = "b1"
    PageLimit = 1
    MaxInFlight = 2
    MaxReplies = 2
    MaxReloads = 1
INVARIANTS
    TypeOK
    ThreadMatchesCursor
    FreshPollsAddNothingTwice
PROPERTY
    EveryReplyShown
