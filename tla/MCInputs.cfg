\* The VE.Bus locator with two services, the id layout with frames of four packs of a
\* bank, and the replay of every capture of at most four lines.
SPECIFICATION MCSpec
CONSTANTS
    Names = {1, 2}
    Interval = 3
    Cycle = 2
    MaxTime = 12
    Packs = {1, 2, 6, 17}
    Sends <- SentFrames
    Rate = 1
    Allowance = 1
    Delay = 1
    SummaryRange = {2, 3, 4}
    LastTime = 3
    Stamps = {0, 1, 2, 3}
    Lines = 4
    Window = 1
    Readings = 2
INVARIANTS
    InputsTypeOK
    ListingsBounded
    FoundAgain
    ReadAsDocumented
    SampleSeesItsPast
PROPERTIES
    CrosscheckStays
    CountersStayCounters
    ImplementsOrderedFeed
\* A replay ends with its capture.
CHECK_DEADLOCK FALSE
