SPECIFICATION FairSpec
CONSTANTS
    Events = {1, 2, 4, 5, 6, 7}
    Routes = {"standard", "fifo", "broken"}
    RouteOf <- Queues
    Groups = {"group"}
    NoGroup = NoGroup
    GroupOf <- Group
    Malformed = {}
    Invalid = {5}
    Rejected = {2}
    Expirable = {}
    FifoQueues = {"fifo"}
    BadQueues = {"broken"}
    Capacities = {1, 2}
    MaxEntries = 2
    MaxBytes = 3
    MaxEvents = 5
    Size <- Sizes
    Contents <- MCContents
    Calls <- MCCalls
    Values = {"x", "y"}
    MaxSize = 2
    MaxAttributes = 2
    MaxDelay = 3
    Unparsable = {}
    Unsendable = {2}
INVARIANTS SlotsMatchRequests ChunksFitRequest PoisonIsUnsendable IdsTellEventsApart
PROPERTIES ImplementsSender SendReturns
