SPECIFICATION FairSpec
CONSTANTS
    Events = {1, 2, 3, 4, 5, 6}
    Routes = {"topic"}
    RouteOf <- OneTopic
    Groups = {"key"}
    NoGroup = NoGroup
    GroupOf <- KeyedTail
    Malformed = {}
    Invalid = {4}
    Rejected = {1, 5}
    Expirable = {}
    Unparsable = {}
INVARIANTS NeverFindsKeyPaused OnePublishPerKey
PROPERTIES ImplementsSender SendReturns
