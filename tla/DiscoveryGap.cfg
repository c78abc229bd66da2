SPECIFICATION FairSpec
CONSTANTS
    Containers = {c1}
    Specs = {"first"}
    Refused = {}
    NoSpec = NoSpec
    MaxEvents = 2
INVARIANT StartedAreRegistered
