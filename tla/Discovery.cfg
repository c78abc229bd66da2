\* One container with two names, or an expression that cron refuses; three unread events.
SPECIFICATION FairSpec
CONSTANTS
    Containers = {c1}
    Specs = {"first", "second", "bad"}
    Refused = {"bad"}
    NoSpec = NoSpec
    MaxEvents = 3
INVARIANTS
    TypeOK
    RegistryIsAccurate
PROPERTIES
    RegisteredGetsScheduled
    AlwaysListensAgain
    MissedIsRepaired
