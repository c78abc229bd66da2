SPECIFICATION FairSpec
CONSTANTS
    a = a
    b = b
    Containers = {a, b}
    Nobody = nobody
    Prefixes = {"", "ap", "app", "/app"}
    Dirs = {".", "ap", "app"}
    Dir <- MCDir
    Inside <- MCInside
    Spells <- MCSpells
    Worlds <- MCWorlds
    Files = {"pg", "my"}
    Fires <- MCFires
    Timeout = 1
    ListLimit = 1
    Room = 3
    Horizon = 4
INVARIANTS TypeOK
PROPERTIES StoredIsSpared ReportedIsStored DueAreCollected
CHECK_DEADLOCK FALSE
