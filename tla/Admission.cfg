SPECIFICATION Spec
CONSTANTS
    Databases = {"app", "crm$1"}
    Hosts = {"db", "app"}
    Names = {"app", "crm_1"}
    Clean <- MCClean
    Worlds <- MCWorlds
    Day = 24
    Half = 512
INVARIANTS
    TypeOK
    NameTellsContent
    TestVouchesForDump
    NothingOpenedInVain
    KeptAsAsked
\* One run: it fails, or dumps; or the labels are refused.
CHECK_DEADLOCK FALSE
