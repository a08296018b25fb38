SPECIFICATION Spec
CONSTANTS
    NumSources = 3
    Txids = {"a", "b"}
    None = None
    Published <- MCPublished
    MaxClicks = 2
    Addresses <- MCAddresses
INVARIANTS
    ViewIsCoherent
    RefreshMeansIdle
PROPERTIES
    NeverOlder
    PageSettles
CHECK_DEADLOCK FALSE
