CONSTANTS
    Ids = {1, 2}
    Names = {"a", "b"}
    Labels = {"blue"}
    Rules <- MCRules
    Contexts = {"c1", "c2", "c3"}
    Objects = {1, 2, 3}
    None = none
    Watchers = {"id1", "name1", "id2", "topo1", "topo2", "id3"}
    CtxOf <- MCCtxOf
    DirOf <- MCDirOf
    Rank <- MCRank
    Items <- MCItems
    NotifiedAhead = FALSE
    Compacting = {"c2"}
    RingSize = 5
    Setups <- MCSetups
    MaxChanges = 3
    MaxUpsets = 1
SPECIFICATION FairSpec
INVARIANTS
    SetConsistent
    
    UsersFollow
    RingLookups
    SyncedTrue
PROPERTIES
    OthersKept
    
CHECK_DEADLOCK FALSE
