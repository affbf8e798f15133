SPECIFICATION Spec
CONSTANTS
    Clients = {"c1", "c2"}
    Filters <- MCFilters
    Topics <- MCTopics
    Shares = {"g"}
    NotShared = ""
    SubOpts <- MCSubOpts
    Contents = {"v"}
    SystemLevels = {"$s"}
    Accounts <- MCAccounts
    Groups <- MCGroups
    Rules <- MCRules
    AnyGroup = "@any"
    Absent = "absent"
    Username <- MCUsername
    EntryLists <- MCEntryLists
    MixedShares = FALSE
INVARIANTS
    TreeExact
    OrdinaryExact
    RetainedExact
    LastRuleDecides
PROPERTY
    SharedOnce
