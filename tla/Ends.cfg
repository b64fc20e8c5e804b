\* Two slots for jobs and a clock that stands still: any two are of an age, and either
\* may be evicted.  What is begun comes to its end.
CONSTANTS
    Values <- MCValues
    Modules <- MCModules
    Inputs <- MCInputs
    Jobs = {"j1", "j2", "j3"}
    CaseJobs = {"j1", "j2"}
    MaxPersistedJobs = 2
    MaxTime = 1
    NoJob = "none"
    Steps = 6
    MaxSources = 5
    Wave = 2
    Clients <- MCClients
    CallRetries = 3
    MinDelay = 1
    Default = "default"
    Override = "override"
    Plugins <- MCPlugins
    Names <- MCPlugins
    NameOf <- MCNameOf
    Hooked = {"log", "log2", "alert"}
    Urls <- MCUrls
    Crawls = {"jo", "stars"}
    Root <- MCRoot
    Links <- MCLinks
    Markup = {"jo", "repos", "stars", "about", "intranet"}
    Broken = {"about"}
    Blocked = {"intranet"}
    PageRetries = 2
    MaxDepth = 2
    MaxLinks = 2
    Handles = {"josmith", "smithj"}
    Platforms = {"github", "telegram", "gitlab"}
    MaxConcurrency = 1
    Leaks = {"leaks"}
    People = {"people"}
    Providers <- MCProviders
    Threads = 2
    Finds <- MCFinds
SPECIFICATION AllSpec
INVARIANTS
    ComponentsAreConnected
    CorroboratedIsResolved
    AlternatesStandIn
    CallKeepsItsTerms
    EveryListenerHeard
    CrawlIsOrderly
    DoubtedIfShownNowhere
    ProvidersAccountedFor
PROPERTY AwaitedEnds
CHECK_DEADLOCK FALSE
