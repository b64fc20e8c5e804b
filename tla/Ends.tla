------------------------------- MODULE Ends -------------------------------
(* What is begun comes to a sound end: the correlation of scan results, the *)
(* tasks of the job service, the agent loop, a call of the AI client, a     *)
(* dispatch to plugins, the crawl of profiles, the check of derived         *)
(* handles, and searches that share the threads for their providers.  They  *)
(* have no state in common, so a behaviour is one of one of them, chosen by *)
(* part: running them side by side would multiply the states and add none.  *)
EXTENDS IdentityGraph

CONSTANTS Jobs, CaseJobs, MaxPersistedJobs, MaxTime, NoJob,          \* JobService
          Steps, MaxSources, Wave,                                   \* AgentLoop
          Clients, CallRetries, MinDelay, Default, Override,         \* OmniRoute
          Plugins, Names, NameOf, Hooked,                            \* PluginDispatch
          Urls, Crawls, Root, Links, Markup, Broken, Blocked,
              PageRetries, MaxDepth, MaxLinks,                       \* DeepScraper
          Handles, Platforms, MaxConcurrency,                        \* HandleCheck
          Leaks, People, Providers, Threads, Finds                   \* ProviderSearch

VARIABLES part,
          store, file, stale, runner, loop, finishing, filed, clock,  \* JobService
          wave, status, owed, reached,                        \* AgentLoop
          state, client, attempt, delay, model, sent, slept,  \* OmniRoute
          registry, mode, calls, running, over, returned,     \* PluginDispatch
          crawled, nested, answer, asked, picked,             \* DeepScraper
          waiting, probes, confidence, permits, unverified,   \* HandleCheck
          search, backlog, busy, replies, report              \* ProviderSearch

Api == INSTANCE JobService

Agent == INSTANCE AgentLoop WITH stage <- wave

Omni == INSTANCE OmniRoute WITH MaxRetries <- CallRetries

Hooks == INSTANCE PluginDispatch WITH results <- returned

Crawl == INSTANCE DeepScraper WITH visited <- crawled, calls <- nested, MaxRetries <- PageRetries

Handle == INSTANCE HandleCheck WITH results <- confidence

Search == INSTANCE ProviderSearch

EndsAssumption ==
    /\ GraphAssumption /\ Agent!AgentAssumption /\ Omni!OmniAssumption
    /\ Hooks!PluginAssumption /\ Crawl!CrawlAssumption /\ Handle!HandleAssumption
    /\ Search!ProviderAssumption

-----------------------------------------------------------------------------
correlationVars == <<results, stage, left, next, sources, edges,
                     visited, frontier, component, components, entities>>
jobVars  == <<store, file, stale, runner, loop, finishing, filed, clock>>
agentVars == <<wave, status, owed, reached>>
omniVars  == <<state, client, attempt, delay, model, sent, slept>>
hookVars  == <<registry, mode, calls, running, over, returned>>
crawlVars == <<crawled, nested, answer, asked, picked>>
checkVars == <<waiting, probes, confidence, permits, unverified>>
askVars   == <<search, backlog, busy, replies, report>>
allVars   == <<part, correlationVars, jobVars, agentVars, omniVars, hookVars, crawlVars,
               checkVars, askVars>>

AllInit ==
    /\ part \in {"graph", "jobs", "agent", "omni", "hooks", "crawl", "handles", "search"}
    /\ Init /\ Api!Init /\ Agent!Init /\ Omni!Init /\ Hooks!Init /\ Crawl!Init
    /\ Handle!Init /\ Search!Init
    /\ part # "graph" => results = CHOOSE some \in Inputs : TRUE

OnlyGraph ==
    /\ part = "graph"
    /\ UNCHANGED <<part, jobVars, agentVars, omniVars, hookVars, crawlVars, checkVars, askVars>>
OnlyJobs ==
    /\ part = "jobs"
    /\ UNCHANGED <<part, correlationVars, agentVars, omniVars, hookVars,
                   crawlVars, checkVars, askVars>>
OnlyAgent ==
    /\ part = "agent"
    /\ UNCHANGED <<part, correlationVars, jobVars, omniVars, hookVars,
                   crawlVars, checkVars, askVars>>
OnlyOmni ==
    /\ part = "omni"
    /\ UNCHANGED <<part, correlationVars, jobVars, agentVars, hookVars,
                   crawlVars, checkVars, askVars>>
OnlyHooks ==
    /\ part = "hooks"
    /\ UNCHANGED <<part, correlationVars, jobVars, agentVars, omniVars,
                   crawlVars, checkVars, askVars>>
OnlyCrawl ==
    /\ part = "crawl"
    /\ UNCHANGED <<part, correlationVars, jobVars, agentVars, omniVars,
                   hookVars, checkVars, askVars>>
OnlyHandles ==
    /\ part = "handles"
    /\ UNCHANGED <<part, correlationVars, jobVars, agentVars, omniVars,
                   hookVars, crawlVars, askVars>>
OnlySearch ==
    /\ part = "search"
    /\ UNCHANGED <<part, correlationVars, jobVars, agentVars, omniVars,
                   hookVars, crawlVars, checkVars>>

AllNext ==
    \/ OnlyGraph /\ Next
    \/ OnlyJobs /\ Api!Next
    \/ OnlyAgent /\ Agent!Next
    \/ OnlyOmni /\ Omni!Next
    \/ OnlyHooks /\ Hooks!Next
    \/ OnlyCrawl /\ Crawl!Next
    \/ OnlyHandles /\ Handle!Next
    \/ OnlySearch /\ Search!Next

\* The fairness of each, as its module states it.
AllFairness ==
    /\ WF_allVars(OnlyGraph /\ Next)
    /\ WF_allVars(OnlyJobs /\ Api!LoopStep)
    /\ \A j \in Jobs : WF_allVars(OnlyJobs /\ Api!RunnerStep(j))
    /\ WF_allVars(OnlyAgent /\ Agent!Next)
    /\ WF_allVars(OnlyOmni /\ Omni!Next)
    /\ WF_allVars(OnlyHooks /\ Hooks!Step)
    /\ \A c \in Crawls : WF_allVars(OnlyCrawl /\ Crawl!CrawlStep(c))
    /\ WF_allVars(OnlyHandles /\ Handle!Next)
    /\ \A s \in Leaks \cup People : WF_allVars(OnlySearch /\ Search!EndStep(s))

AllSpec == AllInit /\ [][AllNext]_allVars /\ AllFairness

-----------------------------------------------------------------------------
\* agent_loop.py: a source whose query raised or timed out in the first wave is made up
\* for by an alternate that answers while there is one left to ask, and alternates answer
\* in excess of these failures by less than a batch.
AlternatesStandIn ==
    Agent!TypeOK /\ Agent!FailuresMadeUpFor /\ Agent!FewNeedlessQueries

\* omniroute_client.py: whichever endpoint a call falls back to, it asks it first, but in
\* no retry, for the model the caller chose, goes back to none, and sleeps no longer than
\* the delays add up to.
CallKeepsItsTerms ==
    Omni!TypeOK /\ Omni!OverrideOncePerEndpoint /\ Omni!CallBounded

\* plugins: a dispatch that returns has run the hook of every plugin that has it, those
\* after one that raised included, and of two plugins of one name only one.
EveryListenerHeard == Hooks!TypeOK /\ Hooks!EveryListenerHeard

\* deep_scraper.py: crawls that meet on one site's pages ask for no page more often than
\* the retries allow, none that is more than max_depth links away, and a crawl that is over
\* has an answer for every link it set out to follow.
CrawlIsOrderly ==
    Crawl!TypeOK /\ Crawl!PagesAskedOnce /\ Crawl!WithinDepth /\ Crawl!NoLinkDropped

\* engine.py, the check of derived handles: of the handles that could be checked those
\* are doubted that no platform shows, however many platforms failed or denied them.
DoubtedIfShownNowhere == Handle!TypeOK /\ Handle!DoubtedIfShownNowhere

\* aggregator.py and search.py: what a provider answered in time is in the report of
\* its search once and as sure as any provider was, and a search that gave up leaves
\* nothing behind but the threads its providers hold.
ProvidersAccountedFor ==
    Search!TypeOK /\ Search!EveryReplyReported /\ Search!OrphansHoldThreadsOnly

\* In the chosen part nothing is under way.
Settled ==
    \/ part = "graph" /\ stage \in {"done", "raised"}
    \/ part = "jobs" /\ Api!Ended
    \/ part = "agent" /\ Agent!Ended
    \/ part = "omni" /\ Omni!Ended
    \/ part = "hooks" /\ Hooks!Ended
    \/ part = "crawl" /\ Crawl!Ended
    \/ part = "handles" /\ Handle!Ended
    \/ part = "search" /\ Search!Ended

\* What is begun ends, whatever fails, is evicted or never answers meanwhile: the
\* correlation, every job's task, the agent loop, the call, the dispatch, the crawls,
\* the check of the handles, the searches.
AwaitedEnds == []<>Settled
=============================================================================
