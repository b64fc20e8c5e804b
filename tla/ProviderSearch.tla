---------------------------- MODULE ProviderSearch ----------------------------
(***************************************************************************)
(* The searches that ask several providers at once: the leaks of           *)
(* src/modules/data_leaks/aggregator.py and the profiles of                *)
(* src/modules/people_finder/search.py.  A provider is a blocking call in  *)
(* a thread of the loop's executor; some of them have no time-out of their *)
(* own.  The engine gives up a search that takes too long: then queries    *)
(* that have no thread yet are dropped, the others go on for nobody.  A    *)
(* search that it tries again is another search here.                      *)
(***************************************************************************)
EXTENDS Integers, Sequences, Subsequences, SequencesExt

CONSTANTS Leaks, People,  \* the searches, of both kinds
          Providers,      \* the sequence of providers that one search asks
          Threads,        \* max_workers of the executor
          Finds           \* what a provider may find: sets of items, of a key and a status

Searches == Leaks \cup People
Query    == Searches \X Range(Providers)

ProviderAssumption ==
    /\ Leaks \cap People = {} /\ Threads \in Nat \ {0}
    /\ Providers \in Seq(Range(Providers))
    /\ \A i, j \in DOMAIN Providers : Providers[i] = Providers[j] => i = j
    /\ \A found \in Finds : \A i \in found :
          i = [key |-> i.key, status |-> i.status] /\ i.status \in {"found", "possibly"}

VARIABLES search,   \* per search: idle, waiting, done, given up
          backlog,  \* queries that wait for a thread, the executor's work queue
          busy,     \* queries that have a thread
          replies,  \* per query, what the provider answered
          report    \* per search that is done, what it returns

vars == <<search, backlog, busy, replies, report>>

NoReply == [outcome |-> "none", found |-> {}]
Failed  == [outcome |-> "error", found |-> {}]
NoReport == [status |-> "none", errors |-> {}, breaches |-> {}, profiles |-> {}]

Init ==
    /\ search = [s \in Searches |-> "idle"]
    /\ backlog = <<>>
    /\ busy = {}
    /\ replies = [q \in Query |-> NoReply]
    /\ report = [s \in Searches |-> NoReport]

\* gather: every provider is handed to the executor, in order.
Begin(s) ==
    /\ search[s] = "idle"
    /\ search' = [search EXCEPT ![s] = "waiting"]
    /\ backlog' = backlog \o [i \in 1..Len(Providers) |-> <<s, Providers[i]>>]
    /\ UNCHANGED <<busy, replies, report>>

TakeThread ==
    /\ backlog # <<>> /\ Cardinality(busy) < Threads
    /\ busy' = busy \cup {Head(backlog)}
    /\ backlog' = Tail(backlog)
    /\ UNCHANGED <<search, replies, report>>

\* A provider returns what it found, or an error, or raises.
Reply(q) ==
    /\ q \in busy
    /\ busy' = busy \ {q}
    /\ \/ replies' = [replies EXCEPT ![q] = Failed]
       \/ \E found \in Finds :
             replies' = [replies EXCEPT ![q] = [outcome |-> "ok", found |-> found]]
    /\ UNCHANGED <<search, backlog, report>>

-----------------------------------------------------------------------------
Errored(s)  == {p \in Range(Providers) : replies[<<s, p>>].outcome = "error"}
Answered(s) == {p \in Range(Providers) : replies[<<s, p>>].outcome = "ok"}

\* _parse_provider_results and _deduplicate: one record for an address and a source.
\* Items that have no address of their own have one key.
Breaches(s) ==
    UNION {{[source |-> p, key |-> item.key] : item \in replies[<<s, p>>].found} :
              p \in Answered(s)}

Finders(s, key) ==
    {p \in Answered(s) : \E item \in replies[<<s, p>>].found : item.key = key}

\* Faulty variant: who finds the page first settles its status.
StatusOfFirst(s, key) ==
    LET first == Min({i \in DOMAIN Providers : Providers[i] \in Finders(s, key)})
    IN (CHOOSE item \in replies[<<s, Providers[first]>>].found : item.key = key).status

\* "found" is preferred to "possibly", whoever says it.
Status(s, key) ==
    IF \E p \in Answered(s) : [key |-> key, status |-> "found"] \in replies[<<s, p>>].found
    THEN "found" ELSE "possibly"

\* _deduplicate_profiles: one profile for a page, with all who found it.
Profiles(s) ==
    LET keys == UNION {{item.key : item \in replies[<<s, p>>].found} : p \in Answered(s)}
    IN {[key |-> key, status |-> Status(s, key), sources |-> Finders(s, key)] : key \in keys}

\* All have answered: the rest of search has no await.
Collect(s) ==
    /\ search[s] = "waiting"
    /\ Errored(s) \cup Answered(s) = Range(Providers)
    /\ search' = [search EXCEPT ![s] = "done"]
    /\ report' = [report EXCEPT ![s] =
          [status   |-> IF Errored(s) = {} THEN "ok" ELSE "partial",
           errors   |-> Errored(s),
           breaches |-> IF s \in Leaks THEN Breaches(s) ELSE {},
           profiles |-> IF s \in People THEN Profiles(s) ELSE {}]]
    /\ UNCHANGED <<backlog, busy, replies>>

\* Faulty variants: the queries of the search stay in the queue; the search waits until
\* the threads it has are back.
GiveUpQueued(s) ==
    /\ search[s] = "waiting"
    /\ search' = [search EXCEPT ![s] = "given up"]
    /\ UNCHANGED <<backlog, busy, replies, report>>

GiveUpOnceBack(s) ==
    /\ search[s] = "waiting"
    /\ \A q \in busy : q[1] # s
    /\ search' = [search EXCEPT ![s] = "given up"]
    /\ backlog' \in Selections(backlog, {i \in DOMAIN backlog : backlog[i][1] # s})
    /\ UNCHANGED <<busy, replies, report>>

\* The time-out of the engine cancels the search, and with it what has no thread yet.
GiveUp(s) ==
    /\ search[s] = "waiting"
    /\ search' = [search EXCEPT ![s] = "given up"]
    /\ backlog' \in Selections(backlog, {i \in DOMAIN backlog : backlog[i][1] # s})
    /\ UNCHANGED <<busy, replies, report>>

Next ==
    \/ TakeThread
    \/ \E s \in Searches : Begin(s) \/ Collect(s) \/ GiveUp(s)
    \/ \E q \in Query : Reply(q)

\* The loop runs and its timers fire.  A provider need not ever answer.
EndStep(s) == Collect(s) \/ GiveUp(s)

Spec == Init /\ [][Next]_vars /\ \A s \in Searches : WF_vars(EndStep(s))

-----------------------------------------------------------------------------
TypeOK ==
    /\ search \in [Searches -> {"idle", "waiting", "done", "given up"}]
    /\ Range(backlog) \subseteq Query /\ busy \subseteq Query
    /\ Cardinality(busy) <= Threads
    /\ \A q \in Query : replies[q].outcome \in {"none", "ok", "error"}
    /\ \A s \in Searches : search[s] # "done" => report[s] = NoReport

\* What a provider replied is in what its search tells.
Reported(s, p, reply, told) ==
    /\ reply.outcome = "error" <=> p \in told.errors
    /\ reply.outcome = "error" => told.status = "partial"
    /\ \A item \in reply.found :
          IF s \in Leaks
          THEN [source |-> p, key |-> item.key] \in told.breaches
          ELSE \E r \in told.profiles :
                  /\ r.key = item.key /\ p \in r.sources
                  /\ item.status = "found" => r.status = "found"

\* What a provider found is reported under its name, by whichever search, whatever the
\* others found or failed with and in whichever order they answered; a page that one
\* of them is sure of is reported as sure; and a provider that failed is named.
EveryReplyReported ==
    \A s \in Searches, p \in Range(Providers) :
        search[s] = "done" => Reported(s, p, replies[<<s, p>>], report[s])

\* The queries of searches that were given up.
Orphans == {q \in busy \cup Range(backlog) : search[q[1]] = "given up"}

\* Searches that were given up hold no more than the threads of the executor: however
\* many they are, what they had not begun to ask is not asked.
OrphansHoldThreadsOnly == Cardinality(Orphans) <= Threads

\* No search waits: what the fairness brings about, also when all threads are held by
\* providers that never answer.
Ended == \A s \in Searches : search[s] # "waiting"

-----------------------------------------------------------------------------
\* What the invariants rest on.

RepliesTyped ==
    /\ replies \in [Query -> {NoReply, Failed} \cup {[outcome |-> "ok", found |-> found] :
                                                       found \in Finds}]
    /\ DOMAIN report = Searches

\* A query waits for a thread, has one or has its answer, and it waits only while its
\* search does.
OnePlace ==
    /\ backlog \in Seq(Query) /\ IsFiniteSet(busy)
    /\ \A i, j \in DOMAIN backlog : backlog[i] = backlog[j] => i = j
    /\ \A i \in DOMAIN backlog : backlog[i] \notin busy /\ search[backlog[i][1]] = "waiting"
    /\ \A q \in Query : q \in busy \cup Range(backlog) =>
                             /\ replies[q] = NoReply
                             /\ search[q[1]] \in {"waiting", "given up"}
    /\ \A q \in Query : search[q[1]] = "idle" => replies[q] = NoReply

IInv == TypeOK /\ EveryReplyReported /\ OrphansHoldThreadsOnly /\ RepliesTyped /\ OnePlace
=============================================================================
