----------------------------- MODULE DeepScraper -----------------------------
(***************************************************************************)
(* DeepScraperEngine of src/modules/deep_scan/deep_scraper.py as the scan  *)
(* uses it: the profiles to verify are crawled at the same time by one     *)
(* engine.  A page is asked for until it answers or its attempts are used  *)
(* up, and the links of an HTML page are followed, one after the other,    *)
(* by the same function one level deeper.  Each crawl has its own set of   *)
(* visited pages.  The response cache is common to all crawls and to other *)
(* processes, and its entries expire (ResponseCache): whether a page is in *)
(* it when a crawl first gets there, which is the only time that the crawl *)
(* looks for it, is therefore left open.                                   *)
(*                                                                         *)
(* The back-off between attempts and the delay between links are pauses    *)
(* in which the other crawls go on, as they do between any two steps.      *)
(***************************************************************************)
EXTENDS Integers, FiniteSets, SequencesExt

CONSTANTS Urls,         \* the pages of one site
          Crawls,       \* the calls of scrape_profile
          Root,         \* per crawl, the page it begins at
          Links,        \* per page, the same-site pages it links to
          Markup,       \* the pages that answer with HTML
          Broken,       \* those of them with a link that is no URL
          Blocked,      \* the pages the SSRF guard refuses
          MaxRetries, MaxDepth, MaxLinks

CrawlAssumption ==
    /\ Root \in [Crawls -> Urls]
    /\ Links \in [Urls -> SUBSET Urls]
    /\ Broken \subseteq Markup /\ Markup \subseteq Urls /\ Blocked \subseteq Urls
    /\ MaxRetries \in Nat \ {0} /\ MaxDepth \in Nat /\ MaxLinks \in Nat

VARIABLES visited,    \* per crawl, _visited
          calls,      \* per crawl, the nested calls of scrape, the innermost last
          answer,     \* per crawl and page, the status scrape returned
          asked,      \* per crawl and page, the requests sent (not in the code)
          picked      \* per crawl and page, the links it set out to follow (likewise)

vars == <<visited, calls, answer, asked, picked>>

Statuses == {"none", "ok", "cached", "error", "skipped"}

Call == [url : Urls, attempt : 1..MaxRetries, follows : BOOLEAN, todo : SUBSET Urls]

-----------------------------------------------------------------------------
Init ==
    /\ visited = [c \in Crawls |-> {}]
    /\ calls = [c \in Crawls |-> << >>]
    /\ answer = [c \in Crawls |-> [u \in Urls |-> "none"]]
    /\ asked = [c \in Crawls |-> [u \in Urls |-> 0]]
    /\ picked = [c \in Crawls |-> [u \in Urls |-> {}]]

Depth(c) == Len(calls[c]) - 1

Answers(c, u, status) == answer' = [answer EXCEPT ![c][u] = status]

Becomes(c, stack) == calls' = [calls EXCEPT ![c] = stack]

\* Faulty variant: a page is recorded as visited only when it comes from the cache.
EnterRecordsCached(c, u, stack) ==
    IF u \in Blocked
    THEN Answers(c, u, "skipped") /\ Becomes(c, stack) /\ UNCHANGED visited
    ELSE \/ /\ visited' = [visited EXCEPT ![c] = @ \cup {u}]
            /\ Answers(c, u, "cached") /\ Becomes(c, stack)
         \/ /\ Becomes(c, Append(stack, [url |-> u, attempt |-> 1,
                                          follows |-> FALSE, todo |-> {}]))
            /\ UNCHANGED <<visited, answer>>

\* scrape up to its first request, called by the calls in stack: a page the guard
\* refuses is not visited, and one from the cache is answered without its links.
Enter(c, u, stack) ==
    IF u \in Blocked
    THEN Answers(c, u, "skipped") /\ Becomes(c, stack) /\ UNCHANGED visited
    ELSE /\ visited' = [visited EXCEPT ![c] = @ \cup {u}]
         /\ \/ Answers(c, u, "cached") /\ Becomes(c, stack)
            \/ /\ Becomes(c, Append(stack, [url |-> u, attempt |-> 1,
                                             follows |-> FALSE, todo |-> {}]))
               /\ UNCHANGED answer

Begin(c) ==
    /\ answer[c][Root[c]] = "none" /\ calls[c] = << >>
    /\ Enter(c, Root[c], << >>)
    /\ UNCHANGED <<asked, picked>>

Returns(c, status) ==
    /\ Answers(c, Last(calls[c]).url, status)
    /\ Becomes(c, Front(calls[c]))

Requests(c) ==
    /\ calls[c] # << >> /\ ~Last(calls[c]).follows
    /\ asked' = [asked EXCEPT ![c][Last(calls[c]).url] = @ + 1]
    /\ UNCHANGED visited

\* The first few links of a page, in the order in which a set of strings comes.
Some(links) == {few \in SUBSET links : \/ few = links /\ Cardinality(links) <= MaxLinks
                                       \/ Cardinality(few) = MaxLinks}

\* Faulty variant: links are followed from one level too deep.
PageArrivesDeeper(c) ==
    /\ Requests(c)
    /\ LET u == Last(calls[c]).url IN
       IF u \notin Markup \/ Depth(c) > MaxDepth
       THEN Returns(c, "ok") /\ UNCHANGED picked
       ELSE IF u \in Broken
       THEN Returns(c, "error") /\ UNCHANGED picked
       ELSE \E few \in Some(Links[u]) :
               /\ Becomes(c, Append(Front(calls[c]), [Last(calls[c]) EXCEPT
                                             !.follows = TRUE, !.todo = few]))
               /\ picked' = [picked EXCEPT ![c][u] = few]
               /\ UNCHANGED answer

\* A page arrives and is stored.  One that is no HTML, or is as deep as it gets, is
\* returned; a link that cannot be parsed raises where requests raise, and the page
\* counts as failed although it is stored.
PageArrives(c) ==
    /\ Requests(c)
    /\ LET u == Last(calls[c]).url IN
       IF u \notin Markup \/ Depth(c) >= MaxDepth
       THEN Returns(c, "ok") /\ UNCHANGED picked
       ELSE IF u \in Broken
       THEN Returns(c, "error") /\ UNCHANGED picked
       ELSE \E few \in Some(Links[u]) :
               /\ Becomes(c, Append(Front(calls[c]), [Last(calls[c]) EXCEPT
                                             !.follows = TRUE, !.todo = few]))
               /\ picked' = [picked EXCEPT ![c][u] = few]
               /\ UNCHANGED answer

\* An HTTP error, a time-out or no connection: the next attempt, if there is one.
RequestFails(c) ==
    /\ Requests(c)
    /\ IF Last(calls[c]).attempt = MaxRetries
       THEN Returns(c, "error")
       ELSE /\ Becomes(c, Append(Front(calls[c]),
                                 [Last(calls[c]) EXCEPT !.attempt = @ + 1]))
            /\ UNCHANGED answer
    /\ UNCHANGED picked

\* Any other exception, of the request or of storing the page, is not retried.
RequestBreaks(c) ==
    /\ Requests(c)
    /\ Returns(c, "error")
    /\ UNCHANGED picked

Follows(c) == calls[c] # << >> /\ Last(calls[c]).follows

\* Faulty variant: the links after one that was visited already are forgotten.
FollowLinkUpToVisited(c) ==
    /\ Follows(c)
    /\ \E u \in Last(calls[c]).todo :
          LET rest == IF u \in visited[c] THEN {} ELSE Last(calls[c]).todo \ {u}
              stack == Append(Front(calls[c]), [Last(calls[c]) EXCEPT !.todo = rest])
          IN IF u \in visited[c]
             THEN Becomes(c, stack) /\ UNCHANGED <<visited, answer>>
             ELSE Enter(c, u, stack)
    /\ UNCHANGED <<asked, picked>>

\* Faulty variant: a link that was visited already is looked at again.
FollowLinkAgain(c) ==
    /\ Follows(c)
    /\ \E u \in Last(calls[c]).todo :
          LET stack == Append(Front(calls[c]), [Last(calls[c]) EXCEPT !.todo = @ \ {u}])
          IN IF u \in visited[c]
             THEN Becomes(c, calls[c]) /\ UNCHANGED <<visited, answer>>
             ELSE Enter(c, u, stack)
    /\ UNCHANGED <<asked, picked>>

\* The next link, unless this crawl has been there.
FollowLink(c) ==
    /\ Follows(c)
    /\ \E u \in Last(calls[c]).todo :
          LET stack == Append(Front(calls[c]), [Last(calls[c]) EXCEPT !.todo = @ \ {u}])
          IN IF u \in visited[c]
             THEN Becomes(c, stack) /\ UNCHANGED <<visited, answer>>
             ELSE Enter(c, u, stack)
    /\ UNCHANGED <<asked, picked>>

AllFollowed(c) ==
    /\ Follows(c) /\ Last(calls[c]).todo = {}
    /\ Returns(c, "ok")
    /\ UNCHANGED <<visited, asked, picked>>

CrawlStep(c) ==
    \/ Begin(c)
    \/ PageArrives(c) \/ RequestFails(c) \/ RequestBreaks(c)
    \/ FollowLink(c) \/ AllFollowed(c)

Next == \E c \in Crawls : CrawlStep(c)

Spec == Init /\ [][Next]_vars /\ \A c \in Crawls : WF_vars(CrawlStep(c))

-----------------------------------------------------------------------------
TypeOK ==
    /\ visited \in [Crawls -> SUBSET Urls]
    /\ calls \in [Crawls -> Seq(Call)]
    /\ answer \in [Crawls -> [Urls -> Statuses]]
    /\ asked \in [Crawls -> [Urls -> Nat]]
    /\ picked \in [Crawls -> [Urls -> SUBSET Urls]]

\* However the pages link to one another, and whether they fail or come and go in
\* the cache, a crawl asks for a page no more often than one call retries: no
\* page is met again by another way.
PagesAskedOnce == \A c \in Crawls, u \in Urls : asked[c][u] <= MaxRetries

\* The ways from the page that crawl c begins at to page u, by n links.
Ways(c, u, n) == {way \in [0..n -> Urls] : /\ way[0] = Root[c] /\ way[n] = u
                                           /\ \A i \in 1..n : way[i] \in Links[way[i - 1]]}

\* The pages that are at most MaxDepth links from that page.
Near(c) == {u \in Urls : \E n \in 0..MaxDepth : Ways(c, u, n) # {}}

\* A crawl stays within MaxDepth links of its page, so its nested calls are bounded.  That
\* is one level more than max_depth says ("1 = no recursion", lines 121-122): the depth
\* begins at 0, and links are followed while it is less than max_depth.
WithinDepth ==
    \A c \in Crawls : Len(calls[c]) <= MaxDepth + 1 /\ visited[c] \subseteq Near(c)

\* A crawl that is over has an answer for every page it has been to, and has been to
\* every link it took from a page, whichever of the links before it failed.
NoLinkDropped ==
    \A c \in Crawls : calls[c] = << >> =>
        \A u \in visited[c] :
            /\ answer[c][u] # "none"
            /\ \A v \in picked[c][u] : answer[c][v] # "none"

\* What the fairness brings about, on a site whose pages link in circles and may fail
\* all the time.
Ended == \A c \in Crawls : calls[c] = << >> /\ answer[c][Root[c]] # "none"

-----------------------------------------------------------------------------
\* What the invariants rest on.

\* The nested calls are of pages that lead from one to the next, all of them visited and
\* none twice; all but the last follow their links, and one that does may go deeper.
IsWay(c, stack, seen) ==
    /\ Len(stack) <= MaxDepth + 1
    /\ stack # << >> => stack[1].url = Root[c]
    /\ \A i \in DOMAIN stack :
          /\ stack[i].url \in seen
          /\ \A j \in DOMAIN stack : stack[i].url = stack[j].url => i = j
          /\ stack[i].todo \subseteq Links[stack[i].url]
          /\ stack[i].follows => i <= MaxDepth
          /\ ~ stack[i].follows => i = Len(stack) /\ stack[i].todo = {}
          /\ i > 1 => stack[i].url \in Links[stack[i - 1].url]

\* A page is asked for in one call alone, and once for each of its attempts.
AskedInCall(stack, seen, requests, links) ==
    \A u \in Urls :
        /\ requests[u] <= MaxRetries
        /\ u \notin seen => requests[u] = 0 /\ links[u] = {}
        /\ \A i \in DOMAIN stack :
              stack[i].url = u /\ ~ stack[i].follows => requests[u] = stack[i].attempt - 1

\* A page that was visited has its answer or is being scraped, and so is, or has yet to
\* be, every link that was picked from it, but for those left out.
Within(stack, u) == \E i \in DOMAIN stack : stack[i].url = u

NothingForgotten(stack, seen, status, links, leftOut) ==
    \A u \in seen :
        /\ status[u] # "none" \/ Within(stack, u)
        /\ \A v \in links[u] :
              \/ status[v] # "none" \/ Within(stack, v) \/ v \in leftOut
              \/ \E i \in DOMAIN stack : stack[i].url = u /\ v \in stack[i].todo

Orderly(c, stack, seen, status, requests, links) ==
    /\ IsWay(c, stack, seen) /\ seen \subseteq Near(c)
    /\ AskedInCall(stack, seen, requests, links)
    /\ NothingForgotten(stack, seen, status, links, {})

IInv == TypeOK /\ \A c \in Crawls :
                     Orderly(c, calls[c], visited[c], answer[c], asked[c], picked[c])
=============================================================================
