--------------------------- MODULE BlackBoxAgent ---------------------------
(* The black-box agent (infrastructure/scanners/black_box_agent.py): checks  *)
(* of the target's address, ports and front page, and with the client's      *)
(* confirmation a breadth-first crawl of the target's host and checks of     *)
(* every page it has got.  Each request may fail.  A page is a URL; a link   *)
(* that urljoin cannot parse is "malformed".                                 *)
EXTENDS AgentRun, FiniteSetsExt, SequencesExt

CONSTANTS
    Urls,           \* URLs that pages link to
    Home,           \* the target, where the crawl starts
    Sites,          \* what a target can be
    MaxCrawlPages   \* _MAX_CRAWL_PAGES

ASSUME CrawlAssumption ==
    /\ IsFiniteSet(Urls) /\ Home \in Urls
    /\ MaxCrawlPages \in Nat \ {0}

ASSUME SitesAssumption ==
    \A s \in Sites : /\ s.host \subseteq Urls /\ "malformed" \notin s.host
                     /\ \A u \in Urls : s.links[u] \in Seq(Urls \cup {"malformed"})

VARIABLES
    site,        \* links, flaws and headers of the pages; what the target is
    queue,       \* URLs to crawl
    visited,     \* URLs taken from the queue
    pages,       \* URLs whose pages were got, in order
    crawled,     \* URLs requested by the crawl, in order
    next,        \* the page under inspection
    lost,        \* whether an exception ended the crawl
    unanswered   \* history: the flaws and pages whose probe failed

crawl == <<queue, visited, pages, crawled, lost>>
web   == <<site, crawl, next, unanswered>>

InitWeb ==
    /\ site \in Sites
    /\ queue = <<>>
    /\ visited = {}
    /\ pages = <<>>
    /\ crawled = <<>>
    /\ next = 1
    /\ lost = FALSE
    /\ unanswered = {}

(* validate_public_http_url: a target that is not public, or that cannot be  *)
(* resolved, is refused.                                                     *)
ValidateTarget ==
    /\ agent = "black_box"
    /\ \/ site.public /\ Continue("start", "ports", {}, {})
       \/ Continue("start", "done", {<<"rejected", "target">>}, {})
    /\ UNCHANGED web

(* Some of the common ports that are open answer in time.                    *)
ScanPorts ==
    /\ \E answered \in SUBSET site.ports :
          Continue("ports", IF "web" \in answered THEN "front" ELSE "deep",
                   {<<"port", p>> : p \in answered}, {"connect"})
    /\ UNCHANGED web

(* The front page; a target without a scheme cannot be fetched.              *)
CheckWebServer ==
    /\ \/ Continue("front", "deep", {}, {"get"})
       \/ site.isUrl /\ site.placeholder
            /\ Continue("front", "deep", {<<"placeholder", "target">>}, {"get"})
    /\ UNCHANGED web

\* Mutant: the confirmation is not asked for.
DeepAssessmentAnyway ==
    /\ Continue("deep", IF site.isUrl THEN "crawl" ELSE "return", {}, {})
    /\ queue' = <<Home>>
    /\ UNCHANGED <<site, visited, pages, crawled, next, lost, unanswered>>

(* The crawl, or the word that it was skipped.                               *)
DeepAssessment ==
    \/ /\ site.isUrl /\ authorized
       /\ Continue("deep", "crawl", {}, {})
       /\ queue' = <<Home>>
       /\ UNCHANGED <<site, visited, pages, crawled, next, lost, unanswered>>
    \/ /\ ~site.isUrl \/ ~authorized
       /\ Continue("deep", "return", IF site.isUrl THEN {<<"skipped", "target">>} ELSE {}, {})
       /\ UNCHANGED web

(***************************************************************************)
(* _crawl                                                                  *)
(***************************************************************************)

Crawling == queue # <<>> /\ Len(pages) < MaxCrawlPages

(* A URL that was queued twice.                                              *)
SkipVisited ==
    /\ Crawling /\ Head(queue) \in visited
    /\ Continue("crawl", "crawl", {}, {})
    /\ queue' = Tail(queue)
    /\ UNCHANGED <<site, visited, pages, crawled, next, lost, unanswered>>

Take ==
    /\ Crawling /\ Head(queue) \notin visited
    /\ visited' = visited \cup {Head(queue)}
    /\ crawled' = Append(crawled, Head(queue))

FetchFails ==
    /\ Take
    /\ Continue("crawl", "crawl", {}, {"crawl"})
    /\ queue' = Tail(queue)
    /\ UNCHANGED <<site, pages, next, lost, unanswered>>

(* The links of an HTML page, and those of them that are in a set.           *)
LinksOn(url) == IF url \in site.html THEN site.links[url] ELSE <<>>

Among(links, urls) ==
    LET upTo[i \in 0 .. Len(links)] ==
            IF i = 0 THEN <<>>
            ELSE IF links[i] \in urls THEN Append(upTo[i - 1], links[i])
            ELSE upTo[i - 1]
    IN  upTo[Len(links)]

\* Mutant: new links are taken first.
FetchPageDepthFirst ==
    LET url == Head(queue) IN
    /\ Take
    /\ "malformed" \notin Range(LinksOn(url))
    /\ Continue("crawl", "crawl", {}, {"crawl"})
    /\ pages' = Append(pages, url)
    /\ queue' = Among(LinksOn(url), site.host \ visited') \o Tail(queue)
    /\ UNCHANGED <<site, next, lost, unanswered>>

(* A page; its links on the host wait behind those of earlier pages.         *)
FetchPage ==
    LET url == Head(queue) IN
    /\ Take
    /\ "malformed" \notin Range(LinksOn(url))
    /\ Continue("crawl", "crawl", {}, {"crawl"})
    /\ pages' = Append(pages, url)
    /\ queue' = Tail(queue) \o Among(LinksOn(url), site.host \ visited')
    /\ UNCHANGED <<site, next, lost, unanswered>>

(* A page with a link that cannot be parsed: the ValueError leaves _crawl,   *)
(* and _deep_web_assessment passes over it; no page is looked at.            *)
FetchUnparsable ==
    /\ Take
    /\ "malformed" \in Range(LinksOn(Head(queue)))
    /\ Continue("crawl", "return", {}, {"crawl"})
    /\ lost' = TRUE
    /\ UNCHANGED <<site, queue, pages, next, unanswered>>

(* The headers of the first page.                                            *)
EndCrawl ==
    /\ ~Crawling
    /\ Continue("crawl", "pages",
                IF pages # <<>> /\ Head(pages) \in site.bare THEN {<<"headers", Head(pages)>>} ELSE {}, {})
    /\ UNCHANGED web

(***************************************************************************)
(* The checks of each page                                                 *)
(***************************************************************************)

Page == pages[next]
Inspecting == next <= Len(pages)

(* Forms without a token; without query parameters there is no more to ask.  *)
CheckForms ==
    /\ Inspecting
    /\ Continue("pages", IF Page \in site.query THEN "reflection" ELSE "pages",
                {<<"form", Page>> : m \in site.flaws[Page] \cap {"form"}}, {})
    /\ next' = IF Page \in site.query THEN next ELSE next + 1
    /\ UNCHANGED <<site, crawl, unanswered>>

(* The page is asked for again with another value for its parameters; if the *)
(* request fails, nothing is said.                                           *)
Probe(stage, to, flaw) ==
    \/ /\ Continue(stage, to, {<<m, Page>> : m \in site.flaws[Page] \cap {flaw}}, {"probe"})
       /\ UNCHANGED unanswered
    \/ /\ Continue(stage, to, {}, {"probe"})
       /\ unanswered' = unanswered \cup {<<flaw, Page>>}

\* Mutant: one except around both probes.
CheckReflectionLeaving ==
    \/ /\ Continue("reflection", "errors",
                   {<<m, Page>> : m \in site.flaws[Page] \cap {"reflects"}}, {"probe"})
       /\ UNCHANGED web
    \/ /\ Continue("reflection", "pages", {}, {"probe"})
       /\ unanswered' = unanswered \cup {<<"reflects", Page>>}
       /\ next' = next + 1
       /\ UNCHANGED <<site, crawl>>

CheckReflection ==
    /\ Probe("reflection", "errors", "reflects")
    /\ UNCHANGED <<site, crawl, next>>

CheckErrors ==
    /\ Probe("errors", "pages", "sql_error")
    /\ next' = next + 1
    /\ UNCHANGED <<site, crawl>>

EndPages ==
    /\ ~Inspecting
    /\ Continue("pages", "return", {}, {})
    /\ UNCHANGED web

StepWeb ==
    \/ ValidateTarget \/ ScanPorts \/ CheckWebServer \/ DeepAssessment
    \/ SkipVisited \/ FetchFails \/ FetchPage \/ FetchUnparsable \/ EndCrawl
    \/ CheckForms \/ CheckReflection \/ CheckErrors \/ EndPages

-----------------------------------------------------------------------------
(* Properties                                                              *)

(* The reference for the crawl: the URLs within n links of the target, along *)
(* pages that were got.                                                      *)
Within[n \in Nat] ==
    IF n = 0 THEN {Home}
    ELSE Within[n - 1] \cup
         UNION {Range(LinksOn(u)) \cap site.host : u \in Within[n - 1] \cap Range(pages)}

Distance(url) == Min({n \in 0 .. Cardinality(Urls) : url \in Within[n]})

\* "Breadth-first, same-origin crawl of GET-able pages (read-only, capped)": no
\* URL is requested twice, none that is not on the target's host or not linked
\* from a page that was got, nearer ones come first whichever requests fail, and
\* a crawl that ends below its cap has requested all there are, unless a link
\* could not be parsed.
CrawlIsBreadthFirst ==
    /\ IsInjective(crawled)
    /\ Len(pages) <= MaxCrawlPages
    /\ Range(crawled) \subseteq Within[Cardinality(Urls)]
    /\ \A i, j \in DOMAIN crawled : i < j => Distance(crawled[i]) <= Distance(crawled[j])
    /\ at \in {"pages", "done"} /\ crawled # <<>> =>
          lost \/ Len(pages) = MaxCrawlPages \/ Within[Cardinality(Urls)] \subseteq Range(crawled)

\* The assessment of a URL is told to be skipped, or the crawl has asked for the
\* target and every page it has got was looked at: what the forms and the probes
\* of a page show is reported, probe by probe, unless that probe failed.  Nothing
\* is said of requests that fail, nor of a crawl that is lost to one link.
CrawlIsReported ==
    agent = "black_box" /\ at = "done" /\ "connect" \in sent /\ site.isUrl =>
        /\ ~authorized => <<"skipped", "target">> \in findings
        /\ authorized => crawled # <<>> /\ Head(crawled) = Home
        /\ authorized /\ ~lost =>
               \A u \in Range(pages) :
                   /\ "form" \in site.flaws[u] => <<"form", u>> \in findings
                   /\ u \in site.query =>
                          \A m \in site.flaws[u] \cap {"reflects", "sql_error"} :
                              <<m, u>> \in findings \cup unanswered
=============================================================================
