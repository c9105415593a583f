------------------------------- MODULE Site -------------------------------
(***************************************************************************)
(* Readers of the site against the builds they share.  The front page and  *)
(* the first page of /hot come from ttl caches (http/ttl-cache.js) that the *)
(* worker keeps warm (worker.js warmNow); the sitemap's entries come from  *)
(* a shared build with no limit to its age (http/discovery.js shared).  A  *)
(* build is many queries, the rows of its lists and then what each row     *)
(* shows, and the catalogue may change between any two of them.  Builds    *)
(* fail, the process restarts and loses every copy, and time passes        *)
(* whatever runs.                                                          *)
(***************************************************************************)
EXTENDS Catalogue

CONSTANTS
    Catalogues,  \* the catalogues a behaviour may start from
    Warmed,      \* the ttl caches in the order warmNow rebuilds them
    Followed,    \* sets of caches: a behaviour is about the caches of one set,
                 \* since a ttl cache and the sitemap's have no state in common
    HomeTtl, SitemapTtl, MaxStale,    \* in ticks; 0 turns a cache off
    MaxBuild,    \* ticks a build may take
    MaxChanges,  \* bound: set of caches -> changes of the catalogue in a behaviour
    MaxFaults    \* bound: failed builds and restarts in a behaviour

ASSUME SiteAssumption ==
    /\ HomeTtl \in Nat /\ SitemapTtl \in Nat /\ MaxStale \in Nat \ {0} /\ MaxBuild \in Nat
    /\ MaxFaults \in Nat /\ MaxChanges \in [Followed -> Nat]
    /\ Warmed \in Seq({"home", "hot"}) /\ \A cs \in Followed : cs \subseteq {"home", "hot", "sitemap"}
    /\ \A m, n \in DOMAIN Warmed : Warmed[m] = Warmed[n] => m = n
    /\ Catalogues \subseteq [Offers -> Row]
    /\ None \notin [shows : SUBSET Offers, took : Nat]

VARIABLES
    d,           \* the catalogue
    gone,        \* offer -> ticks since it left the lists, GoneCap for any longer
    cache,       \* cache -> [page, age, build]
    waiting,     \* caches some reader waits for
    warmer,      \* caches a running warmNow waits for
    warmIn,      \* ticks until the warm timer fires
    toWarm,      \* the sitemap's one warm after start has not fired yet
    failed,      \* history: caches a build of which has failed since the start
    changes, faults

vars == <<d, gone, cache, waiting, warmer, warmIn, toWarm, failed, changes, faults>>

Caches  == DOMAIN cache
\* The cache warmNow goes on with after the n-th, in a set; the first after none.
NextOf(n) ==
    {Warmed[m] : m \in {k \in n + 1 .. Len(Warmed) : Warmed[k] \in Caches
                                                     /\ \A j \in n + 1 .. k - 1 : Warmed[j] \notin Caches}}
GoneCap == MaxStale + MaxBuild
TtlOf(c) == IF c = "sitemap" THEN SitemapTtl ELSE HomeTtl
AgeCap(c) == IF c = "sitemap" THEN SitemapTtl ELSE MaxStale

NoBuild == [seen |-> <<>>, took |-> 0]
Cold    == [page |-> None, age |-> 0, build |-> NoBuild]
Running(c) == cache[c].build.seen # <<>>

\* warmEveryMs: three quarters of the shortest window, a tick at least.
WarmEveryStale == MaxStale + HomeTtl
WarmEvery == LET n == (HomeTtl * 3) \div 4 IN IF n = 0 THEN 1 ELSE n

Init ==
    /\ d \in Catalogues
    /\ gone = [o \in Offers |-> IF Listed(d, o) THEN 0 ELSE GoneCap]
    /\ \E cs \in Followed : cache = [c \in cs |-> Cold]
    /\ waiting = {}
    /\ warmer = {}
    /\ warmIn = 0
    /\ toWarm = TRUE
    /\ failed = {}
    /\ changes = 0 /\ faults = 0

-----------------------------------------------------------------------------
(* Builds.                                                                 *)

BegunOnceWarm(cs) ==
    [c \in Caches |-> IF c \in cs /\ ~Running(c) /\ cache[c].page # None
                      THEN [cache[c] EXCEPT !.build = [seen |-> <<d>>, took |-> 0]] ELSE cache[c]]
\* The builds of cs that do not run already begin to read.
Begun(cs) ==
    [c \in Caches |-> IF c \in cs /\ ~Running(c)
                      THEN [cache[c] EXCEPT !.build = [seen |-> <<d>>, took |-> 0]] ELSE cache[c]]

\* Running build b when the catalogue turns into new.  The front page's clock
\* stands since its build began (pages.js homePage), an entry's does not.
Sees(b, new) ==
    LET last == b.seen[Len(b.seen)]
        now  == [o \in Offers |-> [new[o] EXCEPT !.age = IF @ = d[o].age THEN last[o].age ELSE @]]
    IN  [b EXCEPT !.seen = IF now = last THEN @ ELSE Append(@, now)]

\* The offers that a page of c made of the catalogues seen may show.
Contents(c, seen) ==
    CASE c = "home" -> {UNION {Range(h[s]) : s \in DOMAIN h} : h \in HomePages(seen)}
      [] c = "hot"  -> {Range(ListPage(seen[k], "/hot", 1)) : k \in DOMAIN seen}
      [] c = "sitemap" -> Mapped(seen)

\* The pages the build of c may make if it ends now.
Made(c) == [shows : Contents(c, cache[c].build.seen), took : {cache[c].build.took}]

\* The build of c ends: its readers and warmNow go on, with it or without.
Ended(c) == NoBuild
Released(c) == IF c \in warmer THEN UNION {NextOf(n) : n \in {k \in DOMAIN Warmed : Warmed[k] = c}} ELSE {}

FinishBuild(c) ==
    /\ Running(c)
    /\ \E page \in Made(c) :
         cache' = [Begun(Released(c)) EXCEPT ![c] = [page |-> page, age |-> 0, build |-> Ended(c)]]
    /\ waiting' = waiting \ {c}
    /\ warmer' = (warmer \ {c}) \cup Released(c)
    /\ UNCHANGED <<d, gone, warmIn, toWarm, failed, changes, faults>>

\* The copy there is stays; the readers who waited get the error page.
FailBuild(c) ==
    /\ Running(c) /\ faults < MaxFaults
    /\ cache' = [Begun(Released(c)) EXCEPT ![c].build = Ended(c)]
    /\ waiting' = waiting \ {c}
    /\ warmer' = (warmer \ {c}) \cup Released(c)
    /\ failed' = failed \cup {c}
    /\ faults' = faults + 1
    /\ UNCHANGED <<d, gone, warmIn, toWarm, changes>>

-----------------------------------------------------------------------------
(* Readers.                                                                *)

\* ttlCache.read and shared's get: the copy is answered with, however old in
\* the sitemap's case, ...
KeptForever(c) == cache[c].page # None /\ TtlOf(c) > 0
Kept(c) == cache[c].page # None /\ TtlOf(c) > 0 /\ (c = "sitemap" \/ cache[c].age < MaxStale)
\* ... and past its window a rebuild starts behind it.
PastAfterFailure(c) == cache[c].age >= TtlOf(c) /\ c \notin failed
Past(c) == cache[c].age >= TtlOf(c)

ReadCopy(c) ==
    /\ Kept(c)
    /\ cache' = IF Past(c) THEN Begun({c}) ELSE cache
    /\ UNCHANGED <<d, gone, waiting, warmer, warmIn, toWarm, failed, changes, faults>>

ReadWaits(c) ==
    /\ ~Kept(c) /\ c \notin waiting
    /\ cache' = Begun({c})
    /\ waiting' = waiting \cup {c}
    /\ UNCHANGED <<d, gone, warmer, warmIn, toWarm, failed, changes, faults>>

-----------------------------------------------------------------------------
(* Timers.                                                                 *)

Warming == HomeTtl > 0 /\ NextOf(0) # {}

WarmNow ==
    /\ Warming /\ warmIn = 0
    /\ warmIn' = WarmEvery
    /\ warmer' = warmer \cup NextOf(0)
    /\ cache' = Begun(NextOf(0))
    /\ UNCHANGED <<d, gone, waiting, toWarm, failed, changes, faults>>

WarmSitemap ==
    /\ toWarm /\ "sitemap" \in Caches
    /\ toWarm' = FALSE
    /\ cache' = Begun({"sitemap"})
    /\ UNCHANGED <<d, gone, waiting, warmer, warmIn, failed, changes, faults>>

OlderForever(n, cap) == n + 1
Older(n, cap) == IF n < cap THEN n + 1 ELSE n

\* The timer fires when it is due, and a build takes MaxBuild ticks at most.
Tick ==
    /\ Warming => warmIn > 0
    /\ \A c \in Caches : Running(c) => cache[c].build.took < MaxBuild
    /\ d' = [o \in Offers |-> [d[o] EXCEPT !.age = Older(@, FreshFor + 1)]]
    /\ gone' = [o \in Offers |-> IF Listed(d, o) THEN 0 ELSE Older(gone[o], GoneCap)]
    /\ cache' = [c \in Caches |->
          [page |-> cache[c].page,
           age |-> IF cache[c].page = None THEN 0 ELSE Older(cache[c].age, AgeCap(c)),
           build |-> IF ~Running(c) THEN NoBuild
                     ELSE [(IF c = "sitemap" THEN Sees(cache[c].build, d') ELSE cache[c].build) EXCEPT !.took = @ + 1]]]
    /\ warmIn' = IF warmIn > 0 THEN warmIn - 1 ELSE 0
    /\ UNCHANGED <<waiting, warmer, toWarm, failed, changes, faults>>

\* A deploy: the copies are lost, and the readers who wait are sent away.
Restart ==
    /\ faults < MaxFaults
    /\ cache' = [c \in Caches |-> Cold]
    /\ waiting' = {}
    /\ warmer' = {}
    /\ warmIn' = 0
    /\ toWarm' = TRUE
    /\ failed' = {}
    /\ faults' = faults + 1
    /\ UNCHANGED <<d, gone, changes>>

-----------------------------------------------------------------------------
(* Moderators, people and the importer.                                    *)

Change(new) ==
    /\ changes < MaxChanges[Caches]
    /\ new # d
    /\ d' = new
    /\ gone' = [o \in Offers |-> IF Listed(new, o) THEN 0 ELSE gone[o]]
    /\ cache' = [c \in Caches |-> IF Running(c) THEN [cache[c] EXCEPT !.build = Sees(@, new)] ELSE cache[c]]
    /\ changes' = changes + 1
    /\ UNCHANGED <<waiting, warmer, warmIn, toWarm, failed, faults>>

Disable(o) == Listed(d, o) /\ Change([d EXCEPT ![o].status = "disabled"])
Expire(o)  == Active(d, o) /\ Change([d EXCEPT ![o].status = "expired"])
Approve(o) == Canonical(d, o) /\ Change([d EXCEPT ![o].pending = FALSE])
Observe(o) == Canonical(d, o) /\ Change([d EXCEPT ![o].seen = TRUE, ![o].age = 0])
RemoveSource(o) == d[o].live /\ Change([d EXCEPT ![o].live = FALSE])
\* The source's editors pick it or think again (a re-import's applyLabels).
Label(o) == \E pick \in BOOLEAN : Change([d EXCEPT ![o].pick = pick])
\* A snapshot of its hotness: votes and time move it any way.
Snapshot(o) == Active(d, o) /\ \E hot \in Scores : Change([d EXCEPT ![o].hot = hot])
\* Groups change, and so do the snapshots taken with the change.
Merge(o, into) ==
    /\ o # into /\ Listed(d, o) /\ Listed(d, into)
    /\ \E hot \in Scores : Change([d EXCEPT ![o].into = into, ![into].hot = hot])
Unmerge(o) ==
    /\ ~Canonical(d, o)
    /\ \E own, hot \in Scores :
         Change([d EXCEPT ![o].into = None, ![o].hot = own, ![RootOf(d, o)].hot = hot])

Next ==
    \/ \E c \in Caches : FinishBuild(c) \/ FailBuild(c) \/ ReadCopy(c) \/ ReadWaits(c)
    \/ WarmNow \/ WarmSitemap \/ Tick \/ Restart
    \/ \E o \in Offers :
         \/ Disable(o) \/ Expire(o) \/ Approve(o) \/ Unmerge(o) \/ Observe(o) \/ RemoveSource(o)
         \/ Label(o) \/ Snapshot(o)
         \/ \E into \in Offers : Merge(o, into)

Spec == Init /\ [][Next]_vars

\* Every query ends, time passes, and crawlers keep asking for the sitemap.
Asked == "sitemap" \in Caches /\ (ReadCopy("sitemap") \/ ReadWaits("sitemap"))
Fairness ==
    /\ \A c \in Range(Warmed) \cup {"sitemap"} : []<>(c \in Caches => ~Running(c))
    /\ WF_vars(Tick) /\ WF_vars(WarmNow) /\ WF_vars(Asked)
FairSpec == Spec /\ Fairness
-----------------------------------------------------------------------------
(* Correctness.                                                            *)

\* Every variable holds a value of its type (the one shape check).
Pages  == [shows : SUBSET Offers, took : 0 .. MaxBuild]
Builds == [seen : Seq([Offers -> Row]), took : 0 .. MaxBuild]
TypeOK ==
    /\ d \in [Offers -> Row]
    /\ gone \in [Offers -> 0 .. GoneCap]
    /\ Caches \in Followed
    /\ \A c \in Caches : cache[c] \in [page : Pages \cup {None}, age : 0 .. AgeCap(c), build : Builds]
    /\ waiting \subseteq Caches /\ warmer \subseteq Caches /\ failed \subseteq Caches
    /\ warmIn \in 0 .. WarmEvery /\ toWarm \in BOOLEAN
    /\ changes \in 0 .. MaxChanges[Caches] /\ faults \in 0 .. MaxFaults

\* What a reader of c may be answered with in this state: the copy, or a page
\* of the build that ends now.
Answers(c) == (IF Kept(c) THEN {cache[c].page} ELSE {}) \cup (IF Running(c) THEN Made(c) ELSE {})

\* A page is at most MaxStale behind the catalogue as it was when its build
\* began to read, through failed builds, restarts and readers who share one:
\* no answer shows a deal that had gone MaxStale before ("a failed rebuild
\* never outlives maxStaleMs", ttl-cache.js 9; the build's own time comes on top).
RemovedSoonGone ==
    \A c \in Caches \ {"sitemap"} : \A page \in Answers(c) : \A o \in page.shows : gone[o] < page.took + MaxStale

\* The list s is spread over pages of a size: the first is there even if s is
\* empty, every entry has its place on one, and nothing else is on any.
Spread(s, pages, size) ==
    /\ 1 \in DOMAIN pages
    /\ \A n \in DOMAIN s : \E p \in DOMAIN pages, i \in 1 .. size : n = (p - 1) * size + i /\ i \in DOMAIN pages[p]
    /\ \A p \in DOMAIN pages : \A i \in DOMAIN pages[p] :
         LET n == (p - 1) * size + i IN i \in 1 .. size /\ n \in DOMAIN s /\ pages[p][i] = s[n]

Disjoint(h, s, t) == Range(h[s]) \cap Range(h[t]) = {}

\* The front page shows a deal once (only the soon ending may repeat the latest,
\* pages.js 173), in no list twice and in none more than there is room for, though
\* each list is a query of its own and deals are voted up, picked, merged and
\* observed between two of them.
EachDealOnce ==
    "home" \in Caches /\ Running("home") =>
        \A h \in HomePages(cache["home"].build.seen) :
            /\ \A s, t \in DOMAIN h : s # t /\ {s, t} # {"latest", "ending"} => Disjoint(h, s, t)
            /\ \A s \in DOMAIN h : Len(h[s]) <= HomeCards /\ Len(h[s]) = Cardinality(Range(h[s]))

\* Who turns the pages of a list while nothing changes meets a deal on one page,
\* once: each page is a query with an order of its own among deals posted in the
\* same millisecond, and still only those trade places between two pages.
OnPage(o, page) == page # None /\ o \in Range(page)
OnOnePage ==
    \A path \in ListPaths(d) :
        LET lists == {ListOf(d, path, tie) : tie \in Ties}
            pages == [m \in 1 .. Cardinality(Offers) + 1 |-> {PageAt(d, path, m, tie) : tie \in Ties}]
        IN  \A list \in lists : \A o \in Range(list) :
                (\A x \in Range(list) : ~Tied(d, path, o, x)) =>
                    \E n \in DOMAIN pages : \A m \in DOMAIN pages : \A page \in pages[m] :
                        OnPage(o, page) <=> m = n

\* The sitemap against what the site shows.  A product is named when its page
\* calls itself indexable (an entry's one query finds what the page finds from
\* every offer's view); a list it covers, when the list's own query has something
\* to show; an offer whose page calls itself indexable, unless the query had no
\* room for it after as many that are no older; and the files leave no entry out.
\* Not covered: a store's pages, which call themselves indexable too, and searches.
Covered == {"/hot", "/new", "/ending", "/picks", "/c", "/at"}
NoRoomFor(o) == MapMax <= Cardinality({x \in Offers \ {o} : Listed(d, x) /\ Facts[x].born >= Facts[o].born})
SitemapAgrees ==
    /\ \A p \in Products(d), tie \in Ties : ProductEntry(d, p).indexable = ProductPage(d, p, tie).indexable
    /\ \A path \in ListPaths(d), tie \in Ties :
         path[1] \in Covered => (path \in PageEntries(d) <=> ListOf(d, path, tie) # <<>>)
    /\ \A rows \in OfferRows(d), products \in ProductRows(d) :
         LET catalog == CatalogEntries(d, rows, products)
         IN  /\ \A o \in Offers : OfferAnswer(d, o).indexable =>
                  (\E e \in Range(catalog) : e.at = o) \/ NoRoomFor(o)
             /\ Spread(catalog, Chunks(catalog), ChunkMax)

\* "Like store pages, [the shops' pages] are not in the sitemap" (README.md 151).
ShopsLeftOut == \A s \in Sellers(d) : <<"/at", s>> \notin PageEntries(d)

\* In a price comparison nothing stands before a price that holds now but a
\* price that holds now, no dearer in the same currency: an old or unknown one
\* "never sorts as if it were the price now" (publication.js 206).
OldPricesLast ==
    \A p \in Products(d), tie \in Ties :
        LET s == ProductPage(d, p, tie).offers
            holds(v) == d[v.at].status = "active" /\ IsFresh(Latest(d, v.at))
                        /\ v.price # NoPrice /\ v.cur # NoCurrency
        IN  \A i, j \in DOMAIN s : i < j /\ holds(s[j]) =>
                holds(s[i]) /\ (s[i].cur = s[j].cur => s[i].price <= s[j].price)

\* With the worker on and no failure, a visitor never pays for a build once
\* the first is made, even after nobody came for longer than MaxStale.
NobodyPaysTwice ==
    failed = {} => \A c \in Range(Warmed) \cap Caches : cache[c].page # None => c \notin waiting

\* Whoever waits for a build is answered: by it, or sent away by its failure.
WaitersAnswered ==
    \A c \in Range(Warmed) \cup {"sitemap"} : c \in waiting ~> c \notin waiting

\* A deal that has gone for good leaves the sitemap for good, although its list
\* is served however old it is while rebuilds fail.
RemovedLeavesSitemap ==
    \A o \in Offers :
        <>[](~Listed(d, o)) =>
            <>[](\A c \in Caches \cap {"sitemap"} :
                    cache[c].page # None => o \notin cache[c].page.shows)
=============================================================================
