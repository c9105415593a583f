----------------------------- MODULE Catalogue -----------------------------
(***************************************************************************)
(* What readers are shown of a state of the catalogue: the lists           *)
(* (domain/listings.js), the gate and the views (domain/publication.js),   *)
(* the sitemaps (http/discovery.js) and the public pages (http/pages.js).  *)
(*                                                                         *)
(* A catalogue d gives each offer the columns that change; what does not   *)
(* change here is a constant.  An offer has one observation of its own,    *)
(* from one source; the group's latest is the newest of its members'.      *)
(* Stated ends lie beyond the clock, so no offer is overdue.  Two offers   *)
(* may be posted in the same millisecond: most lists then go by the row's  *)
(* number (seq), but those of a store, a seller and a search, a product's  *)
(* and the sitemap's rows are ordered by the time alone, and each query    *)
(* has an order of its own between two that tie.                           *)
(***************************************************************************)
EXTENDS Integers, Sequences, FiniteSets, Functions, MergeForest

CONSTANTS
    Offers,
    Facts,       \* offer -> [born, seq, ends, price, cur, store, seller, category, product]
    Scores,      \* the values hot_latest takes
    FreshFor,    \* config.freshnessMs in ticks
    Under,       \* the front page's price limit and its currency: [amount, cur]
    PerPage, HomeCards, ChunkMax,
    MapMax,      \* rows of a sitemap's query
    None

ASSUME CatalogueAssumption ==
    /\ IsFiniteSet(Offers) /\ None \notin Offers /\ None \notin Seq(Offers)
    /\ FreshFor \in Nat /\ PerPage \in Nat \ {0} /\ HomeCards \in Nat \ {0} /\ ChunkMax \in Nat \ {0}
    /\ MapMax \in Nat \ {0} /\ Scores \subseteq Int
    /\ Under.amount \in Nat
    /\ \A o \in Offers :
         /\ Facts[o].born \in Nat /\ Facts[o].seq \in Nat /\ Facts[o].ends \in Nat
         /\ Facts[o].price \in Nat /\ Facts[o].cur \in Nat
         /\ \A x \in Offers : Facts[x].seq = Facts[o].seq => x = o

NoPrice == 0
NoCurrency == 0       \* currencies are numbered in their alphabet's order
Never   == 0          \* no stated end

\* age: ticks since the offer's own observation, FreshFor + 1 for any longer;
\* live: its source is there.
Row == [status : {"active", "expired", "disabled"}, into : Offers \cup {None},
        pending : BOOLEAN, seen : BOOLEAN, age : 0 .. FreshFor + 1, live : BOOLEAN,
        hot : Scores, pick : BOOLEAN]

Into(d)     == [o \in Offers |-> d[o].into]
RootOf(d, o) == CHOOSE r \in Roots(Into(d), o) : TRUE
Canonical(d, o) == d[o].into = None
Active(d, o)    == Canonical(d, o) /\ d[o].status = "active"
Listed(d, o)    == Canonical(d, o) /\ d[o].status # "disabled"

-----------------------------------------------------------------------------
(* Lists.                                                                  *)

\* S in the order of op, which ties no two of them: each has the place that
\* those before it leave.
ByPlace(S, places) == [n \in 1 .. Cardinality(S) |-> CHOOSE x \in S : <<x, n>> \in places]
Sorted(S, op(_, _)) == ByPlace(S, {<<x, Cardinality({y \in S : op(y, x)}) + 1>> : x \in S})
\* What is left of a list: its entries that are in T, in their order.
Only(s, T) ==
    LET at == Sorted({n \in DOMAIN s : s[n] \in T}, LAMBDA m, n : m < n)
    IN  [n \in DOMAIN at |-> s[at[n]]]
FirstOf(s, n) == SubSeq(s, 1, IF Len(s) < n THEN Len(s) ELSE n)

\* The orders a query may put offers in that were posted together.
Ties == {t \in [Offers -> 1 .. Cardinality(Offers)] : IsInjective(t)}
LaterBy(tie, a, b) ==
    \/ Facts[a].born > Facts[b].born
    \/ Facts[a].born = Facts[b].born /\ tie[a] > tie[b]
BySeq == [o \in Offers |-> Facts[o].seq]
Later(a, b) == LaterBy(BySeq, a, b)
Newest(S)   == Sorted(S, Later)
Actives(d)  == {o \in Offers : Active(d, o)}

HotThenNewest(d, a, b) ==
    \/ d[a].hot > d[b].hot
    \/ d[a].hot = d[b].hot /\ Later(a, b)
ActiveThenNewest(d, tie, a, b) ==
    \/ d[a].status = "active" /\ d[b].status # "active"
    \/ (d[a].status = "active") = (d[b].status = "active") /\ LaterBy(tie, a, b)

Hot(d)     == Sorted(Actives(d), LAMBDA a, b : HotThenNewest(d, a, b))
New(d)     == Newest(Actives(d))
Picks(d)   == Newest({o \in Actives(d) : d[o].pick})
Upvoted(d) == Sorted({o \in Actives(d) : d[o].hot > 0}, LAMBDA a, b : HotThenNewest(d, a, b))
Ending(d)  == Sorted({o \in Actives(d) : Facts[o].ends # Never},
                     LAMBDA a, b : Facts[a].ends < Facts[b].ends
                                   \/ (Facts[a].ends = Facts[b].ends /\ Facts[a].seq < Facts[b].seq))
\* By the offer's own latest observation, its source there or not.
UnderLimit(d) ==
    Newest({o \in Actives(d) : d[o].seen /\ Facts[o].price # NoPrice
                /\ Facts[o].price <= Under.amount /\ Facts[o].cur = Under.cur
                /\ d[o].age < FreshFor})
OfStore(d, s, tie)  == Sorted({o \in Offers : Listed(d, o) /\ Facts[o].store = s},
                              LAMBDA a, b : ActiveThenNewest(d, tie, a, b))
OfSeller(d, s, tie) == Sorted({o \in Offers : Listed(d, o) /\ Facts[o].seller = s},
                              LAMBDA a, b : ActiveThenNewest(d, tie, a, b))
OfCategory(d, c) == Newest({o \in Actives(d) : Facts[o].category = c})
\* A search whose words fit every offer.
Found(d, expired, tie) == Sorted({o \in Offers : IF expired THEN Listed(d, o) ELSE Active(d, o)},
                                 LAMBDA a, b : LaterBy(tie, a, b))
Sellers(d)    == {Facts[o].seller : o \in {x \in Offers : Listed(d, x)}} \ {None}
Categories(d) == {Facts[o].category : o \in Actives(d)} \ {None}

\* The list at a path, in the order a query for a page of it has them.
ListOf(d, path, tie) ==
    CASE path[1] = "/hot"    -> Hot(d)
      [] path[1] = "/new"    -> New(d)
      [] path[1] = "/ending" -> Ending(d)
      [] path[1] = "/picks"  -> Picks(d)
      [] path[1] = "/c"      -> OfCategory(d, path[2])
      [] path[1] = "/at"     -> OfSeller(d, path[2], tie)
      [] path[1] = "/s"      -> OfStore(d, path[2], tie)
      [] path[1] = "/search" -> Found(d, path[2] = "expired too", tie)
ListPaths(d) ==
    {<<p, "">> : p \in {"/hot", "/new", "/ending", "/picks"}} \cup {<<"/c", c>> : c \in Categories(d)}
    \cup {<<"/at", s>> : s \in Sellers(d)} \cup {<<"/s", Facts[o].store>> : o \in Offers}
    \cup {<<"/search", "">>, <<"/search", "expired too">>}
\* The query at a path says nothing of the order of a and b.
Tied(d, path, a, b) ==
    /\ path[1] \in {"/at", "/s", "/search"} /\ a # b
    /\ Facts[a].born = Facts[b].born
    /\ path[1] # "/search" => (d[a].status = "active") = (d[b].status = "active")

-----------------------------------------------------------------------------
(* The gate and the views.                                                 *)

\* reads.latestObservation: the newest of the group's, of sources that are there.
NoObs == [of |-> None, age |-> FreshFor + 1]
Latest(d, r) ==
    LET S == {o \in Group(Into(d), r) : d[o].seen /\ d[o].live}
    IN  IF S = {} THEN NoObs
        ELSE LET o == CHOOSE x \in S : \A y \in S \ {x} :
                          d[x].age < d[y].age \/ (d[x].age = d[y].age /\ Later(x, y))
             IN  [of |-> o, age |-> d[o].age]
IsFresh(l) == l.of # None /\ l.age <= FreshFor
PriceOf(l) == IF l.of = None THEN NoPrice ELSE Facts[l.of].price
CurOf(l)   == IF l.of = None THEN NoCurrency ELSE Facts[l.of].cur

\* decideOffer.
OfferIndexable(row, l) == row.status = "active" /\ ~row.pending /\ IsFresh(l)

\* A disabled offer is gone, the rest are shown with the gate's decision.
OfferPage(d, o) ==
    IF d[o].status = "disabled" THEN [status |-> 410, to |-> o, indexable |-> FALSE]
    ELSE [status |-> 200, to |-> o, indexable |-> OfferIndexable(d[o], Latest(d, o))]
\* GET /d/:slug: a merged listing redirects to the offer it belongs to.
OfferAnswer(d, o) ==
    IF d[o].into # None THEN [status |-> 301, to |-> RootOf(d, o), indexable |-> FALSE]
    ELSE OfferPage(d, o)

\* productView: fresh offers with a price by currency and price, then fresh
\* ones without, then stale ones, then those that are over; newest first.
RankByPrice(row, l) ==
    IF row.status # "active" THEN 4 ELSE IF PriceOf(l) # NoPrice THEN 1 ELSE 2
Rank(row, l) ==
    CASE row.status # "active"                   -> 4
      [] row.status = "active" /\ ~IsFresh(l)    -> 3
      [] row.status = "active" /\ IsFresh(l)     ->
            IF PriceOf(l) # NoPrice /\ CurOf(l) # NoCurrency THEN 1 ELSE 2
Cheaper(v, w) == v.cur < w.cur \/ (v.cur = w.cur /\ v.price < w.price)
Before(tie, v, w) ==
    \/ v.rank < w.rank
    \/ v.rank = w.rank /\ v.rank = 1 /\ Cheaper(v, w)
    \/ v.rank = w.rank /\ ~(v.rank = 1 /\ (Cheaper(v, w) \/ Cheaper(w, v))) /\ LaterBy(tie, v.at, w.at)
View(row, o, l) == [at |-> o, rank |-> Rank(row, l), cur |-> CurOf(l), price |-> PriceOf(l)]
Compared(d, p) == {o \in Offers : Listed(d, o) /\ Facts[o].product = p}
ProductPage(d, p, tie) ==
    LET views == {View(d[o], o, Latest(d, o)) : o \in Compared(d, p)}
    IN  [offers |-> Sorted(views, LAMBDA v, w : Before(tie, v, w)), indexable |-> \E v \in views : v.rank < 3]

-----------------------------------------------------------------------------
(* Sitemaps.                                                               *)

\* The rows of the offers' query: the newest there is room for.
OfferRows(d) ==
    {FirstOf(Sorted({o \in Offers : Listed(d, o)}, LAMBDA a, b : LaterBy(tie, a, b)), MapMax) : tie \in Ties}
\* indexEntry of each.
OfferEntries(rows, d) ==
    [n \in DOMAIN rows |-> [at |-> rows[n], indexable |-> OfferIndexable(d[rows[n]], Latest(d, rows[n]))]]

\* productIndexEntry: the newest observation of a group, over the product's
\* offers that are active.
Products(d) == {Facts[o].product : o \in {x \in Offers : Listed(d, x)}} \ {None}
ProductEntryOfAny(d, p) == [at |-> p, indexable |-> \E o \in Compared(d, p) : IsFresh(Latest(d, o))]
ProductEntry(d, p) ==
    LET ages == {Latest(d, o).age : o \in {x \in Compared(d, p) : d[x].status = "active"
                                                                  /\ Latest(d, x).of # None}}
    IN  [at |-> p, indexable |-> \E a \in ages : a <= FreshFor /\ \A b \in ages : a <= b]

\* The rows of the products' query: as many as there is room for, in no order.
ProductRows(d) ==
    LET n == Cardinality(Products(d))
    IN  {s \in [1 .. (IF n < MapMax THEN n ELSE MapMax) -> Products(d)] : IsInjective(s)}

Indexable(entries) == Only(entries, {e \in Range(entries) : e.indexable})

\* catalogEntries: the offers crawlers may index, then the products.
CatalogEntries(d, rows, products) ==
    Indexable(OfferEntries(rows, d)) \o Indexable([n \in DOMAIN products |-> ProductEntry(d, products[n])])

\* The catalogue in files of ChunkMax URLs; an empty one has one empty file.
Chunks(s) ==
    LET n == IF s = <<>> THEN 1 ELSE (Len(s) + ChunkMax - 1) \div ChunkMax
    IN  [i \in 1 .. n |->
            SubSeq(s, (i - 1) * ChunkMax + 1, IF i * ChunkMax < Len(s) THEN i * ChunkMax ELSE Len(s))]

\* pageEntries: the lists that have something to show.
Top(path) == <<path, "">>
PageEntries(d) ==
    {Top("/crowdfunding")}
    \cup (IF Actives(d) = {} THEN {} ELSE {Top("/"), Top("/hot"), Top("/new")})
    \cup (IF Ending(d) = <<>> THEN {} ELSE {Top("/ending")})
    \cup (IF Picks(d) = <<>> THEN {} ELSE {Top("/picks")})
    \cup {<<"/c", c>> : c \in Categories(d)} \cup {<<"/at", s>> : s \in Sellers(d)}
    \cup (IF Categories(d) = {} THEN {} ELSE {Top("/c")})
    \cup (IF Sellers(d) = {} THEN {} ELSE {Top("/at")})

-----------------------------------------------------------------------------
(* Pages of lists.                                                         *)

WindowFromZero(s, n) ==
    SubSeq(s, n * PerPage + 1, IF (n + 1) * PerPage < Len(s) THEN (n + 1) * PerPage ELSE Len(s))
\* The rows of page n, as LIMIT and OFFSET take them.
Window(s, n) ==
    SubSeq(s, (n - 1) * PerPage + 1, IF n * PerPage < Len(s) THEN n * PerPage ELSE Len(s))
\* Page n of a list, None past its end; of an empty list, an empty page.
PageOf(s, n) ==
    LET last == (Len(s) + PerPage - 1) \div PerPage
    IN  IF n > last /\ s # <<>> THEN None ELSE Window(s, n)

ListPage(d, kind, n)       == PageOf(ListOf(d, <<kind, "">>, BySeq), n)
StorePage(d, st, n, tie)   == IF st \in {Facts[o].store : o \in Offers} THEN PageOf(OfStore(d, st, tie), n) ELSE None
SellerPage(d, s, n, tie)   == IF s \in Sellers(d) THEN PageOf(OfSeller(d, s, tie), n) ELSE None
CategoryPage(d, c, n)      == IF c \in Categories(d) THEN PageOf(OfCategory(d, c), n) ELSE None
\* Past the end of what is found, an empty page.
SearchPage(d, also, n, tie) == Window(ListOf(d, <<"/search", also>>, tie), n)
\* Page n of the list at a path, as a query that orders ties by tie has it.
PageAt(d, path, n, tie) ==
    CASE path[1] = "/s"  -> StorePage(d, path[2], n, tie)
      [] path[1] = "/at" -> SellerPage(d, path[2], n, tie)
      [] path[1] = "/c"  -> CategoryPage(d, path[2], n)
      [] path[1] = "/search" -> SearchPage(d, path[2], n, tie)
      [] OTHER -> ListPage(d, path[1], n)

-----------------------------------------------------------------------------
(* Pages made of several queries: seen are the catalogues there were while *)
(* they ran, from the first on, and each query reads one of them.          *)

\* What S may come to if each member is judged by a verdict of its own.
Judged(S, verdicts) == {T \in SUBSET S : \A o \in S : \E V \in verdicts : o \in T <=> o \in V}

TakeAgain(rows, skip) == FirstOf(rows, HomeCards)
\* The first HomeCards rows of those that are not skipped.
Take(rows, skip) == FirstOf(Only(rows, Offers \ skip), HomeCards)

\* homePage: the candidates' cards dealt out in order, the cheap ones last.
Home(rows, cheap) ==
    LET picks   == Take(rows.picks, {})
        upvoted == Take(rows.upvoted, Range(picks))
        top     == Range(picks) \cup Range(upvoted)
        latest  == Take(rows.latest, top)
        ending  == Take(rows.ending, top)
        shown   == top \cup Range(latest) \cup Range(ending)
        under   == Take(Only(rows.under, cheap), shown)
    IN  [picks |-> picks, upvoted |-> upvoted, latest |-> latest, ending |-> ending, under |-> under]

\* Its five queries run side by side, all of them done at the m-th moment, ...
HomeRows(seen, m) ==
    [picks   : {FirstOf(Picks(seen[k]), 2 * HomeCards) : k \in 1 .. m},
     upvoted : {FirstOf(Upvoted(seen[k]), 2 * HomeCards) : k \in 1 .. m},
     latest  : {FirstOf(New(seen[k]), 3 * HomeCards) : k \in 1 .. m},
     ending  : {FirstOf(Ending(seen[k]), 2 * HomeCards) : k \in 1 .. m},
     under   : {FirstOf(UnderLimit(seen[k]), 4 * HomeCards) : k \in 1 .. m}]
\* ... and the cards are read after them.
Cheap(d, o) ==
    LET l == Latest(d, o) IN IsFresh(l) /\ Facts[l.of].cur = Under.cur /\ PriceOf(l) <= Under.amount
HomePages(seen) ==
    UNION {{Home(rows, cheap) : rows \in HomeRows(seen, m),
                cheap \in Judged(Offers, {{o \in Offers : Cheap(seen[j], o)} : j \in m .. Len(seen)})}
             : m \in DOMAIN seen}

\* The offers the sitemap names: the rows first, then an entry for each.
Mapped(seen) ==
    UNION {UNION {Judged(Range(rows), {{o \in Offers : OfferIndexable(seen[k][o], Latest(seen[j], o))}
                                         : j \in k .. Len(seen)})
                    : rows \in OfferRows(seen[k])} : k \in DOMAIN seen}
=============================================================================
