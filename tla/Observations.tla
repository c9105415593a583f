--------------------------- MODULE Observations ---------------------------
(***************************************************************************)
(* Observations and what each one sets off: offers.js recordObservation,   *)
(* the watch matcher (server/domain/watches.js) and the selection of a     *)
(* crawled offer as a deal (price-trend.js).                               *)
(*                                                                         *)
(* Every operator takes a state of the database and gives the state after  *)
(* it, because the code runs them inside a transaction of its caller: the  *)
(* importer's page, its re-confirmation, or a person's request.            *)
(***************************************************************************)
EXTENDS Sequences, MergeForest, PriceTrend

CONSTANTS
    Offers,      \* ids of offers, those that exist and those yet to be made
    Watches,     \* notifying watches (a saved search never notifies)
    WatchOf,     \* watch -> [kind, subject, cur, max]
    Fresh,       \* config.freshnessMs, in ticks of the clock
    None

\* deal_offers: the columns the importer and the matcher read.
NoOffer == [link |-> None, origin |-> "none", status |-> "absent", into |-> None,
            born |-> 0, by |-> None, review |-> "none"]

Into(d)        == [o \in {x \in Offers : d.offer[x].status # "absent"} |-> d.offer[o].into]
RootOf(d, o)   == CHOOSE r \in Roots(Into(d), o) : TRUE
GroupOf(d, r)  == Group(Into(d), r)

\* watches.js matches(): words and product fit; a price watch needs a price
\* stated in its own currency below its limit.
Matches(w, o) ==
    WatchOf[w].kind = "price_below" =>
        o.price # NoPrice /\ o.cur = WatchOf[w].cur /\ o.price < WatchOf[w].max

\* The watches an observation matches, own reports and own offers apart.
Matched(d, o, now) ==
    LET root == d.offer[o.root]
    IN  {w \in Watches :
            /\ root.status = "active"
            /\ now - o.at <= Fresh
            /\ o.by # WatchOf[w].subject
            /\ ~(root.by = WatchOf[w].subject /\ o.origin = "community")
            /\ Matches(w, o)}

\* priorForGroup: notifications of w about the offers now in this group.
Prior(d, w, root) ==
    {i \in DOMAIN d.obs : w \in d.obs[i].told /\ d.obs[i].root \in GroupOf(d, root)}

ToldAtTheSamePrice(d, o, now) ==
    {w \in Matched(d, o, now) :
        IF WatchOf[w].kind = "price_below"
        THEN ~ \E i \in Prior(d, w, o.root) : d.obs[i].cur = o.cur /\ d.obs[i].price < o.price
        ELSE Prior(d, w, o.root) = {}}

\* watches.onObservation: the matched watches that are told.  A word or
\* product watch is told once for a group, a price watch again only of a
\* price below every one it was told of in that currency.
Told(d, o, now) ==
    {w \in Matched(d, o, now) :
        IF WatchOf[w].kind = "price_below"
        THEN ~ \E i \in Prior(d, w, o.root) :
                 /\ d.obs[i].cur = o.cur
                 /\ d.obs[i].price # NoPrice
                 /\ d.obs[i].price <= o.price
        ELSE Prior(d, w, o.root) = {}}

PriceHit(d, o, now) ==
    \E w \in Matched(d, o, now) : WatchOf[w].kind = "price_below"

\* The sources of an offer that are still there: an item's row, or a person.
SourceLive(d, obs) == obs.key = None \/ d.src[obs.key].live

\* recordObservation: the row, the watches told of it and, for a crawled
\* observation, why the offer is now selected as a deal.  The reason belongs
\* to the offer; it is kept with the observation that decided it.
Record(d, o, now) ==
    LET told    == [o EXCEPT !.told = Told(d, o, now)]
        history == Append(d.obs, told)
        own     == {n \in DOMAIN history :
                       history[n].offer = o.offer /\ SourceLive(d, history[n])}
    IN  [d EXCEPT !.obs = Append(@,
            IF o.origin = "community" THEN told
            ELSE [told EXCEPT !.reason = DealReason(history, own, PriceHit(d, o, now))])]

\* deal_offers.deal_reason: decided by the last crawled observation recorded.
ReasonOf(d, o) ==
    LET crawled == {i \in DOMAIN d.obs : d.obs[i].offer = o /\ d.obs[i].origin # "community"}
    IN  IF crawled = {} THEN "none"
        ELSE d.obs[CHOOSE i \in crawled : \A j \in crawled : j <= i].reason

FindByUrlOfPeople(d, link) ==
    LET hits == {o \in Offers : d.offer[o].link = link /\ d.offer[o].origin = "community"
                                /\ d.offer[o].status = "active"}
    IN  IF hits = {} THEN None ELSE RootOf(d, CHOOSE o \in hits : TRUE)

\* findByUrl: the oldest offer of the link that is not disabled, then its root.
FindByUrl(d, link) ==
    LET hits == {o \in Offers : d.offer[o].link = link /\ d.offer[o].status = "active"}
    IN  IF hits = {} THEN None
        ELSE RootOf(d, CHOOSE o \in hits : \A p \in hits : d.offer[o].born <= d.offer[p].born)
=============================================================================
