----------------------------- MODULE Importer -----------------------------
(***************************************************************************)
(* The importer of OpenVibe.Sources' deals (domain/source-items.js) beside *)
(* people who post, report and moderate the same offers.                   *)
(*                                                                         *)
(* Sources, outside this service, publishes items in revisions, fetches    *)
(* them again and takes them down; its change feed gives each changed item *)
(* once, as it is now, in the order of the changes.  The puller reads a    *)
(* page past the cursor and applies it in one transaction, each item in a  *)
(* savepoint of its own; the re-confirmation reads one item that is        *)
(* growing old and applies it in a transaction.  A transaction is two      *)
(* steps: what it reads (`seen`) and what it commits.  PostgreSQL runs at  *)
(* read committed and the UPDATEs carry values computed from what was      *)
(* read, so a commit writes the columns its UPDATEs name over whatever has *)
(* been committed meanwhile.                                               *)
(***************************************************************************)
EXTENDS Observations

CONSTANTS
    Items,
    KindOf,      \* item -> kind of item ("offer", "product", "article", ...)
    StatedLinks, \* item -> the links it states, in order
    Statements,  \* what a revision may state: [usable, price, cur, list]
    FlawsOf,     \* item -> import checks its text and link fail
    Reviewed,    \* items of sources configured for the automatic review
    Person,      \* the one person who posts and reports
    PersonSays,  \* the statements the person may make
    WebhookOn,   \* DEALS_EVENTS_SECRET is set: events wake the puller at any time
    PageSize, MaxChanges, MaxTime, MaxRequests, MaxFaults   \* bounds

VARIABLES
    now,
    feed,        \* Sources: each item as it is now, and the number of its last change
    db,          \* the committed database
    job,         \* the puller, the re-confirmation and the person's request
    requests, faults,
    raced,       \* history: a transaction committed after another it had not seen
    inTurn,      \* history: no import committed over source rows another had written
    touched,     \* history: a moderator has changed an offer
    lost         \* history: the versions whose savepoint was rolled back

vars == <<now, feed, db, job, requests, faults, raced, inTurn, touched, lost>>

\* candidates: a product gives one offer per distinct stated link (of the
\* first twenty), the other kinds one; the rest give none.  The positions.
Candidates(i) ==
    {n \in DOMAIN StatedLinks[i] :
        \/ KindOf[i] = "product" /\ n <= 20
           /\ \A m \in 1 .. n - 1 : StatedLinks[i][m] # StatedLinks[i][n]
        \/ KindOf[i] \in {"offer", "article", "record"} /\ n = 1}
Key(i, n)  == <<i, StatedLinks[i][n]>>
KeysOf(i)  == {Key(i, n) : n \in Candidates(i)}
Keys       == UNION {KeysOf(i) : i \in Items}

Statement  == [usable : BOOLEAN, price : Nat, cur : STRING, list : Nat]
ASSUME ImporterAssumption ==
    /\ None \notin Offers /\ None \notin Keys /\ Keys \subseteq Offers
    /\ \A i \in Items : StatedLinks[i] \in Seq(STRING)
    /\ Statements \subseteq Statement /\ PersonSays \subseteq Statement
    /\ PageSize \in Nat /\ MaxChanges \in Nat /\ MaxTime \in Nat
    /\ MaxRequests \in Nat /\ MaxFaults \in Nat

Unpublished == [rev |-> 0, at |-> 0, change |-> 0, gone |-> FALSE, says |-> None]
NoSource    == [offer |-> None, rev |-> 0, at |-> 0, live |-> FALSE]
Empty       == [src |-> [k \in Keys |-> NoSource], offer |-> [o \in Offers |-> NoOffer],
                obs |-> <<>>, cursor |-> 0]

Idle == [op |-> "idle", page |-> {}, upTo |-> 0, link |-> None, of |-> None, says |-> None,
         seen |-> None]

LastChange == CHOOSE n \in 0 .. MaxChanges :
                 /\ \A i \in Items : feed[i].change <= n
                 /\ n = 0 \/ \E i \in Items : feed[i].change = n

Init ==
    /\ now = 0
    /\ feed = [i \in Items |-> Unpublished]
    /\ db = Empty
    /\ job = [p \in {"pull", "refresh", "person"} |-> Idle]
    /\ requests = 0
    /\ faults = 0
    /\ raced = FALSE
    /\ inTurn = TRUE
    /\ touched = FALSE
    /\ lost = {}

-----------------------------------------------------------------------------
(* What an item becomes.                                                   *)

\* evaluateImport: the first check that fails, in this order.
Checks == <<"url_scheme", "url_domain", "title", "price", "expiry", "blocked_terms">>
FailedCheck(i, says) ==
    LET fails(c) == \/ c \in FlawsOf[i]
                    \/ c = "price" /\ (says.price = NoPrice \/ says.cur = NoCurrency)
        failed == {n \in DOMAIN Checks : fails(Checks[n])}
    IN  IF failed = {} THEN None ELSE Checks[CHOOSE n \in failed : \A m \in failed : n <= m]

\* autoReview: only an offer of a configured source is ever approved.
ReviewOf(i, says) ==
    IF i \in Reviewed /\ FailedCheck(i, says) = None THEN "auto_approved" ELSE "pending"

Crawled(k, o, root, v, origin, t) ==
    [offer |-> o, root |-> root, key |-> k, rev |-> v.rev, at |-> v.at,
     price |-> v.says.price, cur |-> v.says.cur, list |-> v.says.list,
     origin |-> origin, by |-> None, told |-> {}, reason |-> "none"]

AdvancedOrSame(s, v) == v.rev >= s.rev
\* Something new: a later revision, or the same one retrieved again.
Advanced(s, v) == v.rev > s.rev \/ v.at > s.at

\* importItem, one candidate: an observation on the offer the item already
\* has, when its revision or its retrieval advanced; else the item joins the
\* offer that has the link; else it makes one.
ImportPart(d, v, k, t) ==
    LET s == d.src[k]
        bumped(o) == [d EXCEPT !.src[k] =
            [offer |-> o, live |-> TRUE,
             rev |-> IF v.rev > s.rev THEN v.rev ELSE s.rev,
             at  |-> IF v.at > s.at THEN v.at ELSE s.at]]
        origin == IF v.rev > s.rev THEN "import" ELSE "import_refresh"
        obs(e, o) == Record(e, Crawled(k, o, RootOf(e, o), v, origin, t), t)
    IN  CASE s # NoSource /\ ~(s.live /\ Advanced(s, v)) -> d
          [] s # NoSource /\ s.live /\ Advanced(s, v) -> obs(bumped(s.offer), s.offer)
          [] s = NoSource /\ FindByUrl(d, k[2]) # None ->
                 LET o == FindByUrl(d, k[2]) IN obs(bumped(o), o)
          [] OTHER ->
                 LET o == k    \* a new id, named for the source row that makes it
                     row == [NoOffer EXCEPT !.link = k[2], !.origin = "import", !.born = t,
                                !.status = "active", !.review = ReviewOf(v.item, v.says)]
                 IN  obs([bumped(o) EXCEPT !.offer[o] = row], o)

\* liveSources: source rows of this offer that are still there, a person's too.
HasSource(d, o) ==
    \/ \E k \in Keys : d.src[k].offer = o /\ d.src[k].live
    \/ \E n \in DOMAIN d.obs : d.obs[n].offer = o /\ d.obs[n].origin = "community"

RemoveItemAndOffer(d, i) ==
    [d EXCEPT !.src = [k \in Keys |-> IF k[1] = i THEN [d.src[k] EXCEPT !.live = FALSE] ELSE d.src[k]],
              !.offer = [o \in Offers |-> IF \E k \in Keys : k[1] = i /\ d.src[k].offer = o
                                          THEN [d.offer[o] EXCEPT !.status = "disabled"]
                                          ELSE d.offer[o]]]

\* removeItem: the item's rows go; an imported offer left with none is disabled.
RemoveItem(d, i) ==
    LET rows == {k \in Keys : k[1] = i /\ d.src[k].live}
        gone == [d EXCEPT !.src = [k \in Keys |->
                    IF k \in rows THEN [d.src[k] EXCEPT !.live = FALSE] ELSE d.src[k]]]
        bare == {o \in {d.src[k].offer : k \in rows} :
                    d.offer[o].origin = "import" /\ ~HasSource(gone, o)}
    IN  [gone EXCEPT !.offer = [o \in Offers |->
            IF o \in bare THEN [d.offer[o] EXCEPT !.status = "disabled"] ELSE d.offer[o]]]

\* importItem inside the caller's transaction, one candidate after the other.
\* An item of another category, with no retrieval time or nothing to map is
\* skipped.
ImportItem(d, v, t) ==
    IF v.gone THEN RemoveItem(d, v.item)
    ELSE IF ~v.says.usable THEN d
    ELSE LET after[n \in 0 .. Len(StatedLinks[v.item])] ==
                 IF n = 0 THEN d
                 ELSE IF n \in Candidates(v.item) THEN ImportPart(after[n - 1], v, Key(v.item, n), t)
                 ELSE after[n - 1]
         IN  after[Len(StatedLinks[v.item])]

\* The items of a page in the order of their changes.
ImportPage(d, page, t) ==
    LET after[n \in 0 .. MaxChanges] ==
            IF n = 0 THEN d
            ELSE IF \E v \in page : v.change = n
                 THEN ImportItem(after[n - 1], CHOOSE v \in page : v.change = n, t)
            ELSE after[n - 1]
    IN  after[MaxChanges]

-----------------------------------------------------------------------------
(* What a transaction wrote over what others have committed meanwhile.     *)

Changed(new, old, cur) == IF new # old THEN new ELSE cur
Columns(new, old, cur) ==
    [x \in DOMAIN cur |-> [c \in DOMAIN cur[x] |-> Changed(new[x][c], old[x][c], cur[x][c])]]

\* bumpSource writes the revision and the time together, removeSource neither.
Sources(new, old, cur) ==
    LET bumped(k) == new[k].rev # old[k].rev \/ new[k].at # old[k].at
    IN  [k \in Keys |->
            [offer |-> Changed(new[k].offer, old[k].offer, cur[k].offer),
             rev   |-> IF bumped(k) THEN new[k].rev ELSE cur[k].rev,
             at    |-> IF bumped(k) THEN new[k].at ELSE cur[k].at,
             live  |-> Changed(new[k].live, old[k].live, cur[k].live)]]

Over(new, old, cur) ==
    [src    |-> Sources(new.src, old.src, cur.src),
     offer  |-> Columns(new.offer, old.offer, cur.offer),
     obs    |-> cur.obs \o SubSeq(new.obs, Len(old.obs) + 1, Len(new.obs)),
     cursor |-> Changed(new.cursor, old.cursor, cur.cursor)]

\* A transaction of p that computed new commits.
Commit(p, new) ==
    /\ job[p].op # "idle"
    /\ db' = Over(new, job[p].seen, db)
    /\ raced' = (raced \/ job[p].seen # db)
    /\ inTurn' = (inTurn /\ (p # "person" => job[p].seen.src = db.src))
    /\ job' = [job EXCEPT ![p] = Idle]

-----------------------------------------------------------------------------
(* Sources.                                                                *)

Publish(i, s) ==
    /\ LastChange < MaxChanges
    /\ feed' = [feed EXCEPT ![i] = [rev |-> @.rev + 1, at |-> now, change |-> LastChange + 1,
                                    gone |-> FALSE, says |-> s]]
    /\ UNCHANGED <<now, db, job, requests, faults, raced, inTurn, touched, lost>>

\* The item was fetched again and is as it was: no change of the feed.
FetchAgain(i) ==
    /\ feed[i].rev > 0 /\ ~feed[i].gone /\ feed[i].at < now
    /\ feed' = [feed EXCEPT ![i].at = now]
    /\ UNCHANGED <<now, db, job, requests, faults, raced, inTurn, touched, lost>>

TakeDown(i) ==
    /\ feed[i].rev > 0 /\ ~feed[i].gone /\ LastChange < MaxChanges
    /\ feed' = [feed EXCEPT ![i].gone = TRUE, ![i].change = LastChange + 1]
    /\ UNCHANGED <<now, db, job, requests, faults, raced, inTurn, touched, lost>>

Tick ==
    /\ now < MaxTime
    /\ now' = now + 1
    /\ UNCHANGED <<feed, db, job, requests, faults, raced, inTurn, touched, lost>>

Version(i) == [item |-> i, rev |-> feed[i].rev, at |-> feed[i].at, gone |-> feed[i].gone,
               says |-> feed[i].says, change |-> feed[i].change]

-----------------------------------------------------------------------------
(* The puller and the re-confirmation.  Without the webhook both run only  *)
(* in the worker's tick, one after the other; with it, an event's timer    *)
(* starts the puller whatever the tick is doing.                           *)

Turn(other) == WebhookOn \/ job[other].op = "idle"

DueAfterNext == {Version(i) : i \in {x \in Items : feed[x].change > db.cursor + 1}}
Due == {Version(i) : i \in {x \in Items : feed[x].change > db.cursor}}

\* One page of the feed past the cursor, read over HTTP: PageSize changes or
\* all there are, up to the change `last`.  Its transaction begins at once
\* (anything committed between the two it would have seen).
ReadPage(last) ==
    LET page == {v \in Due : v.change <= last}
    IN  /\ job["pull"].op = "idle" /\ Turn("refresh")
        /\ \E v \in page : v.change = last
        /\ Cardinality(page) <= PageSize
        /\ page = Due \/ Cardinality(page) = PageSize
        /\ job' = [job EXCEPT !["pull"] = [Idle EXCEPT !.op = "apply", !.seen = db,
                        !.page = page, !.upTo = last]]
        /\ UNCHANGED <<now, feed, db, requests, faults, raced, inTurn, touched, lost>>

\* refreshDue: an item that still feeds an active offer and was last
\* observed more than half the freshness window ago.  getItem reads it.
LastSeen(k) ==
    LET ats == {db.obs[n].at : n \in {m \in DOMAIN db.obs : db.obs[m].key = k}}
    IN  CHOOSE a \in ats : \A b \in ats : b <= a
RefreshDue(i) ==
    LET rows == {k \in Keys : k[1] = i /\ db.src[k].live /\ db.offer[db.src[k].offer].status = "active"}
    IN  rows # {} /\ \A k \in rows : LastSeen(k) + (Fresh \div 2) < now

ReadItem(i) ==
    /\ job["refresh"].op = "idle" /\ Turn("pull")
    /\ RefreshDue(i)
    /\ job' = [job EXCEPT !["refresh"] = [Idle EXCEPT !.op = "apply", !.seen = db,
                    !.page = {Version(i)}]]
    /\ UNCHANGED <<now, feed, db, requests, faults, raced, inTurn, touched, lost>>

PassedTo(j)  == LastChange
PassedOne(j) == j.upTo + 1
\* The cursor after a page: the change the page ends with.
Passed(j) == j.upTo

\* pull: each item of the page in a savepoint, a bad one rolled back alone;
\* the cursor moves to the last of the page in the same transaction.
CommitPage(bad) ==
    LET j == job["pull"]
    IN  /\ bad \subseteq j.page /\ faults + Cardinality(bad) <= MaxFaults
        /\ Commit("pull", [ImportPage(j.seen, j.page \ bad, now) EXCEPT !.cursor = Passed(j)])
        /\ faults' = faults + Cardinality(bad)
        /\ lost' = lost \cup bad
        /\ UNCHANGED <<now, feed, requests, touched>>

\* refresh: one item in store.tx.
CommitItem ==
    LET j == job["refresh"]
    IN  /\ Commit("refresh", ImportPage(j.seen, j.page, now))
        /\ UNCHANGED <<now, feed, requests, faults, touched, lost>>

\* Sources does not answer, a transaction fails, or the process restarts.
Fail(p) ==
    /\ job[p].op # "idle" /\ faults < MaxFaults
    /\ job' = [job EXCEPT ![p] = Idle]
    /\ faults' = faults + 1
    /\ UNCHANGED <<now, feed, db, requests, raced, inTurn, touched, lost>>

-----------------------------------------------------------------------------
(* A person's request, and a moderator's.                                  *)

Reported(o, root, s) ==
    [offer |-> o, root |-> root, key |-> None, rev |-> 0, at |-> now, price |-> s.price,
     cur |-> s.cur, list |-> NoPrice, origin |-> "community", by |-> Person, told |-> {},
     reason |-> "none"]

\* submit: the link is looked up, in the transaction but with no lock.
StartSubmit(link, s) ==
    /\ job["person"].op = "idle" /\ requests < MaxRequests
    /\ FindByUrl(db, link) = None
    /\ \E o \in Offers \ Keys : db.offer[o].status = "absent"   \* bound: an id is left
    /\ s.usable
    /\ job' = [job EXCEPT !["person"] = [Idle EXCEPT !.op = "submit",
                    !.link = link, !.says = s, !.seen = db]]
    /\ requests' = requests + 1
    /\ UNCHANGED <<now, feed, db, faults, raced, inTurn, touched, lost>>

StartObserve(o, s) ==
    /\ job["person"].op = "idle" /\ requests < MaxRequests
    /\ db.offer[o].status # "absent"
    /\ LET root == RootOf(db, o)
       IN  /\ db.offer[root].status # "disabled"
           /\ s.usable /\ s.price # NoPrice
           /\ job' = [job EXCEPT !["person"] = [Idle EXCEPT !.op = "observe",
                            !.of = root, !.says = s, !.seen = db]]
    /\ requests' = requests + 1
    /\ UNCHANGED <<now, feed, db, faults, raced, inTurn, touched, lost>>

CommitPerson ==
    LET j   == job["person"]
        o   == IF j.op = "submit"
               THEN CHOOSE x \in Offers \ Keys : j.seen.offer[x].status = "absent" ELSE j.of
        row == [NoOffer EXCEPT !.link = j.link, !.origin = "community", !.born = now,
                    !.status = "active", !.by = Person, !.review = "not_required"]
        d   == IF j.op = "submit" THEN [j.seen EXCEPT !.offer[o] = row] ELSE j.seen
    IN  /\ Commit("person", Record(d, Reported(o, RootOf(d, o), j.says), now))
        /\ UNCHANGED <<now, feed, requests, faults, touched, lost>>

\* disable, enable and merge, whose own races OfferLifecycle is about.
Moderate(row) ==
    /\ requests < MaxRequests
    /\ db' = [db EXCEPT !.offer = row]
    /\ requests' = requests + 1
    /\ touched' = TRUE
    /\ UNCHANGED <<now, feed, job, faults, raced, inTurn, lost>>

RootRows == {o \in Offers : db.offer[o].status # "absent" /\ db.offer[o].into = None}

Disable(o) ==
    /\ o \in RootRows /\ db.offer[o].status = "active"
    /\ Moderate([db.offer EXCEPT ![o].status = "disabled"])
Enable(o) ==
    /\ o \in RootRows /\ db.offer[o].status = "disabled"
    /\ Moderate([db.offer EXCEPT ![o].status = "active"])
Merge(o, into) ==
    /\ o # into /\ {o, into} \subseteq RootRows
    /\ db.offer[o].status = "active" /\ db.offer[into].status = "active"
    /\ Moderate([db.offer EXCEPT ![o].into = into])
-----------------------------------------------------------------------------
Next ==
    \/ \E i \in Items, s \in Statements : Publish(i, s)
    \/ \E i \in Items : FetchAgain(i) \/ TakeDown(i) \/ ReadItem(i)
    \/ Tick
    \/ \E last \in 1 .. MaxChanges : ReadPage(last)
    \/ \E p \in {"pull", "refresh"} : Fail(p)
    \/ \E bad \in SUBSET job["pull"].page : CommitPage(bad)
    \/ CommitItem
    \/ \E s \in PersonSays : \/ \E k \in Keys : StartSubmit(k[2], s)
                             \/ \E o \in Offers : StartObserve(o, s)
    \/ CommitPerson
    \/ \E o \in Offers : Disable(o) \/ Enable(o) \/ \E into \in Offers : Merge(o, into)

Spec == Init /\ [][Next]_vars

\* A tick pulls before it re-confirms (worker.js 48-56), so a re-confirmation
\* that repeats cannot keep the puller out; a transaction that began commits
\* or fails.
Fairness ==
    /\ SF_vars(\E last \in 1 .. MaxChanges : ReadPage(last))
    /\ \A p \in {"pull", "refresh", "person"} : []<>(job[p].op = "idle")

FairSpec == Spec /\ Fairness
-----------------------------------------------------------------------------
(* Correctness.                                                            *)

SourceRow   == [offer : Offers \cup {None}, rev : Nat, at : Nat, live : BOOLEAN]
OfferRow    == [link : {k[2] : k \in Keys} \cup {None}, origin : {"none", "community", "import"},
                status : {"absent", "active", "disabled"}, into : Offers \cup {None},
                born : Nat, by : {Person, None},
                review : {"none", "pending", "auto_approved", "not_required"}]
Observation == [offer : Offers, root : Offers, key : Keys \cup {None}, rev : Nat, at : Nat,
                price : Nat, cur : STRING, list : Nat,
                origin : {"community", "import", "import_refresh"}, by : {Person, None},
                told : SUBSET Watches, reason : {"none", "list_price", "price_drop", "watch"}]
Database    == [src : [Keys -> SourceRow], offer : [Offers -> OfferRow], obs : Seq(Observation),
                cursor : 0 .. MaxChanges]
Published   == [rev : Nat, at : Nat, change : 0 .. MaxChanges, gone : BOOLEAN,
                says : Statements \cup {None}]
ItemRead    == [item : Items, rev : Nat, at : Nat, change : 0 .. MaxChanges, gone : BOOLEAN,
                says : Statements \cup {None}]
Job         == [op : {"idle", "apply", "submit", "observe"}, page : SUBSET ItemRead,
                upTo : 0 .. MaxChanges, link : {k[2] : k \in Keys} \cup {None},
                of : Offers \cup {None}, says : PersonSays \cup {None}, seen : Database \cup {None}]

\* Every variable holds a value of its type (the one shape check).
TypeOK ==
    /\ now \in 0 .. MaxTime
    /\ feed \in [Items -> Published]
    /\ db \in Database
    /\ job \in [{"pull", "refresh", "person"} -> Job]
    /\ requests \in 0 .. MaxRequests /\ faults \in 0 .. MaxFaults
    /\ raced \in BOOLEAN /\ inTurn \in BOOLEAN /\ touched \in BOOLEAN
    /\ lost \subseteq ItemRead

\* The importer keeps the ledger FeedLedger describes: source rows only move
\* forward, one observation a move, and what was taken away stays away, this
\* last even when a pull and a re-confirmation of one item overlap.
Ledger == INSTANCE FeedLedger WITH
    published <- [k \in Keys |-> [rev |-> feed[k[1]].rev, at |-> feed[k[1]].at, gone |-> feed[k[1]].gone]],
    row       <- [k \in Keys |-> [rev |-> db.src[k].rev, at |-> db.src[k].at, live |-> db.src[k].live]],
    moves     <- [k \in Keys |-> Cardinality({n \in DOMAIN db.obs : db.obs[n].key = k})]
KeepsTheLedger == Ledger!LedgerSpec

HasRow(k) == db.src[k] # NoSource
Current(i) ==
    IF feed[i].gone THEN \A k \in KeysOf(i) : ~db.src[k].live
    ELSE \A k \in KeysOf(i) : HasRow(k) /\ (db.src[k].live => db.src[k].rev = feed[i].rev)

\* Whatever the cursor has passed has been applied: no item between two pages,
\* changed while a page was applied, or on a page that failed and was read
\* again is left out.  Only a version whose savepoint was rolled back is, and
\* one that a re-confirmation overlapping the pull has written over.
CursorNeverSkips ==
    \A i \in Items :
        /\ inTurn
        /\ feed[i].rev > 0 /\ feed[i].change <= db.cursor /\ feed[i].says.usable
        /\ ~ \E v \in lost : v.item = i /\ v.change = feed[i].change
        => Current(i)

\* An imported offer is shown exactly while a source of it is there, a person's
\* report included: an item removed beside a second item or a report of the
\* same link does not hide it, and the last one removed does.  A moderator's
\* word stands over both, and two removals or a removal and a report that do
\* not see each other are in the way.
ShownWhileSourced ==
    raced \/ touched \/
    \A o \in Offers : db.offer[o].origin = "import" =>
        (db.offer[o].status = "active" <=> HasSource(db, o))

\* Two items of one link, or an item and a person's offer of it, make one
\* offer, unless two transactions each looked before the other committed or a
\* moderator enabled an offer whose link was posted again.
OneOfferPerLink ==
    raced \/ touched \/
    \A o, p \in Offers :
        /\ o # p /\ db.offer[o].status = "active" /\ db.offer[p].status = "active"
        => db.offer[o].link # db.offer[p].link

\* README.md 160-161: "The same link ... cannot be posted twice: a person gets
\* the existing deal ..., a second Sources item attaches to it".
LinkPostedOnce ==
    touched \/
    \A o, p \in Offers :
        /\ o # p /\ db.offer[o].status = "active" /\ db.offer[p].status = "active"
        => db.offer[o].link # db.offer[p].link

\* Across sources, revisions and re-confirmations of one offer, a word watch is
\* told once, and a price watch only of a price below the last it was told of.
TellsNothingTwice ==
    raced \/ touched \/
    \A w \in Watches, m, n \in DOMAIN db.obs :
        /\ m < n /\ db.obs[m].root = db.obs[n].root
        /\ w \in db.obs[m].told /\ w \in db.obs[n].told
        => WatchOf[w].kind = "price_below" /\ db.obs[n].price < db.obs[m].price

\* README.md 240-241: "a price watch again only for a lower price", here of two
\* sources of one offer, which share no row that either locks.
PriceWatchOnlyForLess ==
    \A w \in Watches, m, n \in DOMAIN db.obs :
        /\ WatchOf[w].kind = "price_below" /\ m < n
        /\ db.obs[m].offer = db.obs[n].offer /\ db.obs[m].key # db.obs[n].key
        /\ w \in db.obs[m].told /\ w \in db.obs[n].told
        => db.obs[n].price < db.obs[m].price

\* An offer selected as a deal for a drop in price has a dearer price on
\* record in the same currency than the newest of its own.  Observations come
\* out of order of their times (an item fetched again late, a report between).
DropIsADrop ==
    \A o \in Offers : ReasonOf(db, o) = "price_drop" =>
        \E m, n \in DOMAIN db.obs :
            /\ db.obs[m].offer = o /\ db.obs[n].offer = o
            /\ db.obs[m].cur = db.obs[n].cur /\ db.obs[m].price > db.obs[n].price
            /\ Newer(db.obs, n, m)

\* source-items.js 39-41: "An item Deals already imported produces a new
\* observation only when its revision or its retrieved_at advanced, so replays
\* are no-ops."
ReplaysAreNoOps ==
    \A m, n \in DOMAIN db.obs :
        /\ m < n /\ db.obs[m].key = db.obs[n].key /\ db.obs[n].key # None
        => db.obs[n].rev > db.obs[m].rev \/ db.obs[n].at > db.obs[m].at

\* source-items.js 43-44: "an imported offer left with no source is disabled."
LeftWithNoSourceIsDisabled ==
    touched \/ \A o \in Offers :
        db.offer[o].origin = "import" /\ ~HasSource(db, o) => db.offer[o].status = "disabled"

\* Once Sources is quiet and nothing more fails, every change it made is
\* applied: the puller does not stop short of the end of the feed.
FeedCatchesUp == <>[](db.cursor = LastChange)
=============================================================================
