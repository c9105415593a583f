--------------------------- MODULE OfferLifecycle ---------------------------
(***************************************************************************)
(* The life of a deal in OpenVibe.Deals: server/domain/offers.js, the      *)
(* Search documents of server/domain/indexing.js and the worker's expiry   *)
(* and re-index passes (server/worker.js).                                 *)
(*                                                                         *)
(* A handler is two steps, because the code is.  It first reads the offer, *)
(* resolves the merge pointers and makes its checks (START); then, in      *)
(* store.tx, it writes and re-indexes (COMMIT).  Nothing read in the first *)
(* step is locked or read again in the second: PostgreSQL runs at its      *)
(* default isolation, and the UPDATEs carry no condition but the id.  A    *)
(* transaction's own statements are one step, since its first UPDATE locks *)
(* the offer row until commit.                                             *)
(***************************************************************************)
EXTENDS Naturals, FiniteSets, MergeForest

CONSTANTS
    Offers,        \* offer ids, those that exist and those yet to be created
    Links,         \* normalised links (deal_offers.url_norm)
    Slots,         \* requests the service can be handling at the same time
    NoOffer, NoLink,
    Seeded,        \* offers that exist at the start, each with a link of its own
    Ops,           \* the kinds of request this instance receives
    Ageing,        \* bound: offers whose price goes stale in this instance
    WorkerEnabled, \* config.worker.enabled
    MaxRequests,   \* bound: requests in one behaviour
    MaxFaults      \* bound: failed worker ticks and restarts in one behaviour

\* The handlers of server/domain/offers.js a request can reach.
Op == {"submit", "import", "update", "observe", "expire",
       "disable", "enable", "review", "merge", "unmerge"}

ASSUME ConstantsAssumption ==
    /\ NoOffer \notin Offers
    /\ NoLink \notin Links
    /\ Seeded \subseteq Offers
    /\ Ops \subseteq Op
    /\ Ageing \subseteq Offers
    /\ WorkerEnabled \in BOOLEAN
    /\ MaxRequests \in Nat
    /\ MaxFaults \in Nat

VARIABLES
    offer,      \* deal_offers: the columns these handlers read and write
    fresh,      \* offers with an observation inside the freshness window
    ripe,       \* offers whose last observation aged since the last finished pass
    doc,        \* OpenVibe.Search's document of each offer
    req,        \* requests between their checks and their transaction
    worker,     \* the worker's tick
    requests, faults,   \* counted against their bounds
    raced       \* history: a transaction has used what another had overtaken

vars == <<offer, fresh, ripe, doc, req, worker, requests, faults, raced>>

-----------------------------------------------------------------------------
(* Rows and requests.                                                      *)

Status == {"absent", "active", "expired", "disabled"}
Review == {"not_required", "pending", "reviewed", "auto_approved"}
Due    == {"none", "future", "past"}       \* expires_at against the clock
Doc    == {"none", "indexable", "noindex", "gone"}

Row == [status : Status, merged : Offers \cup {NoOffer}, review : Review,
        due : Due, link : Links \cup {NoLink}]

Absent == [status |-> "absent", merged |-> NoOffer, review |-> "not_required",
           due |-> "none", link |-> NoLink]

\* What a handler carries from its checks into its transaction: the offer it
\* will write, the other offer of a merge or unmerge, the link of a new offer
\* and the stated end that enable read.  `stale` is history: another
\* transaction has written an offer these checks read.
Request == [op : Op \cup {"idle"}, id : Offers \cup {NoOffer},
            to : Offers \cup {NoOffer}, link : Links \cup {NoLink}, due : Due,
            stale : BOOLEAN]

Idle == [op |-> "idle", id |-> NoOffer, to |-> NoOffer, link |-> NoLink, due |-> "none",
         stale |-> FALSE]

\* One tick: expireDue reads `due`, then expires it; the re-index pass reads
\* `rows` once (Absent: not listed, or done), then writes one document at a
\* time.  `ripe` is what had aged when the pass read its rows, `full` that this
\* pass covers every offer.
WorkerState == [pc : {"idle", "expiring", "listing", "indexing"},
                due : SUBSET Offers, rows : [Offers -> Row], ripe : SUBSET Offers,
                full : BOOLEAN, fullDue : BOOLEAN]

NoRows == [o \in Offers |-> Absent]

\* A new process: no pass has run, so the first one is full.
FreshWorker == [pc |-> "idle", due |-> {}, rows |-> NoRows, ripe |-> {},
                full |-> FALSE, fullDue |-> TRUE]

Pointers(rows) == [o \in Offers |-> rows[o].merged]
Existing(rows) == {o \in Offers : rows[o].status # "absent"}

\* Every column but the merge pointer and the clock's view of the stated end.
SameColumns(new, old) ==
    new.status = old.status /\ new.review = old.review /\ new.link = old.link

\* Takedowns, merged listings and offers never made have no page.
Hidden(row) == row.status \in {"absent", "disabled"} \/ row.merged # NoOffer

-----------------------------------------------------------------------------
(* Search documents.                                                       *)

\* publication.decideOffer and indexing.indexOffer for offer o, given as the
\* row the caller holds: its own columns come from that row, the price from
\* the group as it is now.
DocOf(row, o, rows, seen) ==
    IF Hidden(row) THEN "gone"
    ELSE IF \/ row.status = "expired"
            \/ row.due = "past"
            \/ row.review = "pending"
            \/ Group(Pointers(rows), o) \cap seen = {}
    THEN "noindex" ELSE "indexable"

\* A deletion is announced only if Search had the document.
Publish(had, d) == IF d = "gone" /\ had = "none" THEN "none" ELSE d

Reindexed(rows, seen, ids) ==
    [o \in Offers |-> IF o \in ids THEN Publish(doc[o], DocOf(rows[o], o, rows, seen))
                      ELSE doc[o]]
-----------------------------------------------------------------------------
(* The checks each handler makes before its transaction.                   *)

LinkTaken(l) ==
    \E o \in Offers : offer[o].link = l /\ offer[o].status \notin {"absent", "disabled"}

\* expire's status check; a request that fails a check is answered at once.
\* The first form is a fault for the tests of this model: it lets a taken-down
\* offer through.
MayExpireTakenDown(o) == offer[o].status # "expired"
MayExpire(o) == offer[o].status = "active"

\* already_merged and merge_cycle; the first form forgets the second check.
MayMergeIntoOwnGroup(dup, target) == offer[dup].merged = NoOffer
MayMerge(dup, target) ==
    /\ offer[dup].merged = NoOffer
    /\ target \notin Group(Pointers(offer), dup)

Guard(q) ==
    \/ q.op \in {"submit", "import"} /\ ~LinkTaken(q.link)
    \/ q.op \in {"update", "observe", "disable"} /\ offer[q.id].status # "disabled"
    \/ q.op = "expire" /\ MayExpire(q.id)
    \/ q.op = "enable" /\ offer[q.id].status # "active"
    \/ q.op = "review" /\ offer[q.id].review = "pending"
    \/ q.op = "merge" /\ MayMerge(q.id, q.to)
    \/ q.op = "unmerge" /\ offer[q.id].merged # NoOffer

\* The offers a request's checks have read and its transaction relies on.
Reads(q) ==
    {q.id, q.to} \cup IF q.op = "merge" THEN Group(Pointers(offer), q.id) ELSE {}

\* Another transaction writes the offers ids: what open requests read of them
\* is no longer so.
Overtaken(ids) ==
    [p \in Slots |-> IF Reads(req[p]) \cap ids = {} THEN req[p]
                                                  ELSE [req[p] EXCEPT !.stale = TRUE]]

Start(p, q) ==
    /\ req[p] = Idle
    /\ q.op \in Ops
    /\ requests < MaxRequests
    /\ Guard(q)
    /\ req' = [req EXCEPT ![p] = q]
    /\ requests' = requests + 1
    /\ UNCHANGED <<offer, fresh, ripe, doc, worker, faults, raced>>

\* submit and the importer look the link up, in the same transaction as the
\* insert; url_norm is not unique, so another insert may still come between.
\* Every offer that is not disabled counts, merged or expired ones too.
StartCreate(p) ==
    \E op \in {"submit", "import"}, l \in Links :
        Start(p, [Idle EXCEPT !.op = op, !.link = l])

\* Named by id or slug, an offer stands for the root of its group.
StartOnRoot(p) ==
    \E o \in Existing(offer) : \E r \in Roots(Pointers(offer), o) :
        \E op \in Op \ {"submit", "import", "merge", "unmerge"} :
            Start(p, [Idle EXCEPT !.op = op, !.id = r,
                        !.due = IF op = "enable" THEN offer[r].due ELSE "none"])

StartMerge(p) ==
    \E d, t \in Existing(offer) : \E r \in Roots(Pointers(offer), t) :
        Start(p, [Idle EXCEPT !.op = "merge", !.id = d, !.to = r])

StartUnmerge(p) ==
    \E d \in Existing(offer) : \E r \in Roots(Pointers(offer), d) :
        Start(p, [Idle EXCEPT !.op = "unmerge", !.id = d, !.to = r])

-----------------------------------------------------------------------------
(* The transactions.  Each writes its rows and re-indexes the offers it    *)
(* names, read back after the write.                                       *)

Commit(p, rows, seen, ids) ==
    /\ offer' = rows
    /\ fresh' = seen
    /\ doc' = Reindexed(rows, seen, ids)
    /\ req' = [Overtaken(ids) EXCEPT ![p] = Idle]
    /\ raced' = (raced \/ req[p].stale)
    /\ UNCHANGED <<ripe, worker, requests, faults>>

\* The transaction fails (a limit, an unknown product, the database) and writes
\* nothing; nor does an update that changes nothing.
RollBack(p) ==
    /\ req[p] # Idle
    /\ req' = [req EXCEPT ![p] = Idle]
    /\ UNCHANGED <<offer, fresh, ripe, doc, worker, requests, faults, raced>>

\* insertOffer and the first observation, which an import may bring in stale.  A
\* person's text needs no review, AI text waits; an import waits unless the
\* automatic checks pass.
CreateOffer(p) ==
    /\ req[p].op \in {"submit", "import"}
    /\ \E o \in Offers \ Existing(offer) :
       \E d \in {"none", "future"},
          r \in IF req[p].op = "submit" THEN {"not_required", "pending"}
                                        ELSE {"pending", "auto_approved"},
          seen \in {fresh \cup {o}} \cup IF req[p].op = "submit" THEN {} ELSE {fresh} :
          Commit(p, [offer EXCEPT ![o] = [status |-> "active", merged |-> NoOffer,
                                          review |-> r, due |-> d, link |-> req[p].link]],
                 seen, {o})

\* A fault: an edit whose document is not written again.
UpdateOfferUnindexed(p) ==
    /\ req[p].op = "update"
    /\ Commit(p, [offer EXCEPT ![req[p].id].review = "pending"], fresh, {})

\* Other fields only, a new stated end or none, or text from OpenVibe.AI, which
\* goes back to review.
UpdateOffer(p) ==
    LET id == req[p].id IN
    /\ req[p].op = "update"
    /\ \/ Commit(p, offer, fresh, {id})
       \/ \E d \in {"none", "future"} : Commit(p, [offer EXCEPT ![id].due = d], fresh, {id})
       \/ Commit(p, [offer EXCEPT ![id].review = "pending"], fresh, {id})

\* A service may report what it saw some time ago.
ObserveOffer(p) ==
    /\ req[p].op = "observe"
    /\ \E seen \in {fresh, fresh \cup {req[p].id}} : Commit(p, offer, seen, {req[p].id})

\* A fault: the reason of the expiry written where the status belongs.
ExpireOfferByReason(p) ==
    /\ req[p].op = "expire"
    /\ Commit(p, [offer EXCEPT ![req[p].id].status = "submitter"], fresh, {req[p].id})

ExpireOffer(p) ==
    /\ req[p].op = "expire"
    /\ Commit(p, [offer EXCEPT ![req[p].id].status = "expired"], fresh, {req[p].id})

DisableOffer(p) ==
    /\ req[p].op = "disable"
    /\ Commit(p, [offer EXCEPT ![req[p].id].status = "disabled"], fresh, {req[p].id})

\* enable writes back the stated end it read, unless that has passed by now.
KeptDue(read, now) == IF read = "future" /\ now # "past" THEN "future" ELSE "none"

EnableOffer(p) ==
    LET id == req[p].id IN
    /\ req[p].op = "enable"
    /\ Commit(p, [offer EXCEPT ![id].status = "active",
                               ![id].due = KeptDue(req[p].due, offer[id].due)], fresh, {id})

ReviewOffer(p) ==
    /\ req[p].op = "review"
    /\ Commit(p, [offer EXCEPT ![req[p].id].review = "reviewed"], fresh, {req[p].id})

\* Two faults: a merge that forgets the merged offer's own document, and one
\* that retires the merged row.
MergeOfferTargetOnly(p) ==
    /\ req[p].op = "merge"
    /\ Commit(p, [offer EXCEPT ![req[p].id].merged = req[p].to], fresh, {req[p].to})

MergeOfferExpires(p) ==
    LET dup == req[p].id  target == req[p].to IN
    /\ req[p].op = "merge"
    /\ Commit(p, [offer EXCEPT ![dup].merged = target, ![dup].status = "expired"],
              fresh, {dup, target})

MergeOffer(p) ==
    LET dup == req[p].id  target == req[p].to IN
    /\ req[p].op = "merge"
    /\ Commit(p, [offer EXCEPT ![dup].merged = target], fresh, {dup, target})

UnmergeOffer(p) ==
    LET dup == req[p].id  parentRoot == req[p].to IN
    /\ req[p].op = "unmerge"
    /\ Commit(p, [offer EXCEPT ![dup].merged = NoOffer], fresh, {dup, parentRoot})

Finish(p) ==
    \/ RollBack(p) \/ CreateOffer(p) \/ UpdateOffer(p) \/ ObserveOffer(p)
    \/ ExpireOffer(p) \/ DisableOffer(p) \/ EnableOffer(p) \/ ReviewOffer(p)
    \/ MergeOffer(p) \/ UnmergeOffer(p)

-----------------------------------------------------------------------------
(* The worker: runTick, one tick at a time.                                *)

\* expireDue reads the canonical active offers whose stated end has passed.
DueNow == {o \in Offers : /\ offer[o].status = "active"
                          /\ offer[o].merged = NoOffer
                          /\ offer[o].due = "past"}

ReadDue ==
    /\ WorkerEnabled
    /\ worker.pc = "idle"
    /\ worker' = [worker EXCEPT !.pc = "expiring", !.due = DueNow]
    /\ UNCHANGED <<offer, fresh, ripe, doc, req, requests, faults, raced>>

\* ...and expires every one it read, in one transaction.
ExpireDue ==
    LET rows == [o \in Offers |-> IF o \in worker.due
                                  THEN [offer[o] EXCEPT !.status = "expired"] ELSE offer[o]]
    IN  /\ worker.pc = "expiring"
        /\ offer' = rows
        /\ doc' = Reindexed(rows, fresh, worker.due)
        /\ worker' = [worker EXCEPT !.pc = "listing", !.due = {}]
        /\ req' = Overtaken(worker.due)
        /\ raced' = (raced \/ ~(worker.due \subseteq DueNow))
        /\ UNCHANGED <<fresh, ripe, requests, faults>>

\* listings.indexable, and listings.agedInto: the roots that an aged offer is,
\* or points to directly.
Indexable == {o \in Offers : ~Hidden(offer[o])}
AgedInto  == {o \in Indexable : \E a \in ripe : a = o \/ offer[a].merged = o}

\* A fault: the daily full pass lists only what aged.
ListRowsNeverFull ==
    /\ worker.pc = "listing"
    /\ worker' = [worker EXCEPT !.pc = "indexing", !.ripe = ripe,
           !.rows = [o \in Offers |-> IF o \in AgedInto THEN offer[o] ELSE Absent]]
    /\ UNCHANGED <<offer, fresh, ripe, doc, req, requests, faults, raced>>

ListRows ==
    LET listed == IF worker.fullDue THEN Indexable ELSE AgedInto
    IN  /\ worker.pc = "listing"
        /\ worker' = [worker EXCEPT !.pc = "indexing", !.full = worker.fullDue, !.ripe = ripe,
                                    !.rows = [o \in Offers |-> IF o \in listed THEN offer[o]
                                                                             ELSE Absent]]
        /\ UNCHANGED <<offer, fresh, ripe, doc, req, requests, faults, raced>>

\* One listed row, each in a transaction of its own, from the row as listed.
IndexListed(o) ==
    /\ worker.pc = "indexing"
    /\ worker.rows[o] # Absent
    /\ doc' = [doc EXCEPT ![o] = Publish(doc[o], DocOf(worker.rows[o], o, offer, fresh))]
    /\ worker' = [worker EXCEPT !.rows[o] = Absent]
    /\ raced' = (raced \/ [worker.rows[o] EXCEPT !.due = offer[o].due] # offer[o])
    /\ UNCHANGED <<offer, fresh, ripe, req, requests, faults>>

\* A fault: the running flag is not reset.
EndPassStaysBusy ==
    /\ worker.pc = "indexing"
    /\ worker.rows = NoRows
    /\ ripe' = ripe \ worker.ripe
    /\ UNCHANGED <<offer, fresh, doc, req, worker, requests, faults, raced>>

EndPass ==
    /\ worker.pc = "indexing"
    /\ worker.rows = NoRows
    /\ ripe' = ripe \ worker.ripe
    /\ worker' = [FreshWorker EXCEPT !.fullDue = worker.fullDue /\ ~worker.full]
    /\ UNCHANGED <<offer, fresh, doc, req, requests, faults, raced>>

\* An error ends the tick where it is; the next tick starts over.
FailTick ==
    /\ worker.pc # "idle"
    /\ faults < MaxFaults
    /\ faults' = faults + 1
    /\ worker' = [FreshWorker EXCEPT !.fullDue = worker.fullDue]
    /\ UNCHANGED <<offer, fresh, ripe, doc, req, requests, raced>>

\* The process stops and starts: open requests are lost, the worker's
\* memory of its passes with them.
Restart ==
    /\ faults < MaxFaults
    /\ faults' = faults + 1
    /\ req' = [p \in Slots |-> Idle]
    /\ worker' = FreshWorker
    /\ UNCHANGED <<offer, fresh, ripe, doc, requests, raced>>

-----------------------------------------------------------------------------
(* The clock.                                                              *)

EndPasses(o) ==
    /\ offer[o].due = "future"
    /\ offer' = [offer EXCEPT ![o].due = "past"]
    /\ UNCHANGED <<fresh, ripe, doc, req, worker, requests, faults, raced>>

PriceAges(o) ==
    /\ o \in fresh \cap Ageing
    /\ fresh' = fresh \ {o}
    /\ ripe' = ripe \cup {o}
    /\ UNCHANGED <<offer, doc, req, worker, requests, faults, raced>>

\* A day since the last full pass.
DayPasses ==
    /\ ~worker.fullDue
    /\ worker' = [worker EXCEPT !.fullDue = TRUE]
    /\ UNCHANGED <<offer, fresh, ripe, doc, req, requests, faults, raced>>

-----------------------------------------------------------------------------

\* The database as submissions have left it: a few fresh listed offers.
Init ==
    /\ offer = [o \in Offers |-> IF o \in Seeded THEN [Absent EXCEPT !.status = "active"]
                                                ELSE Absent]
    /\ fresh = Seeded
    /\ ripe = {}
    /\ doc = [o \in Offers |-> IF o \in Seeded THEN "indexable" ELSE "none"]
    /\ req = [p \in Slots |-> Idle]
    /\ worker = FreshWorker
    /\ requests = 0
    /\ faults = 0
    /\ raced = FALSE

WorkerStep ==
    \/ ReadDue \/ ExpireDue \/ ListRows \/ EndPass
    \/ \E o \in Offers : IndexListed(o)

Next ==
    \/ \E p \in Slots : StartCreate(p) \/ StartOnRoot(p) \/ StartMerge(p) \/ StartUnmerge(p)
    \/ \E p \in Slots : Finish(p)
    \/ WorkerStep \/ FailTick \/ Restart
    \/ \E o \in Offers : EndPasses(o) \/ PriceAges(o)
    \/ DayPasses

Spec == Init /\ [][Next]_vars

\* Every request that passed its checks is answered, the worker's timer keeps
\* firing and days go by.  Nobody has to send a request.
Fairness ==
    /\ \A p \in Slots : WF_vars(Finish(p))
    /\ WF_vars(WorkerStep)
    /\ WF_vars(DayPasses)

FairSpec == Spec /\ Fairness
-----------------------------------------------------------------------------
(* Properties.  Those under ~raced say what the handlers guarantee as long *)
(* as each commits before another writes what it read; DisabledStaysDisabled, *)
(* MergesStayAcyclic and HiddenLeavesSearch below say the same without     *)
(* that condition, as the README does, and the code does not keep them.    *)

\* Every variable keeps its type.
TypeOK ==
    /\ offer \in [Offers -> Row]
    /\ fresh \in SUBSET Offers
    /\ ripe \in SUBSET Offers
    /\ doc \in [Offers -> Doc]
    /\ req \in [Slots -> Request]
    /\ worker \in WorkerState
    /\ requests \in Nat
    /\ faults \in Nat
    /\ raced \in BOOLEAN

\* "Cycles are refused" (README.md:169): no sequence of merges and unmerges
\* leads an offer's merge pointers back to itself.
MergesStayAcyclic == Acyclic(Pointers(offer))
CheckedMergesStayAcyclic == ~raced => MergesStayAcyclic

\* A takedown or a merge takes the page out of Search (publication.js:12,
\* README.md:169), whichever handler or worker pass wrote the document last.
HiddenIsGone == \A o \in Offers : Hidden(offer[o]) => doc[o] \in {"none", "gone"}
CheckedHiddenIsGone == ~raced => HiddenIsGone

\* Imported or AI text nobody has reviewed is not indexable in Search
\* (README.md:253, publication.js:15).
CheckedPendingIsNoindex ==
    ~raced => \A o \in Offers : offer[o].review = "pending" => doc[o] # "indexable"

\* Only a moderator's enable ends a takedown (offers.js disable, enable).
DisabledStaysDisabled ==
    [][\A o \in Offers :
          offer[o].status = "disabled" /\ offer'[o].status # "disabled"
              => \E p \in Slots : req[p].op = "enable" /\ req[p].id = o /\ req'[p] = Idle]_vars
CheckedDisabledStaysDisabled ==
    [][\A o \in Offers :
          ~raced' /\ offer[o].status = "disabled" /\ offer'[o].status # "disabled"
              => \E p \in Slots : req[p].op = "enable" /\ req[p].id = o /\ req'[p] = Idle]_vars

\* Merging and unmerging move only the merge pointer, and while an offer is
\* merged away only the clock touches its own row: an unmerge gives it back
\* exactly as it was (reads.js:3-8, README.md:383).
CheckedMergedRowIsKept ==
    [][\A o \in Existing(offer) :
          ~raced' /\ (offer[o].merged # NoOffer \/ offer'[o].merged # NoOffer)
              => SameColumns(offer'[o], offer[o])]_vars

\* The worker expires every listed offer whose stated end has passed, through
\* failed ticks and restarts (offers.js:335).
DueIsExpired == \A o \in Offers : o \in DueNow ~> o \notin DueNow

\* Races and failed ticks may leave a listed offer's Search document wrong, but
\* not for good: once requests stop, it says what the offer's page says.
ListedDocsConverge ==
    \A o \in Offers :
        <>[](~Hidden(offer[o]) => doc[o] = DocOf(offer[o], o, offer, fresh))

\* "Every step is idempotent" (worker.js:15), and a hidden offer is out of
\* Search (publication.js:12): a document of a hidden offer goes away.
HiddenLeavesSearch ==
    \A o \in Offers : Hidden(offer[o]) ~> (~Hidden(offer[o]) \/ doc[o] \in {"none", "gone"})
=============================================================================
