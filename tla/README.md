# OpenVibe.Deals in TLA+

OpenVibe.Deals is a catalog of deals: people submit offers, importers bring them in
from feeds, people vote and report prices, moderators merge, review and take down, a
worker expires offers and keeps OpenVibe.Search's documents up to date. It is one Node
process over PostgreSQL. Its hard part is what `await` hides: every handler reads,
checks, awaits, then writes in a transaction, and other handlers and the worker run in
between.

This directory models that behaviour in TLA+, checks it with TLC on small instances,
and proves what matters most for every instance with TLAPS. Paths below are under
`src/`.

    tlc -workers 2 -config OfferHandlers.cfg MCOfferLifecycle.tla
    tlapm OfferLifecycle_proofs.tla

## 1. The system

| Component | State it keeps | Operations | Hard behaviour | What makes it correct |
|---|---|---|---|---|
| Offers, `server/domain/offers.js` | `deal_offers`, sources, observations, moderation log | submit, createImported, update, observe, expire, expireDue, disable, enable, review, merge, unmerge | check, then transaction, with nothing locked between | a takedown lasts until enable; merges make no cycle; an unmerge restores |
| Merge groups, `server/domain/reads.js` | none; reads `merged_into` | root, groupIds, effectiveVotes, tally | chains of merges, nested merges | one canonical offer in a group |
| Publication and indexing, `publication.js`, `indexing.js` | the documents Search holds, sequenced | decideOffer, offerView, indexOffer, reindex | documents computed from a row read earlier | hidden is gone, unreviewed is noindex, the rest follows the page |
| Worker, `server/worker.js` | `running`, `lastFullAt`, `lastPassAt` in memory | tick: expireDue, hotness, re-index, import, prune | errors and restarts in mid-tick, stale lists, stop | stated expiries happen; documents converge; stop leaves nothing running |
| Votes, `votes.js` | `deal_votes` | set, remove | vote against merge; vote limits | one effective vote a person in a group; none on one's own offer |
| Hotness, `hotness.js` | snapshots, `hot_latest` | snapshot, tick | skipping offers whose hot is 0 | a hot follows from stored votes |
| Flags, `flags.js` | `deal_flags` | report, raise, resolve | unique open flag; two moderators | one open flag for a key, one decision |
| Limits, `limits.js` | `rate_events` | check, hit, prune | check-then-insert | at most max in a window |
| Importer, `source-items.js` | source rows, change cursor | pull, refresh, importItem, removeItem, kick | replays, pull against refresh, removal | idempotent; removed stays removed; one offer for a link |
| Import review, `import-review.js` | none | evaluateImport | - | no check is skipped |
| Price trend, `price-trend.js` | none | priceTrend, isDeal | boundaries, missing prices | agrees with its definition |
| Watches, `watches.js` | watches, notifications | create, remove, onObservation | concurrent observations of a group | at most one event for an observation |
| Sharing, `server/sharing.js` | share rows, defaults | register, setDefault, forget, work | several statements without a transaction | a deleted watch has no share |
| Page caches, `http/ttl-cache.js`, `http/discovery.js` | value, time, build in progress | read, refresh, warm | one build for many readers, failed builds | one build at a time; bounded age |
| Lifecycle, `server/index.js`, `app.js` | timers, server, pool | start, stop | stop during a tick or a warm | nothing uses a closed pool |
| Account deletion, `account-data.js` | none | export, erase | rows keyed by more than the subject | nothing of the person stays |
| Catalog, `catalog.js` | stores, products, aliases | ensureStore, resolve | check-then-insert | an alias never moves |
| Campaigns, `campaigns.js` | `deal_campaigns`, cursor | pull, apply | replayed pages | last revision wins |
| Viewers and rights, `auth/viewer.js`, `auth/forms.js`, `access.js`, `http/actor-limits.js` | counters per actor and window; a form key per process | resolve, guard, canEdit, budgets | tokens of people, services and apps; two doors for one operation; restarts | nothing is begun without the right to it |
| Lists, gate and pages, `listings.js`, `publication.js`, `http/pages.js` | none | the lists, offerView, productView, sitemap entries | five queries for a page while rows change | a deal once; old prices last; sitemap and pages agree |

How they interact. HTTP routes (`http/pages.js`, `http/api.js`) and event deliveries
(`http/events.js`) call the handlers; a handler calls reads, limits, catalog, watches
(inside an observation), hotness and indexing, all in one `store.tx`. Indexing writes
outbox rows that `openvibe-publishing` delivers to Search. The worker calls expireDue,
hotness, indexing, the importer, campaigns and prune, one after the other. The hazards
of all of this, each at its line, are in `PROJECT.json`.

What is not modelled, and why, is in section 6.

## 2. What is modelled

### MergeForest

The algebra of merge pointers (`reads.js`): a table `m` where `m[o]` is the offer `o`
is merged into, or anything outside the table. `Chain`, `Group`, `Roots` are defined by
closure and not by recursion, so that theorems about them are within reach, and
`Acyclic` says that every nonempty set of offers has a member whose pointer leaves it.
The code's loops stop after 50 hops; on an acyclic table of at most 50 offers in a
chain the two agree, and on a cycle `Roots` is any member of the cycle, of which the
50th hop is one.

### OfferLifecycle

| Variable | Code |
|---|---|
| `offer` | `deal_offers`: `status`, `merged_into`, `review_state`, `expires_at` against the clock, `url_norm` |
| `fresh` | offers with an observation inside `freshnessMs` |
| `ripe` | offers whose last observation aged since the last finished pass (`lastPassAt`) |
| `doc` | what Search holds: nothing, an indexable or noindex document, or a tombstone |
| `req` | requests between their checks and their `store.tx` |
| `worker` | the tick: its step, the due offers, the rows it listed, whether the pass is full |
| `raced` | history, see below |

A handler is two actions. `StartOnRoot`, `StartCreate`, `StartMerge` and `StartUnmerge`
are its reads and checks (`Guard`); the action named after the handler (`UpdateOffer`,
`MergeOffer`, ...) is its transaction, re-indexing included (`Commit`, `Reindexed`). The
worker's `expireDue` is `ReadDue` and `ExpireDue`; its re-index pass is `ListRows`, then
`IndexListed` for each listed row in a transaction of its own, then `EndPass`.
`FailTick` is an error caught by `runTick`, `Restart` a new process, which has
forgotten when it last passed. The clock is three actions: a stated end passes, a price
ages, a day passes.

Assumptions, all about code outside `src/` or about data:

- A transaction is one step. `openvibe-sdk/db` runs at PostgreSQL's default isolation
  and the first UPDATE of a handler locks its row until commit. Two documents of one
  group written by overlapping transactions are covered by the orders of the steps
  and not by finer interleavings inside them.
- `Publish` (external, openvibe-publishing) keeps the last document written and
  announces a deletion only if Search had a document.
- A refused request changes nothing: `Start` takes only requests whose checks pass.
  Input validation and access rules are taken as passed.
- Products, stores, titles, the moderation log, outbox events, votes, hotness, watches
  and limits are not in this module; a limit or any other error in a transaction is
  `RollBack`. Threads in Community are set best effort and left out.
- The importer appears as the creator of offers (`import`); its re-imports and removals
  are `Importer`'s.
- The seeded offers are what earlier submissions have left: fresh, listed, indexed.

`raced` and `stale`. A request is `stale` once another transaction has written an offer
its checks read; `raced` becomes true when a stale request commits, when the worker
expires an offer that is no longer due, or writes a document from a row that has
changed. The properties named `Checked...` hold until then: they say the handlers
and passes are right whenever each commits on what it checked, in whatever order requests,
passes, failures and restarts come. Without that condition the same properties are
false of the code, and three runs show it.

### Votes

Votes, hotness and limits over the same merge forest, and what erasing an account takes
from them.

| Variable | Code |
|---|---|
| `merged`, `status`, `poster` | `deal_offers`: `merged_into`, `status`, `submitted_by` |
| `row` | `deal_votes`, by offer and voter; `NoRow` is no row |
| `snap` | for each offer, the tally behind its `hot_latest` |
| `hits`, `pairHits` | `rate_events` of the last hour: votes of a person, votes of a person on an offer |
| `young` | voters whose account is not known to be old enough for a full weight |
| `erased` | accounts that were erased |
| `req` | votes being handled: the group read, the row to write, the tally counted |
| `tick` | `hotness.tick`: the offers it took, the tallies it counted |
| `nextSeq` | the identity column of `deal_votes` |

`votes.apply` is four actions. `StartVote` resolves the group and checks it; `AdmitVote`
is the reads inside `store.tx` (what the person voted, limits, weight, the time of the
new row); `CountVote` is the upsert and the tally its snapshot is made from, still seen
by nobody; `CommitVote` shows the row, the limits' events and the snapshot together.
`EndVote` is a vote that is already so, that a limit refuses, or that fails. Setting and
removing a vote are the same code with another value. `hotness.tick` is three:
`TickList`, `TickCount`, `TickWrite`; a restart is `EndVote` of every open vote and
`FailTick`.

- `Merge`, `Unmerge` and `SetStatus` are one step here, checks included: what overtakes
  them is `OfferLifecycle`'s subject. They take the snapshots the code takes.
- Hot is the net weight of a tally, multiplied by a positive factor of age. `snap` keeps
  the tally, so `Net(snap[o]) = 0` exactly when `hot_latest` is 0, at any
  age the tick looks at (rounding to six places makes a 0 only after 260 days). Weights are
  whole: 4 is 1 in the code and 1 is 0.25.
- `TickCount` counts all listed offers at one moment; the code counts one after the other.
  A vote between two of them has the effect of a vote before or after all of them,
  offer by offer.
- Two votes of one person on one offer wait for each other at the upsert
  (`CountVote`'s second guard), as two upserts of one row do in PostgreSQL.
- Time moves in `ClockTicks`, `HourPasses` (an event leaves the hour the limits count) and
  `AccountAges`. Erasing does not reset the weight: `young` is what Network says of
  the account.
- Not here: the limit for an IP hash and ring detection (both need addresses), the window
  of 14 days and the pruning of old snapshots, the bodies of events. That a ring is
  flagged is in `Accounts`.

`stale` and `raced` are history as before. A vote is stale once a move has changed a
group it read, or, after it has counted, once another vote of the group has committed; a
tick likewise after it has counted.

### PriceTrend, Observations, Importer, FeedLedger

What OpenVibe.Sources tells of, becoming offers.

`PriceTrend` is `price-trend.js`: the saving, the points of a trend, and `DealReason`, for
which isDeal selects an offer. `Observations` is what one observation sets off, as
operators from a state of the database to the next: `Record` (recordObservation), `Told`
(watches.onObservation: which watches hear of it), `FindByUrl`, with the groups of
`MergeForest`. Both are pure: the code runs them inside the transaction of a caller.

`Importer` is `source-items.js`.

| Variable | Code |
|---|---|
| `feed` | OpenVibe.Sources: each item's revision, time of retrieval, number of its last change, whether it was taken down |
| `db` | `deal_offer_sources` by item and link (`src`), `deal_offers` (`offer`), observations with the watches told of each (`obs`), `deals_ingest_cursor` (`cursor`) |
| `job` | the puller, the re-confirmation and a person's request, each with the page it read and the database it saw |
| `raced`, `inTurn`, `touched`, `lost` | history, below |

`pull` is `ReadPage` and `CommitPage`, `refresh` is `ReadItem` and `CommitItem`; `Fail` is
an error, a page that does not arrive, or a restart. `ImportPart` is one candidate of an
item in importItem: an observation on the offer the row has, an offer of the same link, or
a new one with the review that `FailedCheck` (import-review.js) leaves it. `RemoveItem`
disables an offer whose last source went. `CommitPage` chooses the items whose savepoint
is rolled back.

- A transaction reads at its start and commits at its end. In between others commit,
  and `Over` gives what PostgreSQL leaves at read committed: the columns its UPDATEs name
  overwrite, the others stay, inserts add up. Of a source row, bumpSource names the revision
  and the retrieval together (`Sources`), so an older re-confirmation that overlaps a pull
  puts back the revision the pull has just written. That is a coarser reading than the
  code's, which sees each commit before each of its statements; it makes the overlaps
  longer, never shorter.
- `Turn`: without a webhook the tick runs the puller and then the re-confirmation; with one
  (`WebhookOn`) an event starts the puller at any time. The run has the webhook on, whose
  behaviours include the others.
- The feed is external (`Publish`, `FetchAgain`, `TakeDown`): a page has the items
  changed after the cursor, each once and as it is now.
- Ids of new offers are named for the source row that makes them. A link has one
  spelling: its normalisation is left out.
- `raced`: a transaction committed after another it had not seen. `inTurn`: no import has
  committed over source rows that another import wrote. `touched`: a moderator has changed
  an offer. `lost`: the versions rolled back with their savepoint.

`FeedLedger` is what the importer promises of each row of `deal_offer_sources`, in four
variables: what Sources says, what Deals holds, how many observations came of it, and
`inTurn`. `Importer` implements it (`KeepsTheLedger`), by the refinement at the end of the
module: `published` is the feed, `row` the source rows, `moves` the number of
observations recorded from each row.

### Catalogue, Site

What readers are shown. `Catalogue` is operators over states of the catalogue: the
lists of `listings.js` in their orders and with their limits, the gate and the views of
`publication.js`, the entries of the sitemaps (`http/discovery.js`), the front page, a
list's pages and a deal's answer (`http/pages.js`). `Site` is the two kinds of caches in
front of them, `http/ttl-cache.js` and `shared` of `http/discovery.js`, over a catalogue
that changes.

| Variable | Code |
|---|---|
| `d` | the offers' columns that readers see, with the age of each observation |
| `cache` | each cache's copy (the deals it shows, how long its build took), its age, the build under way |
| `waiting`, `warmer` | who waits for a build: readers, `warmNow` |
| `warmIn`, `toWarm` | the warm timer; the sitemap's one warm after start |
| `gone`, `failed` | history: since when a deal is off the lists; caches a build of which failed |

A build is many queries, and any change may come between two of them. `build.seen` has
the catalogues there were since the build began, and when it ends (`FinishBuild`) its page
is any that its queries could have made of them (`Contents`). For the front page the five
lists are read side by side, each from a state of its own, and then the cards, each from a
state no earlier than the last list's (`HomePages`); for the sitemap the rows come from one
state and each entry from that or a later one (`Mapped`); `Judged` is what a set of rows
comes to when each is judged by a state of its own. The front page's clock stands while it is
built (it reads `now` once), a sitemap entry's does not (`Sees`).

A ttl cache answers with a copy until `MaxStale` and rebuilds behind it past its window
(`ReadCopy`), after that the reader waits (`ReadWaits`); the sitemap's copy answers however
old it is. `warmNow` goes through the caches in their order, each after the build of the one
before (`NextOf`).

A query's `ORDER BY` is `Sorted`: each row has the place that the rows before it leave, so a
list is a function of its rows and its order, not of how they are sorted. `Only` is what a
filter leaves of a list, `FirstOf` a `LIMIT`, `Window` a `LIMIT` with its `OFFSET`. Most orders
end in the row's number; those of a store, a seller and a search, of a product's offers and of the
sitemap's rows end in `created_at`, and leave two deals of the same millisecond in any
order. There every query has an order of its own among them (`tie`, one of `Ties`), also two
queries for two pages of one list. `MapMax` is the 50,000 rows a sitemap's query has room for.

- An offer has one observation of its own, and stated ends lie ahead of the clock.
- A page of a list and the total it is paged by are read from one state; the code counts,
  then reads. The lists of sellers and of categories (at most 2000 and 1000) are shown by
  pages and sitemap alike and have no limit here; different names have different slugs.
- A behaviour is about one set of caches (`Followed`): a ttl cache and the
  sitemap's have no state in common.

### Access, Accounts

`Access` has who a request speaks for and what it may do: `Resolve` (auth/viewer.js) makes
the viewer from the token and the door, `Guard` and `Passes` are the guards and rights,
`Routes` is the table of the routes that write, API and form, with their capability, their
budget and what they ask of the viewer: all but those of the owner settings and of the Share
sheet, whose routers and rules are libraries' (openvibe-shared, openvibe-sdk). Three routes
end a deal by the same `expire`: the API's, the deal's form and the moderators' form, the last
under a budget of its own. `Accounts` is the requests themselves: their budgets,
what they do to watches, shares, flags and defaults, and the deletion of an account.

| Variable | Code |
|---|---|
| `watch`, `share`, `default` | `deal_watches`; the SDK's `shares` and `share_members`; `deals_share_defaults` |
| `flag`, `log`, `hits` | `deal_flags`, `moderation_log`, `rate_events` of kind flag |
| `used`, `life` | the counters of actor-limits.js; which process this is (for the form key) |
| `req` | requests, with what they came with and what they have read |
| `deletion` | `network.account.deleted` by person: sent, done |
| `chosen`, `raced` | history: the audience a watch should have; watches, flags and people something overlapped on |

`Arrive` is everything in front of a handler: token, guard, budget, form check, right.
After it, a request for watches, reports or decisions goes on here, a step for each
statement or transaction (`watches.create` is four: count, insert, read the default,
register the share row); others `Leave` to `OfferLifecycle` and `Votes`. `Deliver` is the
receipt, the erasing and the answer, in one transaction; `DeliveryFails` rolls it back and
Events delivers again. `Restart` ends every request where it is.

- The SDK's `canView`, the Share sheet and Network's announcement are external.
- One deal: reports and rings are about it, and `Poster` posted it.
- `raced` has a watch when a change of the default overtook its making, or its removal was
  cut off or overtook it; a flag when a second moderator had read it before the first
  decided; a person who writes, or is shared with, while their account is
  erased or after.

## 3. Runs

| Run | Instance | Question |
|---|---|---|
| `offer_handlers` | 3 offers (2 seeded), 1 link, 2 requests at a time, 4 in all, all handlers | What do the handlers keep? |
| `offer_worker` | 2 offers, 2 requests in all, one price ages, one failure or restart, fair | Do expiry and documents come right? |
| `merge_race` | 2 offers, 2 requests | "Cycles are refused." |
| `stale_reindex` | 1 offer, one disable, the worker | a hidden offer leaves Search |
| `votes_groups` | 2 offers, 2 voters (one posted an offer, one voted before), 1 vote at a time, 2 moves, one failed tick, fair | What do votes mean in a group that changes? |
| `votes_race` | 1 offer, 3 votes, 2 at a time, an erasure, 2 instants, one failed tick | What do votes handled at once do to limits and hot? |
| `hot_stuck` | 1 offer, a vote for and a vote against, one erasure, fair | an offer's hot follows its votes |
| `import_feed` | 2 items (an article and a product with two links, one of them the article's), 2 changes, 2 instants, webhook on, 1 request, 1 fault, fair | What becomes of the feed, beside people and moderators? |
| `link_twice` | the same | the same link cannot be posted twice |
| `site_pages` | 3 offers, 2 ttl caches or the sitemap's, 1 change, 1 failed build or restart, fair | What do readers see, and who pays for it? |
| `catalogue_views` | 3 offers, 2 of them posted together, 2 catalogues, 2 changes, room for 2 in the sitemap | Do lists, comparisons and sitemap agree with what is shown? |
| `accounts` | 2 people, 12 tokens, every route; 4 scenes, fair | What may a request do, and what does it leave? |

`merge_race`, `stale_reindex`, `hot_stuck` and `link_twice` each end in a violation; section 4 says of
what. Seven more configurations are kept beside the runs, each of which ends in a violation
too when given to `tlc` with its MC module, `tlc -config TakedownRace.cfg MCOfferLifecycle`:

| Configuration | Module | Instance | Violated |
|---|---|---|---|
| `TakedownRace.cfg` | `MCOfferLifecycle` | 1 offer, expire and disable | `DisabledStaysDisabled` |
| `ErasedLeft.cfg` | `MCVotes` | as `hot_stuck` | `ErasedLeavesNothing` |
| `ToldTwice.cfg` | `MCImporter` | as `import_feed`, the watches another person's | `PriceWatchOnlyForLess` |
| `Replayed.cfg` | `MCImporter` | as `import_feed` | `ReplaysAreNoOps` |
| `LeftBare.cfg` | `MCImporter` | 4 changes, no requests, no faults | `LeftWithNoSourceIsDisabled` |
| `ShopsMapped.cfg` | `MCSite` | as `catalogue_views` | `ShopsLeftOut` |
| `ExpireBudgets.cfg` | `MCAccounts` | a moderator, the three routes that end a deal, 2 requests | `OneBudgetAnOperation` |

Bounds. `MaxRequests` bounds requests in a behaviour, `MaxFaults` failed ticks and
restarts together, `Ageing` the prices that age, `Slots` concurrent requests, `Links`
the links. Three offers make a nested merge, a merge of a group and an unmerge out of the
middle. Two concurrent requests are the least at which a check is overtaken, and every
property of `offer_handlers` relates one transaction to at most one other; four requests
make merge, edit, unmerge and one more. The theorems below lift the safety properties
to all bounds. In `offer_worker` one fault falls at every step of a tick, and two
requests overtake any step of it; its convergence properties are about what happens after.
`Ops` leaves out submit and import there, since nothing in the worker depends on how an
offer came about. Deadlock is not checked in `offer_handlers` and in the
violation runs without a worker: with no request left to send, the system rests.

`votes_groups` starts with a vote that is there and may cast -1, 1 and 0 (remove): two votes
and two moves make a vote before, between and after a merge and an unmerge, a vote on a
merged listing, and a vote refused by the poster of the other half of the group. One vote
at a time is enough there, since its properties relate a vote to moves and to ticks;
`votes_race` has two at a time and three in all, the least at which two pass a limit of 1
together and a third finds it used. `MaxClock` bounds how often time passes,
`MaxMoves` merges, unmerges and status changes. Deadlock is checked in all of them: the tick
never stops.

`import_feed`: two items with a link in common make the cases the code distinguishes, a
new offer, a second source of one, a row that moves, a removal with and without
another source left. Two changes of the feed are the least at which an item changes while
its page is applied, or is removed after it was imported; with `PageSize` 2 both items can
be on one page and one of them be rolled back. One instant passes, after which a
re-confirmation is due. One person posts or reports, one
moderator's act. The product states a link twice (`Candidates`) and its text fails a check, which
decides its review state and nothing else that this run looks at.
Deadlock is not checked: with the bounds used up and nothing due, the system rests.

`site_pages`: `MaxStale` 4, a window and a build of 1 tick give a warm timer of 1 tick,
a copy that passes its window and one that passes its greatest age; `HomeCards` 1 makes a
front page whose sections compete for the same deals. One change is enough: the five lists
are then read from two states in every way there is (a deal voted up, picked, merged or
observed between any two of them), and time passes besides; the sets in `Followed` keep the
two-cache case (who pays for a warm) apart from the changes. The starting catalogue has a
merged offer, whose price outlives the one it is compared with, and a text under review.

`catalogue_views` asks of states, not of behaviours, so it has no caches; its states are those
that two changes and time make of two catalogues. `PerPage` 2 makes a second page, two deals
posted together trade places on it, and `MapMax` 2 leaves one of three deals out. With
nothing cached and the changes used up time still passes, so deadlock is checked.

`accounts`: the scenes are four questions in one run, since what they are about does not
meet. Every kind of token at every route, one request at a time (a right is a matter of one
request); watches, two requests at a time, three in all, with a restart (a create has four
steps and a change of the default two, so each falls between the other's); reports, rings
and decisions, three requests (two moderators on one flag); a deletion with two requests
and a failed delivery. `WatchLimit` and `FlagLimit` are 1, `BudgetLimit` 2, so each is
reached. Deadlock is not checked: when the bounds are used up nothing is left to do.

Properties of `OfferLifecycle`:

- `CheckedMergesStayAcyclic`: no sequence of merges and unmerges makes a cycle.
- `CheckedHiddenIsGone`: a disabled or merged offer has no document, whoever wrote last.
- `CheckedPendingIsNoindex`: text nobody reviewed is not indexable.
- `CheckedDisabledStaysDisabled`: a takedown ends only by a moderator's enable.
- `CheckedMergedRowIsKept`: a merged-away row is what it was, for the unmerge.
- `DueIsExpired` (liveness): a listed offer whose stated end has passed does not stay
  active, through failed ticks and restarts.
- `ListedDocsConverge` (liveness): races leave wrong documents of listed offers, but not
  for good. Note that this one has no `raced`: it holds whatever was overtaken.

Properties of `Votes`:

- `CheckedHotIsTally`: the hot of a canonical offer is made from the votes of its group as
  they are (those of erased accounts aside), after every vote, merge, unmerge and tick.
- `CheckedCastCounts`: the vote that commits is the person's effective vote in the whole
  group, whatever older rows they have on its other listings and however little the
  clock moved.
- `CheckedOwnOfferRefused`: no vote lands on a group that holds an offer of the voter's.
- `CheckedMergedVotesKept`: the votes of a merged listing stay as they were, for the
  unmerge.
- `LimitOvershootBounded`: check-then-insert lets votes pass a limit, by less than the
  number handled at once. It has no `raced`: it holds whatever happens.
- `HotSettles` (liveness): a hot that races have left wrong, and is not 0, comes right.
  No `raced` here either. That a hot of 0 may stay wrong is the run `hot_stuck`.

Properties of `Importer`:

- `KeepsTheLedger`: source rows only move forward, to what Sources has published, each move
  is one observation (a replay is none), and what was taken away stays away. Where two
  imports of one row overlap only the last holds, and that nothing unpublished comes in.
- `CursorNeverSkips`: what the cursor has passed is applied, whatever changed between two
  pages, failed or was read again; only an item whose savepoint was rolled back is not.
- `ShownWhileSourced`: an imported offer is shown exactly while a source of it is there.
- `OneOfferPerLink`: two items, or an item and a person, with one link make one offer, as
  long as transactions see each other; `link_twice` is what happens when they do not.
- `TellsNothingTwice`: a word watch hears once of a group, a price watch only of less, under
  the same condition; `ToldTwice.cfg` is the other case.
- `DropIsADrop`: a deal selected for a drop has a dearer price on record in its currency.
- `FeedCatchesUp` (liveness): once Sources is quiet, every change of it is applied.

Properties of `Site`:

- `RemovedSoonGone`: whatever a ttl cache may answer with (its copy, or the build under way)
  shows no deal that left the lists `MaxStale` before its build began, however builds fail
  and readers share them.
- `EachDealOnce`: the front page shows a deal once, in whatever states its five lists and its
  cards were read; only the soon ending may repeat one of the latest. No list is longer than
  there is room for.
- `OnOnePage`: of a list that does not change, each page shows what no other does, though each is
  a query of its own: who turns the pages meets a deal once, unless another of the list was posted in
  the same millisecond and the query leaves the two in any order.
- `SitemapAgrees`: products are named as their pages judge themselves, from another query; a
  covered list if its own query has something to show; an indexable offer, unless
  `MapMax` others no older took the room; and the files leave no entry out. That an
  offer's entry and its page come to one decision is not part of it: both call `decideOffer`
  on the same reads.
- `OldPricesLast`: nothing is compared ahead of a price that holds now but such a price.
- `NobodyPaysTwice`: without failures, no reader waits for a build after the first, even if
  nobody came for longer than `MaxStale`.
- `WaitersAnswered`, `RemovedLeavesSitemap` (liveness): whoever waits is answered; a deal
  gone for good leaves the sitemap for good.

Properties of `Accounts`:

- `NothingWithoutRight`: what is begun is begun by who may act for the person or by a
  moderator, through either door; a form only by its browser, within its key's life. It says nothing
  of budgets, which are `ExpireBudgets.cfg`'s subject.
- `AudienceAsChosen`: a watch is read by whom its owner chose; a removed one by nobody. Left
  out (`raced`) are a watch made while its owner moves all their watches to another audience, one
  that is removed before its share row is written, and one whose removal a restart cuts off.
- `DecidedOnce`: one open flag of a key; its status is the last logged decision; one decision,
  unless a second moderator had read the flag before the first decided (`raced`).
- `ErasedInTheEnd` (liveness): after an announced deletion nothing in these tables names the
  person, for good.

Fairness. `WF` on each slot's `Finish`: a request that has passed its checks is answered
with a commit or a failure. `WF` on the worker's steps: the interval timer fires for as
long as the process runs, and each step of a tick ends; `Restart` is a new process whose
timer fires too. `WF` on `DayPasses`: time goes on. No fairness for requests, faults or
prices ageing. In `Votes`, `WF` on each slot's `Finish` and on `TickStep`, for the same
reasons. In `Importer`, `SF(ReadPage)`: a tick pulls before it re-confirms (worker.js
48-56), so re-confirmations that keep coming do not keep the puller out; and each
transaction ends (`[]<>` its job is idle). In `Site`, each build ends, `WF` on time, on the
warm timer and on crawlers asking for the sitemap. In `Accounts`, `WF` on `Deliver`: Events
delivers until it is answered. Failures and restarts are finitely many (`MaxFaults`): with one in every
tick nothing would ever converge, and the code promises nothing then.

## 4. What the violations show

Each quotes what the repository says and the code does otherwise. The first, third, fourth
and sixth are runs, the others the configurations kept beside them.

1. `merge_race`. `merge` reads both offers and the group (offers.js:412-415), then
   updates by id (offers.js:420). A into B and B into A, both past their checks, make a
   cycle: both pages redirect, both documents are deleted, and neither can be merged
   again before an unmerge. README.md:169 says "Cycles are refused."
2. `TakedownRace.cfg`. `expire` requires `active` (offers.js:326) and then updates by id
   (offers.js:315). A disable in between is overwritten by `expired`, which is a public
   page; no moderator enabled it. README.md:310: "`takedown` (disabled: hidden)".
3. `stale_reindex`. The full pass lists rows (worker.js:73) and writes each document
   from its copy (worker.js:75). A disable in between has removed the document; the pass
   puts it back, and no later pass lists a hidden offer (listings.js:43-46).
   publication.js:12: "out of feeds, sitemaps, Search".

4. `hot_stuck`. The tick takes offers whose hot is not 0 (hotness.js:84), because "an
   offer whose latest hot is 0 (no net vote) stays 0 until a vote, which takes its own
   snapshot" (hotness.js:76-77). Erasing an account deletes its votes (account-data.js:27)
   and takes no snapshot: of one vote for and one against, one is left, the score is 1, and
   hot stays 0 for good. The same step shows whenever two votes counted at once leave a 0.
5. `ErasedLeft.cfg`. "A deletion removes their ... rate-limit windows" (README.md:125-126).
   The windows of changes on an offer have the key `${subject}:${root.id}` (votes.js:101,
   110) and the deletion removes rows whose key is the subject (account-data.js:39); the
   others, the person's id in them, stay until they are pruned.

6. `link_twice`. A submission and an item look for an offer of their link (offers.js:167,
   source-items.js:222) and then insert; nothing is locked and `deal_offers_url` is not
   unique (migrations/0001_initial.sql:71). Two that look before either commits make two
   offers of one link. README.md:160-161: "cannot be posted twice".
7. `ToldTwice.cfg`. onObservation reads the notifications there are (watches.js:143) in its own
   transaction and claims `(watch_id, observation_id)`: a revision and a report of one offer,
   matched at once, notify one watch twice, the second time of no lower price. README.md:240-241:
   "a price watch again only for a lower price"; watches.js:17-18 the same. Two observations
   from one source row cannot: the second waits at the UPDATE of the row
   (source-items.js:205) and then finds the notification.
8. `Replayed.cfg`. `advanced` is decided from a row read without a lock (source-items.js:201-203): a
   pull that an event woke and a re-confirmation of the tick each record the same
   revision. source-items.js:39-41: "so replays are no-ops", README.md:250: "a replay changes
   nothing".
9. `LeftBare.cfg`. Two items of one offer, removed at once by a pull and a re-confirmation, each
   count the other's source as there (source-items.js:163): the offer stays shown with none.
   source-items.js:43-44: "an imported offer left with no source is disabled."
10. `ShopsMapped.cfg`. README.md:150-151 says of shops' pages "Like store pages, they are not in the
    sitemap." pageEntries adds `/at` and each shop with a deal (discovery.js:125-127), as
    its header says (discovery.js:11-12).
11. `ExpireBudgets.cfg`. actor-limits.js:58-59 and README.md:215-216: "A page form and the API route
    that do the same thing share one budget." The moderators' form expires an offer on
    `deals.offer.moderate` (pages.js:678, 689), the API (api.js:126) and the deal's form
    (pages.js:388) on `deals.offer.update`: refused by one, a moderator goes on by the other.

A WHERE clause on the status or on `merged_into` in the UPDATE, or reading the row again
inside the transaction (`SELECT ... FOR UPDATE`), would close the first two; reading the
offer again inside the pass's transaction the third; a snapshot of each offer an erased
person voted on the fourth; a prefix match on the key the fifth. A unique index on the link of
offers that are not disabled closes the sixth, a lock on the group (its root's row) before
the watches are matched or the sources counted the seventh and the ninth, `FOR UPDATE` when the source
row is read the eighth.

Disagreements of the same kind that have no run of their own:

- README.md:431 says "watches are visible only to their owner". Since watches can be shared
  they are visible to whom the owner chose (sharing.js:4-8), and `AudienceAsChosen` says so.
- The pages of stores call themselves indexable (`/s`, pages.js:456) and are in no sitemap, as
  README.md:151 says; `SitemapAgrees` is about the other lists.
- flags.js:42 keys a person's report by `user:${subject}:${root.id}`, and deleting the account
  makes the row authorless but leaves the key (account-data.js:35, and the list of what is
  rekeyed at 9-13): the person's id stays in `dedupe_key`.
- actor-limits.js:62-63 says each cap "sits above the per-person abuse control for the same
  action". For watches the cap is 30 a minute and the control 50 watches, so a person making
  their watches is refused inside it. `POST /watches/defaults` has no budget (pages.js:611).

## 5. Proofs

`MergeForest_proofs` proves the algebra: a chain contains its offer and is closed; it
ends at a root if pointers are acyclic, and that root is unique (`RootIsUnique`);
pointing an unmerged offer at one outside its group keeps the pointers acyclic
(`MergeKeepsAcyclic`), clearing a pointer does too (`UnmergeKeepsAcyclic`).

`OfferLifecycle_proofs` proves the type invariant and all five `Checked...` properties
as theorems of `Spec`, for any sets of offers, links and slots and any bounds, from
`ConstantsAssumption` only. None of them is inductive alone: a commit is right because
of what its checks saw. The inductive invariant `IInv` adds

- `RequestsNamed`: an open request names offers that exist, of the right kind for its
  operation;
- `RequestsHold`: as long as `raced` is false, an open request that is not stale
  `Hold`s, that is, its checks are true of the rows as they are now: the offer a
  request acts on is a root, it has the status its handler requires, and the target of a
  merge is outside the group.

The argument has three parts: the checks of each handler establish `Hold` on an acyclic
forest; no transaction disturbs the `Hold` of a request it does not make stale; and a
transaction whose request holds has its effect (a takedown is kept unless it is an
enable, merged rows are kept, pointers stay acyclic, the documents of every written
offer are right). `CheckedDisabledStaysDisabled` and `CheckedMergedRowIsKept` are action
properties, proved from the same invariant.

`Votes_proofs` and `VotesGroups_proofs` prove the type invariant and every safety
property of `Votes`, from `VotesAssumption` only.

- Types need that every person has an effective vote in every group, that is, that a
  nonempty finite set of rows has a latest one (`SomeRowIsLatest`). The library's
  induction takes an operator and is out of reach; instead, the strict subsets of a
  finite set are well founded (`FS_StrictSubsetOrderingWellFounded`), so a set without a
  latest row has a smallest such subset (`WFMin`), and taking one row out of it gives the
  contradiction.
- `LimitOvershoot`: the bound on `hits` is not inductive, since it says nothing of votes
  between check and insert. `RoomForPassed` counts them: `hits[v]` and the votes of `v` that
  have passed the check are together at most `VoteLimit + |Slots| - 1`.
- `OwnOfferRefused`, `MergedVotesKept`: `GInv` says that until something overtakes it, a
  vote `Knows` its group: its offer is canonical, the group is the one it read, and the
  voter posted none of it. The step that matters is a move elsewhere: `MergeIsLocal` and
  `UnmergeIsLocal` show that it changes no group but those whose readers it marks, from
  `MergeForest_proofs`' `MergeChangesOneGroup` and `UnmergeChangesOneGroup`.
- `HotIsTally`, `CastCounts`: `HInv` adds, while `raced` is false, that an admitted vote is
  later than the voter's rows on the rest of the group (`Ordered`), that a counted one
  has the tally its commit makes (`Counted`), and the same for the tick. Two groups
  are disjoint, so a commit disturbs one tally only.

`Importer_proofs` proves the type invariant, every safety property of `Importer` and that
it keeps the ledger (`ImporterKeepsTheLedger`: `Spec => KeepsTheLedger`), for any items,
links, statements, watches, people's statements, sizes of page and bounds, from
`ImporterAssumption` only.

- An item's candidates and a page's items are folds: functions of how many have been
  applied. `ItemIsARun` and `PageIsARun` say that such a function exists and that each of its values is
  made from the one before; what holds at the start and is kept by each step then holds
  at the end (`UpTo`: a least counterexample has a predecessor). The library's induction takes an
  operator and is out of reach; `SomeLeast` needs only that strict subsets of finite sets are
  well founded.
- What one candidate makes of a database is `PartApplied`: the row it moves `Advances` by one
  observation or `Stays`, the database stays `Sound` (rows and the offers made for them come
  together, merge pointers are acyclic) and, if nothing raced, `Untouched` (one offer a link, shown as
  sourced, nothing told twice). `ItemRemoved`, `ItemApplied` and `PageApplied` carry it on.
- A transaction commits over what others have committed since. `OverRows`, `OverOffers`,
  `OverCount` and `AppendedDrops` say what becomes of rows, offers and observations then, and
  `OverIsSound` that no overlap breaks `Sound`. What makes this go through is `Since`: all that a
  transaction saw is still there, and grew.
- `IInv` is what each job in hand knows: a page holds published versions, each item once,
  and every change between the cursor it read and its end (`Pulling`); a re-confirmation
  holds an item whose rows are there (`Refreshing`), so only the puller makes offers; a person's
  new offer has an id of its own (`Asking`). Every row is `Behind` Sources. With these, a page's commit
  makes the items it held `Current` and disturbs no others, which is `CursorNeverSkips`.
- `DropIsADrop` needs no more than the moment a reason is decided: it is on record when it is
  said (`DropOnRecord`), and observations are never changed or removed, whatever commits beside.

`Accounts_proofs` proves the type invariant, `NothingWithoutRight`, `DecidedOnce` and
`AudienceAsChosen` from `AccessAssumption` and `AccountsAssumption`, for any people, moderators, tokens,
routes of the table, limits, slots and restarts.

- `RouteIsItsOperation` goes through the table of routes: every route asks what its
  operation asks, whatever the door. Which budget it is charged to is not part of it: for
  the moderators' expire the doors differ (section 4).
- `ViewerOfToken`: a viewer with a subject comes from a token that acts for that person, and a
  moderator's right from a moderator's token. With it, `AdmittedIsEntitled`: whoever passes
  `Arrive` is `Entitled` to the operation.
- The inductive invariant `Inv` keeps this in each request until it ends (`Held`): a restart
  starts a new form key, and ends the requests that used the old one. `Prepared` adds what a request has
  read by each of its steps, which types need.
- `DecidedOnce` is not inductive: it says nothing of moderators between read and write.
  `Decisions` adds `ReadOpen`, that one who was not overtaken has read a flag without a decision.
- `AudienceAsChosen`: `Sharing` adds what the share row is while a watch is made (none yet; the
  request's audience is what its owner has chosen, unless the request is stale) and when it is
  removed (none, but while a request is between marking and forgetting it), and that one
  request makes a watch (`MadeAlone`). `ViewedByRight` is the other half: whom a share row
  admits is `MayRead`, through either door.

`Site_proofs` proves the type invariant and all six other invariants of `Site`, from
`CatalogueAssumption` and `SiteAssumption`: for any finite set of offers, posted together or
not, any facts about them, sizes of page, sitemap file and sitemap query, windows, build
times, changes and faults.

- Lists. `PlacesFill`: under an order that ties no two members of a finite set, the number of
  members before each is a bijection onto `1 .. Cardinality(S)` (it is injective by
  `PlacesRise`, and the library has the rest). So `Sorted(S, op)` `Lists` S: every member once, in
  order (`SortedLists`). The orders of the code do tie deals posted together: a list is
  sorted under its order made total by some order of the ties, `TiesBreak` and `LaterStrict` say
  that any such one will do, and there is one lemma for each list.
- The front page (`EachDealOnce`). `OnlyOnce`, `FirstOnce` and `TakeOnce` carry "names none twice"
  through filters and limits, and `HomeSections` through the dealing out, for candidate lists
  and cards that are each read from a state of their own: a deal is dealt once because the code
  marks what it has dealt, not because its queries agree. `HomeRowsActive`: what was read was
  active then.
- Pages (`OnOnePage`). `CutSpread`: a list cut every `size` entries is spread over its pages, and
  `PageNumber` finds the page of a place (the number of pages is a division rounded up).
  `PlacesAgree`: an offer that no other ties with has the same place however the ties are broken, so
  the pages, each read under an order of its own, show it once between them (`OnPageOf`,
  `EachOnOnePage`). Of deals that do tie nothing is claimed, since the code does not order them.
- `SitemapAgrees`: `ChunksCut` (the files cut the list of entries), `RowsNewest` (each query's rows,
  each once, with nothing newer left out by its limit), `OffersNamed` and `ProductsEntered` (what
  the rows enter), `IndexedProducts` (the newest observation over a product's offers is fresh exactly
  if some active offer is), `IndexedLists`.
- `OldPricesLast`: `BeforeStrict` shows the comparison's four-part order to be total and to tie
  no two views; nothing before a view of rank 1 can have another rank.
- `RemovedSoonGone` is not inductive: it says nothing of a build that has read its rows and not
  ended. `Behind` says that a build is no further behind the lists than the time it has taken,
  and a copy that may be served no further than that and its age.
- `NobodyPaysTwice` needs `WarmsInTime`: the worker is on (`HomeTtl > 0`), and a period of the warm
  timer and one build of each warmed cache together take less than `MaxStale`. It is what makes
  the property true, since builds slower than that do let a copy grow too old; in production
  (config.js:62-65, pages.js:240) the period is 45 s and `MaxStale` 180 s, which leaves the two
  builds 135 s. The code does not enforce it. The inductive invariant `Warm` says that each
  warmed copy was either made in the last round, or is young enough that the round under way
  reaches it, build by build, before it is too old (`Reaches`).

TLC only: the liveness properties (TLAPS does not prove liveness under fairness); the absence
of deadlock; and everything about the violations. Every invariant and every safety property of
the passing runs is proved.

## 6. What is left

Worth adding next, in this order:

1. The documents of imported offers: `Importer` has none, so that a re-import of a merged offer
   leaves its canonical offer's document to the worker is only seen in `OfferLifecycle`.
2. Two moderators and two people at once in the first scene of `accounts`, and longer feeds in
   `import_feed`: the state spaces grow past a few minutes, the questions stay the same.
3. The step from `Votes` to an abstract tally, as `FeedLedger` is to `Importer`.

Not modelled:

- Catalog of stores and products (`catalog.js`): looked up, then inserted if missing, under unique indexes; what
  an alias resolves to enters as the constant `product`, `store` of an offer.
- Crowdfunding campaigns: the importer's feed again, with a last-revision-wins upsert and
  no state that other parts read.
- Source policies and values, configuration: functions of their input, read once.
- Rendering, agent pages, clients of other services, telemetry: output, or calls whose
  failures the modules have as faults.
- The order in which a stopping process closes its server, timers and pool: a stop is a
  restart here, which may cut off anything anywhere.
- A merge into an offer that was itself merged, in the worker's passes: `AgedInto` resolves one
  pointer as listings.js:50 does, but `offer_worker` has two offers, so that its liveness
  stays checkable.
- Pages of JSON that only read; the details of a flag; limits by IP hash; the words of a
  query.
