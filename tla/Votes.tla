------------------------------- MODULE Votes -------------------------------
(***************************************************************************)
(* Votes and hotness over merge groups: server/domain/votes.js, hotness.js *)
(* and limits.js, the merges, unmerges and status changes of offers.js that *)
(* they meet, and the erasing of an account (account-data.js).             *)
(*                                                                         *)
(* A vote is read over the group of an offer: the effective vote of a      *)
(* person is the newest of their rows in it.  A snapshot stores the tally  *)
(* it was made from; hot is that tally's net weight, aged.  Here a         *)
(* snapshot is its tally: age changes hot, never whether it is 0.          *)
(*                                                                         *)
(* A vote is four steps: its checks, its reads inside store.tx (Admit),    *)
(* its row and the snapshot's tally (Count), the commit.  Between them     *)
(* other requests commit; what is not committed nobody else sees.          *)
(***************************************************************************)
EXTENDS Integers, FiniteSets, Functions, MergeForest

CONSTANTS
    Offers, Voters, NoOffer, NoVoter,
    Slots,          \* votes the service can be handling at the same time
    Poster,         \* who submitted each offer, NoVoter for an import
    VotedEarlier,   \* the offer each voter has voted for before the start, if any
    NewAccounts,    \* voters whose account is new at the start
    VoteLimit,      \* config.abuse.voteSubjectPerHour
    PairLimit,      \* config.abuse.voteOfferChangesPerHour
    Cast,           \* values voted in this instance: 1, -1, or 0 to remove a vote
    MayErase,       \* voters whose account may be erased in this instance
    MaxVotes,       \* bound: votes started in one behaviour
    MaxMoves,       \* bound: merges, unmerges and status changes in one behaviour
    MaxClock,       \* bound: passings of time, from one instant to a later one
    MaxFaults       \* bound: failed ticks in one behaviour

ASSUME VotesAssumption ==
    /\ NoOffer \notin Offers
    /\ NoVoter \notin Voters
    /\ IsFiniteSet(Offers) /\ IsFiniteSet(Slots) /\ Slots # {}
    /\ Poster \in [Offers -> Voters \cup {NoVoter}]
    /\ VotedEarlier \in [Voters -> Offers \cup {NoOffer}]
    /\ NewAccounts \subseteq Voters
    /\ VoteLimit \in Nat \ {0} /\ PairLimit \in Nat \ {0}
    /\ Cast \subseteq {-1, 0, 1} /\ MayErase \subseteq Voters
    /\ MaxVotes \in Nat /\ MaxMoves \in Nat /\ MaxClock \in Nat /\ MaxFaults \in Nat

VARIABLES
    merged,     \* deal_offers.merged_into
    status,     \* deal_offers.status
    poster,     \* deal_offers.submitted_by
    row,        \* deal_votes, by offer and voter
    snap,       \* the tally behind each offer's hot_latest
    hits,       \* rate_events 'vote' of the last hour
    pairHits,   \* rate_events 'vote_offer' of the last hour
    young,      \* voters with no evidence yet that their account is old enough
    erased,     \* accounts erased
    req, tick,  \* votes being handled; the worker's hotness.tick
    clock,      \* store.now()
    nextSeq,    \* the identity sequence of deal_votes
    votes, moves, faults,   \* counted against their bounds
    raced       \* history: something was written from a read that was overtaken

catalog == <<merged, status, poster>>
ballots == <<row, snap, nextSeq>>
limits  == <<hits, pairHits>>
people  == <<young, erased>>
bounds  == <<clock, votes, moves, faults>>
vars == <<catalog, ballots, limits, people, req, tick, bounds, raced>>

-----------------------------------------------------------------------------
\* Weight 1 is 4 here and DEALS_NEW_ACCOUNT_WEIGHT, 0.25, is 1.
Full  == 4
Row   == [value : {-1, 0, 1}, weight : {0, 1, Full}, at : Nat, seq : Nat]
NoRow == [value |-> 0, weight |-> 0, at |-> 0, seq |-> 0]

Tallies == [Voters -> (-Full)..Full]
NoVotes == [v \in Voters |-> 0]

\* `ids` is the group as the checks read it, `row` what the vote will write,
\* `tally` what its snapshot has counted.  `stale` is history: another commit
\* has changed what this vote has read.
Request == [pc : {"idle", "checked", "admitted", "counted"}, voter : Voters \cup {NoVoter},
            root : Offers \cup {NoOffer}, ids : SUBSET Offers, row : Row, tally : Tallies,
            stale : BOOLEAN]
Idle == [pc |-> "idle", voter |-> NoVoter, root |-> NoOffer, ids |-> {}, row |-> NoRow,
         tally |-> NoVotes, stale |-> FALSE]

\* hotness.tick: the offers it took, then the tally it counted for each.
TickState == [pc : {"idle", "listed", "counted"}, ids : SUBSET Offers,
              tally : [Offers -> Tallies], stale : BOOLEAN]
NoTick == [pc |-> "idle", ids |-> {}, tally |-> [o \in Offers |-> NoVotes], stale |-> FALSE]

-----------------------------------------------------------------------------
(* Reads (reads.js): rows in order of updated_at, then of insertion; the    *)
(* last one of each person counts.                                         *)

Later(a, b) == a.at > b.at \/ (a.at = b.at /\ a.seq > b.seq)

Effective(rows, ids, v) ==
    LET mine == {rows[o][v] : o \in ids}
    IN  CHOOSE r \in mine : \A s \in mine : ~Later(s, r)

\* A fault: every row of the group counts.
TallyEveryRow(rows, ids) ==
    [v \in Voters |-> LET weighed == [o \in ids |-> rows[o][v].value * rows[o][v].weight]
                     IN  SumFunction(weighed)]

Tally(rows, ids) ==
    [v \in Voters |-> LET r == Effective(rows, ids, v) IN r.value * r.weight]

GroupTally(o) == Tally(row, Group(merged, o))

Net(t) == SumFunction(t)

-----------------------------------------------------------------------------
(* What a commit overtakes.                                                *)

\* Pointers written inside the groups that make up `around`: the votes that
\* have read one of them.
OvertakenByMove(around) ==
    [p \in Slots |-> [req[p] EXCEPT !.stale = @ \/ req[p].ids \cap around # {}]]

\* Votes written in the group ids: the snapshots counted without them.
OvertakenByVote(ids) ==
    [p \in Slots |-> [req[p] EXCEPT !.stale =
                         @ \/ (req[p].pc = "counted" /\ req[p].ids \cap ids # {})]]

TickOvertaken(ids) ==
    [tick EXCEPT !.stale = @ \/ (tick.pc = "counted" /\ tick.ids \cap ids # {})]

-----------------------------------------------------------------------------
(* Votes.                                                                  *)

\* A fault: only the canonical offer's poster is asked.
MayVoteUnlessRootIsOwn(v, r) == status[r] # "disabled" /\ poster[r] # v

\* apply before its transaction: the offer is not taken down, and nobody votes
\* on a group that holds an offer they posted.
MayVote(v, r) ==
    /\ status[r] # "disabled"
    /\ \A o \in Group(merged, r) : poster[o] # v

\* A fault: the vote is written on the listing that was named.
StartVoteOnListing(p, v, listing, x) ==
    /\ req[p].pc = "idle"
    /\ votes < MaxVotes
    /\ v \notin erased
    /\ MayVote(v, listing)
    /\ req' = [req EXCEPT ![p] =
                  [Idle EXCEPT !.pc = "checked", !.voter = v, !.root = listing,
                               !.ids = Group(merged, listing), !.row.value = x]]
    /\ votes' = votes + 1
    /\ UNCHANGED <<catalog, ballots, limits, people, tick, clock, moves, faults, raced>>

\* `listing` is the offer the request names, which may be merged.
StartVote(p, v, listing, x) ==
    \E r \in Roots(merged, listing) :
        /\ req[p].pc = "idle"
        /\ votes < MaxVotes
        /\ v \notin erased
        /\ MayVote(v, r)
        /\ req' = [req EXCEPT ![p] =
                      [Idle EXCEPT !.pc = "checked", !.voter = v, !.root = r,
                                   !.ids = Group(merged, r), !.row.value = x]]
        /\ votes' = votes + 1
        /\ UNCHANGED <<catalog, ballots, limits, people, tick, clock, moves, faults, raced>>

\* Nothing is written: the vote is already so, a limit is reached, or something
\* fails and the transaction is rolled back.
EndVote(p) ==
    /\ req[p].pc # "idle"
    /\ req' = [req EXCEPT ![p] = Idle]
    /\ UNCHANGED <<catalog, ballots, limits, people, tick, bounds, raced>>

\* A fault: the person's own limit is not looked at.
WithinPairLimit(v, r) == pairHits[v][r] < PairLimit

\* limits.check for the person, and for the person and the offer.
WithinLimits(v, r) == hits[v] < VoteLimit /\ pairHits[v][r] < PairLimit

WeightFor(v) == IF v \in young THEN 1 ELSE Full

\* A fault: the time of the vote, even if the person's last row has it too.
WriteTimeNow(last) == clock

\* updated_at comes after the person's last row in the group.
WriteTime(last) == IF last >= clock THEN last + 1 ELSE clock

\* The reads inside the transaction.
AdmitVote(p) ==
    LET v == req[p].voter  r == req[p].root  ids == req[p].ids IN
    \E last \in {row[o][v].at : o \in ids} :
        /\ req[p].pc = "checked"
        /\ Effective(row, ids, v).value # req[p].row.value
        /\ WithinLimits(v, r)
        /\ \A o \in ids : row[o][v].at <= last
        /\ req' = [req EXCEPT ![p] = [@ EXCEPT !.pc = "admitted", !.row.weight = WeightFor(v),
                                               !.row.at = WriteTime(last)]]
        /\ UNCHANGED <<catalog, ballots, limits, people, tick, bounds, raced>>

\* A fault: the snapshot is counted before the row is written.
CountVoteFirst(p) ==
    LET v == req[p].voter  r == req[p].root
        new == [req[p].row EXCEPT !.seq = IF row[r][v] = NoRow THEN nextSeq ELSE row[r][v].seq]
    IN
    /\ req[p].pc = "admitted"
    /\ \A q \in Slots : ~(req[q].pc = "counted" /\ req[q].voter = v /\ req[q].root = r)
    /\ req' = [req EXCEPT ![p] = [@ EXCEPT !.pc = "counted", !.row = new, !.tally = GroupTally(r)]]
    /\ nextSeq' = (IF row[r][v] = NoRow THEN nextSeq + 1 ELSE nextSeq)
    /\ UNCHANGED <<catalog, row, snap, limits, people, tick, bounds, raced>>

\* The upsert, which keeps the place in the insertion order of a row that is
\* there and waits for another upsert of the same row; then the tally of the
\* snapshot: what is committed, and this row.
CountVote(p) ==
    LET v == req[p].voter  r == req[p].root
        new == [req[p].row EXCEPT !.seq = IF row[r][v] = NoRow THEN nextSeq ELSE row[r][v].seq]
    IN
    /\ req[p].pc = "admitted"
    /\ \A q \in Slots : ~(req[q].pc = "counted" /\ req[q].voter = v /\ req[q].root = r)
    /\ req' = [req EXCEPT ![p] = [@ EXCEPT !.pc = "counted", !.row = new,
                  !.tally = Tally([row EXCEPT ![r][v] = new], Group(merged, r))]]
    /\ nextSeq' = (IF row[r][v] = NoRow THEN nextSeq + 1 ELSE nextSeq)
    /\ UNCHANGED <<catalog, row, snap, limits, people, tick, bounds, raced>>

CommitVote(p) ==
    LET v == req[p].voter  r == req[p].root IN
    /\ req[p].pc = "counted"
    /\ row' = [row EXCEPT ![r][v] = req[p].row]
    /\ hits' = [hits EXCEPT ![v] = @ + 1]
    /\ pairHits' = [pairHits EXCEPT ![v][r] = @ + 1]
    /\ snap' = [snap EXCEPT ![r] = req[p].tally]
    /\ req' = [OvertakenByVote(Group(merged, r)) EXCEPT ![p] = Idle]
    /\ tick' = TickOvertaken(Group(merged, r))
    /\ raced' = (raced \/ req[p].stale)
    /\ UNCHANGED <<catalog, nextSeq, people, bounds>>

-----------------------------------------------------------------------------
(* Moderation.  Checks and transaction are one step here: what overtakes   *)
(* them is the subject of OfferLifecycle.                                  *)

\* offers.js: merge.  The snapshot of the target is taken over its new group.
Merge(d, t) ==
    \E r \in Roots(merged, t) :
        /\ moves < MaxMoves
        /\ merged[d] = NoOffer
        /\ r \notin Group(merged, d)
        /\ merged' = [merged EXCEPT ![d] = r]
        /\ snap' = [snap EXCEPT ![r] = Tally(row, Group(merged', r))]
        /\ req' = OvertakenByMove(Group(merged, d) \cup Group(merged, r))
        /\ tick' = TickOvertaken(Group(merged, d) \cup Group(merged, r))
        /\ moves' = moves + 1
        /\ UNCHANGED <<status, poster, row, nextSeq, limits, people, clock, votes, faults, raced>>

\* A fault: the group left behind gets no snapshot of its own.
UnmergeOneSnapshot(d) ==
    \E r \in Roots(merged, d) :
        /\ moves < MaxMoves
        /\ merged[d] # NoOffer
        /\ merged' = [merged EXCEPT ![d] = NoOffer]
        /\ snap' = [snap EXCEPT ![d] = Tally(row, Group(merged', d))]
        /\ req' = OvertakenByMove(Group(merged, r))
        /\ tick' = TickOvertaken(Group(merged, r))
        /\ moves' = moves + 1
        /\ UNCHANGED <<status, poster, row, nextSeq, limits, people, clock, votes, faults, raced>>

\* offers.js: unmerge.  Both groups get a snapshot.
Unmerge(d) ==
    \E r \in Roots(merged, d) :
        /\ moves < MaxMoves
        /\ merged[d] # NoOffer
        /\ merged' = [merged EXCEPT ![d] = NoOffer]
        /\ snap' = [snap EXCEPT ![r] = Tally(row, Group(merged', r)),
                                ![d] = Tally(row, Group(merged', d))]
        /\ req' = OvertakenByMove(Group(merged, r))
        /\ tick' = TickOvertaken(Group(merged, r))
        /\ moves' = moves + 1
        /\ UNCHANGED <<status, poster, row, nextSeq, limits, people, clock, votes, faults, raced>>

\* offers.js: expire, disable, enable.
SetStatus(o, s) ==
    /\ moves < MaxMoves
    /\ \/ s = "expired" /\ status[o] = "active"
       \/ s = "disabled" /\ status[o] # "disabled"
       \/ s # "disabled" /\ status[o] = "disabled"
    /\ status' = [status EXCEPT ![o] = s]
    /\ moves' = moves + 1
    /\ UNCHANGED <<merged, poster, ballots, limits, people, req, tick, clock, votes, faults, raced>>

-----------------------------------------------------------------------------
(* hotness.tick, for offers created in the last hotWindowDays.             *)

\* A fault: offers voted down are forgotten.
HasHotAboveZero(o) == Net(snap[o]) > 0

\* The active canonical offers whose hot is not 0.
HasHot(o) == Net(snap[o]) # 0
Ticked == {o \in Offers : status[o] = "active" /\ merged[o] = NoOffer /\ HasHot(o)}

TickList ==
    /\ tick.pc = "idle"
    /\ tick' = [NoTick EXCEPT !.pc = "listed", !.ids = Ticked]
    /\ UNCHANGED <<catalog, ballots, limits, people, req, bounds, raced>>

TickCount ==
    /\ tick.pc = "listed"
    /\ tick' = [tick EXCEPT !.pc = "counted",
                            !.tally = [o \in Offers |-> IF o \in tick.ids THEN GroupTally(o) ELSE NoVotes]]
    /\ UNCHANGED <<catalog, ballots, limits, people, req, bounds, raced>>

TickWrite ==
    /\ tick.pc = "counted"
    /\ snap' = [o \in Offers |-> IF o \in tick.ids THEN tick.tally[o] ELSE snap[o]]
    /\ raced' = (raced \/ tick.stale)
    /\ tick' = NoTick
    /\ UNCHANGED <<catalog, row, nextSeq, limits, people, req, bounds>>

\* An error in the tick, or a restart of the process.
FailTick ==
    /\ tick.pc # "idle"
    /\ faults < MaxFaults
    /\ faults' = faults + 1
    /\ tick' = NoTick
    /\ UNCHANGED <<catalog, ballots, limits, people, req, clock, votes, moves, raced>>

-----------------------------------------------------------------------------
(* People and time.                                                        *)

\* account-data.js: rows keyed by the person go, their offers stay without
\* them.  A 'vote_offer' event has another key and stays.
Erase(v) ==
    /\ v \in MayErase \ erased
    /\ row' = [o \in Offers |-> [row[o] EXCEPT ![v] = NoRow]]
    /\ poster' = [o \in Offers |-> IF poster[o] = v THEN NoVoter ELSE poster[o]]
    /\ hits' = [hits EXCEPT ![v] = 0]
    /\ erased' = erased \cup {v}
    /\ UNCHANGED <<merged, status, snap, nextSeq, pairHits, young, req, tick, bounds, raced>>

\* A vote leaves the hour the limits look at.
HourPasses(v, r) ==
    /\ clock < MaxClock
    /\ pairHits[v][r] > 0
    /\ clock' = clock + 1
    /\ pairHits' = [pairHits EXCEPT ![v][r] = @ - 1]
    /\ hits' = [hits EXCEPT ![v] = IF @ > 0 THEN @ - 1 ELSE 0]
    /\ UNCHANGED <<catalog, ballots, people, req, tick, votes, moves, faults, raced>>

AccountAges(v) ==
    /\ clock < MaxClock
    /\ v \in young
    /\ young' = young \ {v}
    /\ clock' = clock + 1
    /\ UNCHANGED <<catalog, ballots, limits, erased, req, tick, votes, moves, faults, raced>>

ClockTicks ==
    /\ clock < MaxClock
    /\ clock' = clock + 1
    /\ UNCHANGED <<catalog, ballots, limits, people, req, tick, votes, moves, faults, raced>>

-----------------------------------------------------------------------------
EarlierRow(v) == [value |-> 1, weight |-> IF v \in NewAccounts THEN 1 ELSE Full, at |-> 0, seq |-> 1]

Init ==
    /\ merged = [o \in Offers |-> NoOffer]
    /\ status = [o \in Offers |-> "active"]
    /\ poster = Poster
    /\ row = [o \in Offers |-> [v \in Voters |-> IF VotedEarlier[v] = o THEN EarlierRow(v) ELSE NoRow]]
    /\ snap = [o \in Offers |-> GroupTally(o)]
    /\ nextSeq = 2
    /\ hits = [v \in Voters |-> 0]
    /\ pairHits = [v \in Voters |-> [o \in Offers |-> 0]]
    /\ young = NewAccounts /\ erased = {}
    /\ req = [p \in Slots |-> Idle]
    /\ tick = NoTick
    /\ clock = 1
    /\ votes = 0 /\ moves = 0 /\ faults = 0
    /\ raced = FALSE

Finish(p) == AdmitVote(p) \/ CountVote(p) \/ CommitVote(p) \/ EndVote(p)
TickStep  == TickList \/ TickCount \/ TickWrite

Next ==
    \/ \E p \in Slots : Finish(p)
    \/ \E p \in Slots, v \in Voters, o \in Offers, x \in Cast : StartVote(p, v, o, x)
    \/ \E d, t \in Offers : Merge(d, t)
    \/ \E d \in Offers : Unmerge(d)
    \/ \E o \in Offers, s \in {"active", "expired", "disabled"} : SetStatus(o, s)
    \/ TickStep \/ FailTick
    \/ \E v \in Voters : Erase(v) \/ AccountAges(v) \/ \E r \in Offers : HourPasses(v, r)
    \/ ClockTicks

Spec == Init /\ [][Next]_vars
\* A vote that was received is answered, and the worker's timer fires.
FairSpec == Spec /\ (\A p \in Slots : WF_vars(Finish(p))) /\ WF_vars(TickStep)

-----------------------------------------------------------------------------
TypeOK ==
    /\ merged \in [Offers -> Offers \cup {NoOffer}]
    /\ status \in [Offers -> {"active", "expired", "disabled"}]
    /\ poster \in [Offers -> Voters \cup {NoVoter}]
    /\ row \in [Offers -> [Voters -> Row]]
    /\ snap \in [Offers -> Tallies]
    /\ nextSeq \in Nat \ {0}
    /\ hits \in [Voters -> Nat] /\ pairHits \in [Voters -> [Offers -> Nat]]
    /\ young \subseteq Voters /\ erased \subseteq Voters
    /\ req \in [Slots -> Request]
    /\ tick \in TickState
    /\ clock \in Nat \ {0} /\ votes \in Nat /\ moves \in Nat /\ faults \in Nat
    /\ raced \in BOOLEAN

-----------------------------------------------------------------------------
(* Properties.  Those named Checked hold until something is written from a *)
(* read that was overtaken (raced), or speak of votes that were not.       *)

\* The hot of a canonical offer is made from the votes of its group as they are,
\* everyone's except those of erased accounts, after any sequence of votes,
\* merges, unmerges and ticks (hotness.snapshot in each of them).
CheckedHotIsTally ==
    ~raced => \A o \in Offers : merged[o] = NoOffer =>
                 \A v \in Voters \ erased : snap[o][v] = GroupTally(o)[v]

\* A limit is checked before its event is inserted, so votes handled at once may
\* pass it together: it is exceeded by at most the votes handled beside one
\* (limits.check, limits.hit).
LimitOvershootBounded ==
    \A v \in Voters : hits[v] <= VoteLimit + Cardinality(Slots) - 1

\* A vote is the person's effective vote when it commits, whatever their other
\* rows in the group are and whatever the clock says (votes.js:106: "most
\* recent" is exact).
CheckedCastCounts ==
    [][\A p \in Slots : CommitVote(p) /\ ~raced' =>
          Effective(row', Group(merged, req[p].root), req[p].voter).value = req[p].row.value]_vars

\* A vote whose group was not changed under it is not one on a group that holds
\* the person's own offer (votes.js:91, README.md:198).
CheckedOwnOfferRefused ==
    [][\A p \in Slots : CommitVote(p) /\ ~req[p].stale =>
          \A o \in Group(merged, req[p].root) : poster[o] # req[p].voter]_vars

\* While an offer is merged into another, votes on the group leave its own votes
\* as they were: an unmerge gives them back.
CheckedMergedVotesKept ==
    [][~raced' => \A o \in Offers, v \in Voters :
          merged[o] # NoOffer /\ v \notin erased' => row'[o][v] = row[o][v]]_vars

\* Whatever was overtaken, a hot that is not 0 does not stay wrong: a tick makes
\* it the hot of the votes of the group.
HotSettles ==
    \A o \in Offers :
        <>[](status[o] = "active" /\ merged[o] = NoOffer /\ Net(snap[o]) # 0 =>
                Net(snap[o]) = Net(GroupTally(o)))

\* hotness.js:17-18, 75-78: an active canonical offer's hot is that of its votes
\* before long, by a vote's own snapshot or by the worker's.
HotFollowsVotes ==
    \A o \in Offers :
        <>[](status[o] = "active" /\ merged[o] = NoOffer => Net(snap[o]) = Net(GroupTally(o)))

\* account-data.js:6-8: an erased person's votes and rate-limit windows are gone.
ErasedLeavesNothing ==
    \A v \in erased, o \in Offers : row[o][v] = NoRow /\ pairHits[v][o] = 0 /\ hits[v] = 0
=============================================================================
