------------------------- MODULE VotesGroups_proofs -------------------------
(***************************************************************************)
(* Theorems about the groups votes are read over: what a vote that nothing *)
(* has overtaken still knows when it commits, and what hot is made from.   *)
(***************************************************************************)
EXTENDS Votes_proofs

-----------------------------------------------------------------------------
(* Moves: the groups in `touched` change, and no other.                    *)

MoveIsLocal(touched) ==
    /\ req' = OvertakenByMove(touched) /\ tick' = TickOvertaken(touched)
    /\ \A o \in Offers \ touched : merged'[o] = merged[o]
    /\ \A o \in Offers \ touched :
          merged[o] = NoOffer => Group(merged', o) = Group(merged, o)
    /\ \A o \in Offers : merged'[o] = NoOffer =>
          \/ snap'[o] = Tally(row, Group(merged', o))
          \/ /\ snap'[o] = snap[o] /\ merged[o] = NoOffer
             /\ Group(merged', o) = Group(merged, o)
    /\ Acyclic(merged')

LEMMA RootMeans ==
    ASSUME NEW m \in [Offers -> Offers \cup {NoOffer}], NEW o \in Offers
    PROVE  IsRoot(m, o) <=> m[o] = NoOffer
BY VotesAssumption DEF IsRoot

\* A group holds the offer itself, and every offer that resolves to it.
LEMMA GroupHolds ==
    ASSUME NEW m \in [Offers -> Offers \cup {NoOffer}], Acyclic(m), NEW o \in Offers,
           NEW r \in Roots(m, o)
    PROVE  r \in Offers /\ m[r] = NoOffer /\ o \in Group(m, r) /\ r \in Group(m, r)
<1>1. r \in Offers /\ IsRoot(m, r)
  BY RootsAreOffers, RootsAreRoots
<1> QED BY <1>1, RootMeans, RootHoldsGroup, GroupHasOffer

LEMMA MergeIsLocal ==
    ASSUME TInv, Acyclic(merged), NEW d \in Offers, NEW t \in Offers, Merge(d, t)
    PROVE  \E touched \in SUBSET Offers : MoveIsLocal(touched)
<1>1. PICK r \in Roots(merged, t) :
         /\ r \notin Group(merged, d)
         /\ merged' = [merged EXCEPT ![d] = r]
         /\ snap' = [snap EXCEPT ![r] = Tally(row, Group(merged', r))]
         /\ req' = OvertakenByMove(Group(merged, d) \cup Group(merged, r))
         /\ tick' = TickOvertaken(Group(merged, d) \cup Group(merged, r))
  BY DEF Merge
<1>2. merged[d] = NoOffer
  BY DEF Merge
<1>3. /\ merged \in [Offers -> Offers \cup {NoOffer}] /\ snap \in [Offers -> Tallies]
      /\ DOMAIN merged = Offers
  BY DEF TInv, TypeOK
<1>4. /\ r \in Offers /\ merged[r] = NoOffer /\ r \in Group(merged, r) /\ d \in Group(merged, d)
      /\ Group(merged, d) \cup Group(merged, r) \in SUBSET Offers
  BY <1>3, GroupHolds, GroupHasOffer
<1>5. r # d /\ IsRoot(merged, d) /\ IsRoot(merged, r)
  BY <1>1, <1>2, <1>3, <1>4, RootMeans
<1>6. merged' \in [Offers -> Offers \cup {NoOffer}]
  BY <1>1, <1>3, <1>4
<1>7. ASSUME NEW o \in Offers, o # r, merged'[o] = NoOffer
      PROVE  merged[o] = NoOffer /\ Group(merged', o) = Group(merged, o)
  <2>1. IsRoot(merged', o)
    BY <1>6, <1>7, RootMeans
  <2>2. IsRoot([merged EXCEPT ![d] = r], o)
    BY <1>1, <2>1
  <2>3. IsRoot(merged, o) /\ Group([merged EXCEPT ![d] = r], o) = Group(merged, o)
    BY <1>5, <1>7, <2>2, MergeChangesOneGroup
  <2> QED BY <1>1, <1>3, <2>3, RootMeans
<1>8. Acyclic(merged')
  BY <1>1, <1>3, <1>4, <1>5, MergeKeepsAcyclic
<1> DEFINE touched == Group(merged, d) \cup Group(merged, r)
<1>9. \A o \in Offers \ touched : o # r /\ merged'[o] = merged[o]
  BY <1>1, <1>3, <1>4
<1>10. \A o \in Offers \ touched :
          merged[o] = NoOffer => Group(merged', o) = Group(merged, o)
  BY <1>7, <1>9
<1>11. \A o \in Offers : o # r => snap'[o] = snap[o]
  BY <1>1, <1>3
<1>12. snap'[r] = Tally(row, Group(merged', r))
  BY <1>1, <1>3, <1>4
<1>13. \A o \in Offers : merged'[o] = NoOffer =>
          \/ snap'[o] = Tally(row, Group(merged', o))
          \/ /\ snap'[o] = snap[o] /\ merged[o] = NoOffer
             /\ Group(merged', o) = Group(merged, o)
  BY <1>7, <1>11, <1>12
<1> QED BY <1>1, <1>4, <1>8, <1>9, <1>10, <1>13 DEF MoveIsLocal

LEMMA UnmergeIsLocal ==
    ASSUME TInv, Acyclic(merged), NEW d \in Offers, Unmerge(d)
    PROVE  \E touched \in SUBSET Offers : MoveIsLocal(touched)
<1>1. PICK r \in Roots(merged, d) :
         /\ merged' = [merged EXCEPT ![d] = NoOffer]
         /\ snap' = [snap EXCEPT ![r] = Tally(row, Group(merged', r)),
                                 ![d] = Tally(row, Group(merged', d))]
         /\ req' = OvertakenByMove(Group(merged, r))
         /\ tick' = TickOvertaken(Group(merged, r))
  BY DEF Unmerge
<1>2. merged[d] # NoOffer
  BY DEF Unmerge
<1>3. /\ merged \in [Offers -> Offers \cup {NoOffer}] /\ snap \in [Offers -> Tallies]
      /\ DOMAIN merged = Offers
  BY DEF TInv, TypeOK
<1>4. /\ r \in Offers /\ merged[r] = NoOffer /\ r \in Group(merged, r) /\ d \in Group(merged, r)
      /\ Group(merged, r) \in SUBSET Offers
  BY <1>3, GroupHolds, GroupHasOffer
<1>5. merged' \in [Offers -> Offers \cup {NoOffer}]
  BY <1>1, <1>3
<1>6. ASSUME NEW o \in Offers, o # r, o # d, merged'[o] = NoOffer
      PROVE  merged[o] = NoOffer /\ Group(merged', o) = Group(merged, o)
  <2>1. IsRoot(merged', o)
    BY <1>5, <1>6, RootMeans
  <2>2. /\ DOMAIN merged' = DOMAIN merged /\ merged'[d] \notin DOMAIN merged
        /\ \A x \in DOMAIN merged : x # d => merged'[x] = merged[x]
    BY <1>1, <1>3, VotesAssumption
  <2>3. IsRoot(merged, o) /\ Group(merged', o) = Group(merged, o)
    BY <1>3, <1>6, <2>1, <2>2, UnmergeChangesOneGroup
  <2> QED BY <1>3, <2>3, RootMeans
<1>7. Acyclic(merged')
  BY <1>1, <1>3, VotesAssumption, UnmergeKeepsAcyclic
<1> DEFINE touched == Group(merged, r)
<1>8. \A o \in Offers \ touched : o # r /\ o # d /\ merged'[o] = merged[o]
  BY <1>1, <1>3, <1>4
<1>9. \A o \in Offers \ touched :
         merged[o] = NoOffer => Group(merged', o) = Group(merged, o)
  BY <1>6, <1>8
<1>10. \A o \in Offers : o # r /\ o # d => snap'[o] = snap[o]
  BY <1>1, <1>3
<1>11. snap'[r] = Tally(row, Group(merged', r)) /\ snap'[d] = Tally(row, Group(merged', d))
  BY <1>1, <1>2, <1>3, <1>4
<1>12. \A o \in Offers : merged'[o] = NoOffer =>
          \/ snap'[o] = Tally(row, Group(merged', o))
          \/ /\ snap'[o] = snap[o] /\ merged[o] = NoOffer
             /\ Group(merged', o) = Group(merged, o)
  BY <1>6, <1>10, <1>11
<1> QED BY <1>1, <1>4, <1>7, <1>8, <1>9, <1>12 DEF MoveIsLocal

-----------------------------------------------------------------------------
(* What a vote knows until something overtakes it: its offer is canonical, *)
(* its group is the one it read, and the person posted none of it.         *)

Knows(p) ==
    req[p].pc # "idle" /\ ~req[p].stale =>
        /\ merged[req[p].root] = NoOffer
        /\ req[p].ids = Group(merged, req[p].root)
        /\ \A o \in req[p].ids : poster[o] # req[p].voter

GInv == TInv /\ Acyclic(merged) /\ \A p \in Slots : Knows(p)

\* Nothing of q changes but its mark, which is not taken back.
Left(q) ==
    /\ req'[q].pc = req[q].pc /\ req'[q].voter = req[q].voter
    /\ req'[q].root = req[q].root /\ req'[q].ids = req[q].ids
    /\ req'[q].row = req[q].row /\ req'[q].tally = req[q].tally
    /\ req[q].stale => req'[q].stale

\* A step on one vote leaves the others.
LEMMA OthersLeft ==
    ASSUME TInv, NEW p \in Slots, NEW q \in Slots, q # p,
           Finish(p) \/ \E v \in Voters, o \in Offers, x \in Cast : StartVote(p, v, o, x)
    PROVE  Left(q)
<1>1. CASE AdmitVote(p) \/ CountVote(p) \/ EndVote(p)
           \/ \E v \in Voters, o \in Offers, x \in Cast : StartVote(p, v, o, x)
  <2>1. req'[q] = req[q]
    BY <1>1 DEF AdmitVote, CountVote, EndVote, StartVote, TInv, TypeOK
  <2> QED BY <2>1 DEF Left
<1>2. CASE CommitVote(p)
  <2>1. OvertakenByVote(Group(merged, req[p].root)) \in [Slots -> Request]
    BY VoteMarks DEF TInv, TypeOK
  <2>2. req'[q] = OvertakenByVote(Group(merged, req[p].root))[q]
    BY <1>2, <2>1 DEF CommitVote
  <2> QED BY <2>2, VoteMarks DEF Left, TInv, TypeOK
<1> QED BY <1>1, <1>2 DEF Finish

\* A step of the vote itself keeps what it has read.
LEMMA OwnStep ==
    ASSUME TInv, NEW p \in Slots, AdmitVote(p) \/ CountVote(p)
    PROVE  /\ req'[p].voter = req[p].voter /\ req'[p].root = req[p].root
           /\ req'[p].ids = req[p].ids /\ req'[p].stale = req[p].stale
           /\ req[p].pc # "idle"
<1>1. req \in [Slots -> Request]
  BY DEF TInv, TypeOK
<1>2. CASE AdmitVote(p)
  <2>1. PICK weight, at :
           req' = [req EXCEPT ![p] = [@ EXCEPT !.pc = "admitted", !.row.weight = weight,
                                               !.row.at = at]]
    BY <1>2 DEF AdmitVote
  <2>2. req[p].pc = "checked"
    BY <1>2 DEF AdmitVote
  <2>3. req'[p] = [req[p] EXCEPT !.pc = "admitted", !.row.weight = weight, !.row.at = at]
    BY <1>1, <2>1
  <2> QED BY <1>1, <2>2, <2>3 DEF Request
<1>3. CASE CountVote(p)
  <2> DEFINE new == [req[p].row EXCEPT !.seq = IF row[req[p].root][req[p].voter] = NoRow
                                               THEN nextSeq ELSE row[req[p].root][req[p].voter].seq]
             all == Tally([row EXCEPT ![req[p].root][req[p].voter] = new], Group(merged, req[p].root))
  <2>1. req' = [req EXCEPT ![p] = [@ EXCEPT !.pc = "counted", !.row = new, !.tally = all]]
        /\ req[p].pc = "admitted"
    BY <1>3 DEF CountVote
  <2> HIDE DEF new, all
  <2> QED BY <1>1, <2>1 DEF Request
<1> QED BY <1>2, <1>3

LEMMA KnowsLeft ==
    ASSUME TInv, NEW q \in Slots, Knows(q), Left(q), merged' = merged, poster' = poster
    PROVE  Knows(q)'
BY DEF Knows, Left

LEMMA KnowsInit == Init => GInv
<1> SUFFICES ASSUME Init
             PROVE  GInv
  OBVIOUS
<1>1. Acyclic(merged)
  BY VotesAssumption DEF Init, Acyclic
<1>2. \A p \in Slots : Knows(p)
  BY EmptyTypes DEF Init, Knows
<1> QED BY <1>1, <1>2, TypesInit DEF GInv

LEMMA KnowsStart ==
    ASSUME GInv, NEW p \in Slots, NEW v \in Voters, NEW o \in Offers, NEW x \in Cast,
           StartVote(p, v, o, x)
    PROVE  Knows(p)'
<1>1. PICK r \in Roots(merged, o) :
         /\ MayVote(v, r)
         /\ req' = [req EXCEPT ![p] = [Idle EXCEPT !.pc = "checked", !.voter = v, !.root = r,
                                                   !.ids = Group(merged, r), !.row.value = x]]
  BY DEF StartVote
<1>2. merged' = merged /\ poster' = poster
  BY DEF StartVote, catalog
<1>3. merged \in [Offers -> Offers \cup {NoOffer}] /\ req \in [Slots -> Request]
      /\ Acyclic(merged)
  BY DEF GInv, TInv, TypeOK
<1>4. merged[r] = NoOffer
  BY <1>3, GroupHolds
<1>5. req'[p].voter = v /\ req'[p].root = r /\ req'[p].ids = Group(merged, r)
  BY <1>1, <1>3 DEF Idle
<1> QED BY <1>1, <1>2, <1>4, <1>5 DEF Knows, MayVote

LEMMA KnowsMove ==
    ASSUME GInv, NEW q \in Slots, NEW touched \in SUBSET Offers, MoveIsLocal(touched),
           poster' = poster
    PROVE  Knows(q)'
<1>1. req' = OvertakenByMove(touched) /\ req \in [Slots -> Request]
      /\ merged \in [Offers -> Offers \cup {NoOffer}]
  BY DEF MoveIsLocal, GInv, TInv, TypeOK
<1>2. /\ req'[q].pc = req[q].pc /\ req'[q].voter = req[q].voter
      /\ req'[q].root = req[q].root /\ req'[q].ids = req[q].ids
      /\ req'[q].stale <=> (req[q].stale \/ req[q].ids \cap touched # {})
  BY <1>1, MoveMarks
<1> SUFFICES ASSUME req[q].pc # "idle", ~req[q].stale, req[q].ids \cap touched = {}
             PROVE  /\ merged'[req[q].root] = NoOffer
                    /\ req[q].ids = Group(merged', req[q].root)
                    /\ \A o \in req[q].ids : poster[o] # req[q].voter
  BY <1>2 DEF Knows
<1>3. /\ merged[req[q].root] = NoOffer /\ req[q].ids = Group(merged, req[q].root)
      /\ \A o \in req[q].ids : poster[o] # req[q].voter
      /\ req[q].root \in Offers
  BY DEF GInv, Knows, TInv, RequestsNamed
<1>4. req[q].root \in req[q].ids
  BY <1>1, <1>3, GroupHasOffer
<1> QED BY <1>3, <1>4 DEF MoveIsLocal

LEMMA KnowsErase ==
    ASSUME GInv, NEW q \in Slots, NEW v \in Voters, Erase(v)
    PROVE  Knows(q)'
<1>1. req' = req /\ merged' = merged
  BY DEF Erase
<1>2. \A o \in Offers : poster'[o] = NoVoter \/ poster'[o] = poster[o]
  BY DEF Erase
<1> SUFFICES ASSUME req[q].pc # "idle", ~req[q].stale
             PROVE  /\ merged[req[q].root] = NoOffer
                    /\ req[q].ids = Group(merged, req[q].root)
                    /\ \A o \in req[q].ids : poster'[o] # req[q].voter
  BY <1>1 DEF Knows
<1>3. /\ merged[req[q].root] = NoOffer /\ req[q].ids = Group(merged, req[q].root)
      /\ \A o \in req[q].ids : poster[o] # req[q].voter
      /\ req[q].voter \in Voters /\ req[q].root \in Offers
  BY DEF GInv, Knows, TInv, RequestsNamed
<1>4. req[q].ids \in SUBSET Offers
  BY DEF GInv, TInv, TypeOK, Request
<1> QED BY <1>2, <1>3, <1>4, VotesAssumption

LEMMA KnowsStep == GInv /\ [Next]_vars => GInv'
<1> SUFFICES ASSUME GInv, [Next]_vars
             PROVE  GInv'
  OBVIOUS
<1>1. TInv /\ TInv' /\ Acyclic(merged) /\ \A q \in Slots : Knows(q)
  BY TypesStep DEF GInv
<1>2. ASSUME NEW p \in Slots, Finish(p)
      PROVE  GInv'
  <2>1. merged' = merged /\ poster' = poster
    BY <1>2 DEF Finish, AdmitVote, CountVote, CommitVote, EndVote, catalog
  <2>2. \A q \in Slots : q # p => Knows(q)'
    BY <1>1, <1>2, <2>1, OthersLeft, KnowsLeft
  <2>3. Knows(p)'
    <3>1. CASE AdmitVote(p) \/ CountVote(p)
      BY <1>1, <2>1, <3>1, OwnStep DEF Knows
    <3>2. CASE CommitVote(p) \/ EndVote(p)
      <4>1. req'[p] = Idle
        BY <1>1, <3>2, VoteMarks DEF CommitVote, EndVote, TInv, TypeOK
      <4> QED BY <4>1, EmptyTypes DEF Knows
    <3> QED BY <1>2, <3>1, <3>2 DEF Finish
  <2> QED BY <1>1, <2>1, <2>2, <2>3 DEF GInv
<1>3. ASSUME NEW p \in Slots, NEW v \in Voters, NEW o \in Offers, NEW x \in Cast,
             StartVote(p, v, o, x)
      PROVE  GInv'
  <2>1. merged' = merged /\ poster' = poster
    BY <1>3 DEF StartVote, catalog
  <2>2. \A q \in Slots : q # p => Knows(q)'
    BY <1>1, <1>3, <2>1, OthersLeft, KnowsLeft
  <2>3. Knows(p)'
    BY <1>3, KnowsStart
  <2> QED BY <1>1, <2>1, <2>2, <2>3 DEF GInv
<1>4. ASSUME NEW d \in Offers, Unmerge(d) \/ \E t \in Offers : Merge(d, t)
      PROVE  GInv'
  <2>1. PICK touched \in SUBSET Offers : MoveIsLocal(touched)
    BY <1>1, <1>4, MergeIsLocal, UnmergeIsLocal
  <2>2. poster' = poster
    BY <1>4 DEF Merge, Unmerge
  <2>3. \A q \in Slots : Knows(q)'
    BY <2>1, <2>2, KnowsMove
  <2> QED BY <1>1, <2>1, <2>3 DEF GInv, MoveIsLocal
<1>5. ASSUME NEW v \in Voters, Erase(v)
      PROVE  GInv'
  <2>1. merged' = merged
    BY <1>5 DEF Erase
  <2> QED BY <1>1, <1>5, <2>1, KnowsErase DEF GInv
<1>6. ASSUME \/ \E o \in Offers, s \in {"active", "expired", "disabled"} : SetStatus(o, s)
             \/ TickStep \/ FailTick \/ ClockTicks \/ UNCHANGED vars
             \/ \E v \in Voters : AccountAges(v) \/ \E r \in Offers : HourPasses(v, r)
      PROVE  GInv'
  <2>1. req' = req /\ merged' = merged /\ poster' = poster
    BY <1>6 DEF SetStatus, TickStep, TickList, TickCount, TickWrite, FailTick, ClockTicks,
                AccountAges, HourPasses, vars, catalog
  <2>2. \A q \in Slots : Knows(q)'
    BY <1>1, <2>1 DEF Knows
  <2> QED BY <1>1, <2>1, <2>2 DEF GInv
<1> QED BY <1>2, <1>3, <1>4, <1>5, <1>6 DEF Next

LEMMA KnowsAlways == Spec => []GInv
BY KnowsInit, KnowsStep, PTL DEF Spec

\* No vote lands on a group with an offer of the voter's own, if the group was
\* not changed after votes.js looked: neither an erased account nor another vote
\* in between makes it so.
THEOREM OwnOfferRefused == Spec => CheckedOwnOfferRefused
<1>1. GInv /\ [Next]_vars => [\A p \in Slots : CommitVote(p) /\ ~req[p].stale =>
          \A o \in Group(merged, req[p].root) : poster[o] # req[p].voter]_vars
  BY DEF GInv, Knows, CommitVote
<1> QED BY <1>1, KnowsAlways, PTL DEF Spec, CheckedOwnOfferRefused

\* Votes on a group leave the votes of the offers merged into it, however the
\* group came about, as long as nothing is written from an overtaken read.
THEOREM MergedVotesKept == Spec => CheckedMergedVotesKept
<1> DEFINE Kept == ~raced' => \A o \in Offers, v \in Voters :
                      merged[o] # NoOffer /\ v \notin erased' => row'[o][v] = row[o][v]
<1>1. GInv /\ [Next]_vars => [Kept]_vars
  <2> SUFFICES ASSUME GInv, Next, ~raced', NEW o \in Offers, NEW v \in Voters,
                      merged[o] # NoOffer, v \notin erased'
               PROVE  row'[o][v] = row[o][v]
    OBVIOUS
  <2>1. row \in [Offers -> [Voters -> Row]]
    BY DEF GInv, TInv, TypeOK
  <2>2. ASSUME NEW p \in Slots, CommitVote(p)
        PROVE  row'[o][v] = row[o][v]
    <3>1. ~req[p].stale /\ req[p].pc # "idle"
      BY <2>2 DEF CommitVote
    <3>2. req[p].root # o
      BY <3>1 DEF GInv, Knows
    <3> QED BY <2>1, <2>2, <3>2 DEF CommitVote
  <2>3. ASSUME NEW w \in Voters, Erase(w)
        PROVE  row'[o][v] = row[o][v]
    <3>1. w # v
      BY <2>3 DEF Erase
    <3> QED BY <2>1, <2>3, <3>1 DEF Erase
  <2>4. ASSUME ~\E p \in Slots : CommitVote(p), ~\E w \in Voters : Erase(w)
        PROVE  row' = row
    BY <2>4 DEF Next, Finish, AdmitVote, CountVote, EndVote, StartVote, Merge, Unmerge,
                SetStatus, TickStep, TickList, TickCount, TickWrite, FailTick, ClockTicks,
                AccountAges, HourPasses, ballots
  <2> QED BY <2>2, <2>3, <2>4
<1> QED BY <1>1, KnowsAlways, PTL DEF Spec, CheckedMergedVotesKept

-----------------------------------------------------------------------------
(* Rows in order, and tallies that hold.  All of it until something is     *)
(* written from a read that was overtaken.                                 *)

\* An admitted vote is later than the person's other rows in the group.
Ordered(p) ==
    req[p].pc \in {"admitted", "counted"} /\ ~req[p].stale =>
        /\ req[p].row.at > 0
        /\ \A o \in req[p].ids \ {req[p].root} : row[o][req[p].voter].at < req[p].row.at

\* What a vote has counted is the tally its commit makes.
Counted(p) ==
    req[p].pc = "counted" /\ ~req[p].stale =>
        \A v \in Voters \ erased :
            req[p].tally[v] =
               Tally([row EXCEPT ![req[p].root][req[p].voter] = req[p].row], req[p].ids)[v]

TickCounted ==
    tick.pc = "counted" /\ ~tick.stale =>
        \A o \in tick.ids : merged[o] = NoOffer =>
            \A v \in Voters \ erased : tick.tally[o][v] = GroupTally(o)[v]

HotHolds ==
    \A o \in Offers : merged[o] = NoOffer =>
        \A v \in Voters \ erased : snap[o][v] = GroupTally(o)[v]

HInv == GInv /\ (~raced => (\A p \in Slots : Ordered(p) /\ Counted(p)) /\ TickCounted /\ HotHolds)

LEMMA OrderedLeft ==
    ASSUME NEW q \in Slots, Ordered(q), Left(q),
           \A o \in req[q].ids \ {req[q].root} :
              row'[o][req[q].voter] \in {row[o][req[q].voter], NoRow}
    PROVE  Ordered(q)'
BY DEF Ordered, Left, NoRow

LEMMA CountedLeft ==
    ASSUME TInv, TInv', NEW q \in Slots, Counted(q), Left(q), erased \subseteq erased',
           \A o \in req[q].ids, v \in Voters \ erased' : row'[o][v] = row[o][v]
    PROVE  Counted(q)'
<1> SUFFICES ASSUME req[q].pc = "counted", ~req[q].stale, NEW v \in Voters \ erased'
             PROVE  req[q].tally[v] =
                       Tally([row' EXCEPT ![req[q].root][req[q].voter] = req[q].row], req[q].ids)[v]
  BY DEF Counted, Left
<1> DEFINE before == [row EXCEPT ![req[q].root][req[q].voter] = req[q].row]
           after  == [row' EXCEPT ![req[q].root][req[q].voter] = req[q].row]
<1>1. req[q].tally[v] = Tally(before, req[q].ids)[v]
  BY DEF Counted
<1>2. /\ row \in [Offers -> [Voters -> Row]] /\ row' \in [Offers -> [Voters -> Row]]
      /\ req[q].ids \in SUBSET Offers
  BY DEF TInv, TypeOK, Request
<1>3. \A o \in req[q].ids : after[o][v] = before[o][v]
  BY <1>2
<1> HIDE DEF before, after
<1>4. Tally(after, req[q].ids)[v] = Tally(before, req[q].ids)[v]
  BY <1>3, SameTally
<1> QED BY <1>1, <1>4 DEF before, after

\* An account's rows go, and nobody's tally but theirs changes.
LEMMA HotErase ==
    ASSUME HInv, GInv', NEW w \in Voters, Erase(w)
    PROVE  HInv'
<1> SUFFICES ASSUME ~raced
             PROVE  (\A p \in Slots : Ordered(p)' /\ Counted(p)') /\ TickCounted' /\ HotHolds'
  BY DEF HInv, Erase
<1>1. /\ TInv /\ TInv' /\ TickCounted /\ HotHolds
      /\ \A p \in Slots : Ordered(p) /\ Counted(p)
  BY DEF HInv, GInv
<1>2. /\ req' = req /\ tick' = tick /\ merged' = merged /\ snap' = snap /\ erased' = erased \cup {w}
      /\ row' = [o \in Offers |-> [row[o] EXCEPT ![w] = NoRow]]
  BY DEF Erase, bounds
<1>3. /\ row \in [Offers -> [Voters -> Row]] /\ merged \in [Offers -> Offers \cup {NoOffer}]
      /\ tick \in TickState
  BY <1>1 DEF TInv, TypeOK
<1>4. \A o \in Offers : /\ \A v \in Voters : row'[o][v] \in {row[o][v], NoRow}
                        /\ \A v \in Voters \ erased' : row'[o][v] = row[o][v]
  BY <1>2, <1>3
<1>5. \A p \in Slots : Left(p) /\ req[p].ids \in SUBSET Offers
  BY <1>1, <1>2 DEF Left, TInv, TypeOK, Request
<1>6. ASSUME NEW p \in Slots
      PROVE  Ordered(p)' /\ Counted(p)'
  <2>1. Counted(p)'
    BY <1>1, <1>2, <1>4, <1>5, CountedLeft
  <2>2. CASE req[p].pc # "idle"
    <3>1. req[p].voter \in Voters
      BY <1>1, <2>2 DEF TInv, RequestsNamed
    <3> QED BY <1>1, <1>4, <1>5, <2>1, <3>1, OrderedLeft
  <2>3. CASE req[p].pc = "idle"
    BY <1>2, <2>1, <2>3 DEF Ordered
  <2> QED BY <2>2, <2>3
<1>7. ASSUME NEW o \in Offers, NEW v \in Voters \ erased'
      PROVE  GroupTally(o)'[v] = GroupTally(o)[v]
  <2>1. \A x \in Group(merged, o) : row'[x][v] = row[x][v]
    BY <1>3, <1>4, GroupHasOffer
  <2>2. Tally(row', Group(merged, o))[v] = Tally(row, Group(merged, o))[v]
    BY <2>1, SameTally
  <2> QED BY <1>2, <2>2 DEF GroupTally
<1>8. HotHolds'
  BY <1>1, <1>2, <1>7 DEF HotHolds
<1>9. TickCounted'
  BY <1>1, <1>2, <1>3, <1>7 DEF TickCounted, TickState
<1> QED BY <1>6, <1>8, <1>9

\* A step that commits nothing leaves hot and the tick as they were.
LEMMA HotUndisturbed ==
    ASSUME HInv, row' = row, merged' = merged, snap' = snap, erased' = erased, tick' = tick,
           raced' = raced, GInv', \A p \in Slots : ~raced => Ordered(p)' /\ Counted(p)'
    PROVE  HInv'
BY DEF HInv, TickCounted, HotHolds, GroupTally

LEMMA HotSame ==
    ASSUME HInv, NEW q \in Slots, ~raced, Left(q), row' = row, erased' = erased
    PROVE  Ordered(q)' /\ Counted(q)'
BY DEF HInv, Ordered, Counted, Left

LEMMA HotStartEnd ==
    ASSUME HInv, GInv', NEW p \in Slots,
           EndVote(p) \/ \E v \in Voters, o \in Offers, x \in Cast : StartVote(p, v, o, x)
    PROVE  HInv'
<1>1. TInv /\ req \in [Slots -> Request]
  BY DEF HInv, GInv, TInv, TypeOK
<1>2. /\ row' = row /\ merged' = merged /\ snap' = snap /\ erased' = erased /\ tick' = tick
      /\ raced' = raced
  BY DEF EndVote, StartVote, catalog, ballots, people
<1>3. req'[p].pc \in {"idle", "checked"}
  <2>1. CASE EndVote(p)
    BY <1>1, <2>1, EmptyTypes DEF EndVote
  <2>2. ASSUME NEW v \in Voters, NEW o \in Offers, NEW x \in Cast, StartVote(p, v, o, x)
        PROVE  req'[p].pc = "checked"
    <3>1. PICK r, ids :
             req' = [req EXCEPT ![p] = [Idle EXCEPT !.pc = "checked", !.voter = v, !.root = r,
                                                    !.ids = ids, !.row.value = x]]
      BY <1>1, <2>2, RootsAreOffers DEF StartVote, TInv, TypeOK
    <3> QED BY <1>1, <3>1 DEF Idle
  <2> QED BY <2>1, <2>2
<1>4. Ordered(p)' /\ Counted(p)'
  BY <1>3 DEF Ordered, Counted
<1>5. \A q \in Slots : q # p /\ ~raced => Ordered(q)' /\ Counted(q)'
  BY <1>1, <1>2, OthersLeft, HotSame DEF Finish
<1> QED BY <1>2, <1>4, <1>5, HotUndisturbed

LEMMA HotAdmit ==
    ASSUME HInv, GInv', NEW p \in Slots, AdmitVote(p)
    PROVE  HInv'
<1> DEFINE v == req[p].voter  ids == req[p].ids
<1>1. TInv /\ req \in [Slots -> Request] /\ row \in [Offers -> [Voters -> Row]]
      /\ clock \in Nat \ {0}
  BY DEF HInv, GInv, TInv, TypeOK
<1>2. /\ row' = row /\ merged' = merged /\ snap' = snap /\ erased' = erased /\ tick' = tick
      /\ raced' = raced
  BY DEF AdmitVote, catalog, ballots, people
<1>3. PICK last \in {row[o][v].at : o \in ids} :
         /\ \A o \in ids : row[o][v].at <= last
         /\ req' = [req EXCEPT ![p] = [@ EXCEPT !.pc = "admitted", !.row.weight = WeightFor(v),
                                                !.row.at = WriteTime(last)]]
  BY DEF AdmitVote
<1>4. v \in Voters /\ ids \in SUBSET Offers /\ req[p] \in Request
  BY <1>1 DEF AdmitVote, TInv, RequestsNamed, Request
<1>5. \A o \in ids : row[o][v].at \in Nat
  BY <1>1, <1>4 DEF Row
<1>6. last \in Nat
  BY <1>3, <1>5
<1>7. req'[p].pc = "admitted" /\ req'[p].row.at = WriteTime(last)
  <2> DEFINE weight == WeightFor(v)  at == WriteTime(last)
  <2>1. req'[p] = [req[p] EXCEPT !.pc = "admitted", !.row.weight = weight, !.row.at = at]
    BY <1>1, <1>3
  <2> HIDE DEF weight, at
  <2>2. req'[p].pc = "admitted" /\ req'[p].row = [req[p].row EXCEPT !.weight = weight, !.at = at]
    BY <1>4, <2>1 DEF Request
  <2>3. req[p].row \in Row
    BY <1>4 DEF Request
  <2>4. req'[p].row.at = at
    BY <2>2, <2>3 DEF Row
  <2> QED BY <2>2, <2>4 DEF at
<1>8. WriteTime(last) > 0 /\ \A o \in ids : row[o][v].at < WriteTime(last)
  BY <1>1, <1>3, <1>5, <1>6 DEF WriteTime
<1>9. Ordered(p)' /\ Counted(p)'
  BY <1>1, <1>2, <1>7, <1>8, OwnStep DEF Ordered, Counted
<1>10. \A q \in Slots : q # p /\ ~raced => Ordered(q)' /\ Counted(q)'
  BY <1>1, <1>2, OthersLeft, HotSame DEF Finish
<1> QED BY <1>2, <1>9, <1>10, HotUndisturbed

LEMMA HotCount ==
    ASSUME HInv, GInv', NEW p \in Slots, CountVote(p)
    PROVE  HInv'
<1> DEFINE v == req[p].voter
           r == req[p].root
           new == [req[p].row EXCEPT !.seq = IF row[r][v] = NoRow THEN nextSeq ELSE row[r][v].seq]
           all == Tally([row EXCEPT ![r][v] = new], Group(merged, r))
<1>1. TInv /\ req \in [Slots -> Request] /\ Knows(p) /\ req[p] \in Request
  BY DEF HInv, GInv, TInv, TypeOK
<1>2. /\ row' = row /\ merged' = merged /\ snap' = snap /\ erased' = erased /\ tick' = tick
      /\ raced' = raced
  BY DEF CountVote, catalog, people
<1>3. req' = [req EXCEPT ![p] = [@ EXCEPT !.pc = "counted", !.row = new, !.tally = all]]
      /\ req[p].pc = "admitted"
  BY DEF CountVote
<1>4. new.at = req[p].row.at
  BY <1>1 DEF Request, Row
<1> HIDE DEF new, all
<1>5. req'[p].row = new /\ req'[p].tally = all
  BY <1>1, <1>3 DEF Request
<1>6. /\ req'[p].voter = v /\ req'[p].root = r /\ req'[p].ids = req[p].ids
      /\ req'[p].stale = req[p].stale
  BY <1>1, OwnStep
<1>7. ~raced => Ordered(p)'
  BY <1>2, <1>3, <1>4, <1>5, <1>6 DEF Ordered, HInv
<1>8. Counted(p)'
  <2> SUFFICES ASSUME ~req[p].stale
               PROVE  all = Tally([row EXCEPT ![r][v] = new], req[p].ids)
    BY <1>2, <1>5, <1>6 DEF Counted
  <2> QED BY <1>1, <1>3 DEF all, Knows
<1>9. \A q \in Slots : q # p /\ ~raced => Ordered(q)' /\ Counted(q)'
  BY <1>1, <1>2, OthersLeft, HotSame DEF Finish
<1> QED BY <1>2, <1>7, <1>8, <1>9, HotUndisturbed

\* A write at a canonical offer changes no tally but its own group's.
LEMMA OtherGroupsTally ==
    ASSUME GInv, NEW r \in Offers, merged[r] = NoOffer, NEW o \in Offers, merged[o] = NoOffer,
           o # r, merged' = merged, \A x \in Offers : x # r => row'[x] = row[x], NEW v \in Voters
    PROVE  r \notin Group(merged, o) /\ GroupTally(o)'[v] = GroupTally(o)[v]
<1>1. merged \in [Offers -> Offers \cup {NoOffer}]
  BY DEF GInv, TInv, TypeOK
<1>2. IsRoot(merged, r) /\ IsRoot(merged, o) /\ r \in Group(merged, r)
      /\ Group(merged, o) \in SUBSET Offers
  BY <1>1, RootMeans, GroupHasOffer
<1>3. r \notin Group(merged, o)
  BY <1>2, GroupsAreDisjoint
<1>4. \A x \in Group(merged, o) : row'[x][v] = row[x][v]
  BY <1>2, <1>3
<1>5. Tally(row', Group(merged, o))[v] = Tally(row, Group(merged, o))[v]
  BY <1>4, SameTally
<1> QED BY <1>3, <1>5 DEF GroupTally

\* The commit of a vote whose reads still hold.
LEMMA HotCommit ==
    ASSUME HInv, GInv', NEW p \in Slots, CommitVote(p)
    PROVE  HInv'
<1> DEFINE v == req[p].voter
           r == req[p].root
           G == Group(merged, r)
<1> SUFFICES ASSUME ~raced'
             PROVE  (\A q \in Slots : Ordered(q)' /\ Counted(q)') /\ TickCounted' /\ HotHolds'
  BY DEF HInv
<1>1. ~raced /\ ~req[p].stale /\ req[p].pc = "counted"
  BY DEF CommitVote
<1>2. /\ TInv /\ TInv' /\ GInv /\ TickCounted /\ HotHolds
      /\ \A q \in Slots : Ordered(q) /\ Counted(q) /\ Knows(q)
  BY <1>1 DEF HInv, GInv
<1>3. /\ req \in [Slots -> Request] /\ row \in [Offers -> [Voters -> Row]]
      /\ snap \in [Offers -> Tallies] /\ tick \in TickState
      /\ merged \in [Offers -> Offers \cup {NoOffer}]
  BY <1>2 DEF TInv, TypeOK
<1>4. v \in Voters /\ r \in Offers /\ merged[r] = NoOffer /\ req[p].ids = G
  BY <1>1, <1>2 DEF TInv, RequestsNamed, Knows
<1>5. /\ row' = [row EXCEPT ![r][v] = req[p].row] /\ snap' = [snap EXCEPT ![r] = req[p].tally]
      /\ tick' = TickOvertaken(G) /\ merged' = merged /\ erased' = erased
      /\ req' = [OvertakenByVote(G) EXCEPT ![p] = Idle]
  BY DEF CommitVote, catalog, people
<1>6. \A x \in Offers : x # r => row'[x] = row[x]
  BY <1>3, <1>5
<1>7. ASSUME NEW o \in Offers, merged[o] = NoOffer, o # r, NEW w \in Voters
      PROVE  r \notin Group(merged, o) /\ GroupTally(o)'[w] = GroupTally(o)[w]
  BY <1>2, <1>4, <1>5, <1>6, <1>7, OtherGroupsTally
<1>8. ASSUME NEW q \in Slots, q # p
      PROVE  Ordered(q)' /\ Counted(q)'
  <2>1. /\ Left(q)
        /\ req'[q].stale <=> (req[q].stale \/ (req[q].pc = "counted" /\ req[q].ids \cap G # {}))
    <3>1. OvertakenByVote(G) \in [Slots -> Request]
      BY <1>3, VoteMarks
    <3>2. req'[q] = OvertakenByVote(G)[q]
      BY <1>5, <1>8, <3>1
    <3> QED BY <1>3, <3>2, VoteMarks DEF Left
  <2>2. req[q].ids \in SUBSET Offers
    BY <1>3 DEF Request
  <2>3. Ordered(q)'
    <3> SUFFICES ASSUME req[q].pc # "idle", ~req[q].stale
                 PROVE  Ordered(q)'
      BY <2>1 DEF Ordered, Left
    <3>1. /\ req[q].root \in Offers /\ merged[req[q].root] = NoOffer
          /\ req[q].ids = Group(merged, req[q].root)
      BY <1>2 DEF Knows, TInv, RequestsNamed
    <3>2. r \notin req[q].ids \ {req[q].root}
      BY <1>4, <1>7, <3>1
    <3>3. \A o \in req[q].ids \ {req[q].root} : row'[o] = row[o]
      BY <1>6, <2>2, <3>2
    <3> QED BY <1>2, <2>1, <3>3, OrderedLeft
  <2>4. Counted(q)'
    <3> SUFFICES ASSUME req[q].pc = "counted", req[q].ids \cap G = {}
                 PROVE  Counted(q)'
      BY <2>1 DEF Counted, Left
    <3>1. r \in G
      BY <1>3, <1>4, GroupHasOffer
    <3>2. \A o \in req[q].ids : row'[o] = row[o]
      BY <1>6, <2>2, <3>1
    <3> QED BY <1>2, <1>5, <2>1, <3>2, CountedLeft
  <2> QED BY <2>3, <2>4
<1>9. Ordered(p)' /\ Counted(p)'
  <2>1. OvertakenByVote(G) \in [Slots -> Request]
    BY <1>3, VoteMarks
  <2>2. req'[p] = Idle
    BY <1>5, <2>1
  <2> QED BY <2>2, EmptyTypes DEF Ordered, Counted
<1>10. HotHolds'
  <2>1. ASSUME NEW w \in Voters \ erased
        PROVE  snap'[r][w] = Tally(row', Group(merged', r))[w]
    <3>1. req[p].tally[w] = Tally(row', req[p].ids)[w]
      BY <1>1, <1>2, <1>5 DEF Counted
    <3> QED BY <1>3, <1>4, <1>5, <3>1
  <2>2. ASSUME NEW o \in Offers, merged[o] = NoOffer, o # r, NEW w \in Voters \ erased
        PROVE  snap'[o][w] = GroupTally(o)'[w]
    <3>1. snap'[o] = snap[o]
      BY <1>3, <1>5, <2>2
    <3>2. snap[o][w] = GroupTally(o)[w]
      BY <1>2, <2>2 DEF HotHolds
    <3> QED BY <1>7, <2>2, <3>1, <3>2
  <2>3. ASSUME NEW o \in Offers, merged[o] = NoOffer, NEW w \in Voters \ erased
        PROVE  snap'[o][w] = GroupTally(o)'[w]
    <3>1. CASE o = r
      BY <2>1, <3>1 DEF GroupTally
    <3> QED BY <2>2, <2>3, <3>1
  <2> QED BY <1>5, <2>3 DEF HotHolds
<1>11. TickCounted'
  <2>1. /\ tick'.pc = tick.pc /\ tick'.ids = tick.ids /\ tick'.tally = tick.tally
        /\ tick'.stale <=> (tick.stale \/ (tick.pc = "counted" /\ tick.ids \cap G # {}))
    BY <1>3, <1>5, TickMarks
  <2> SUFFICES ASSUME tick.pc = "counted", ~tick.stale, tick.ids \cap G = {},
                      NEW o \in tick.ids, merged[o] = NoOffer, NEW w \in Voters \ erased
               PROVE  tick.tally[o][w] = GroupTally(o)'[w]
    BY <1>5, <2>1 DEF TickCounted
  <2>2. o \in Offers /\ r \in G
    BY <1>3, <1>4, GroupHasOffer DEF TickState
  <2>3. o # r
    BY <2>2
  <2>4. tick.tally[o][w] = GroupTally(o)[w]
    BY <1>2 DEF TickCounted
  <2> QED BY <1>7, <2>2, <2>3, <2>4
<1> QED BY <1>8, <1>9, <1>10, <1>11

\* A merge or an unmerge.
LEMMA HotMove ==
    ASSUME HInv, GInv', NEW touched \in SUBSET Offers, MoveIsLocal(touched),
           row' = row, erased' = erased, raced' = raced
    PROVE  HInv'
<1> SUFFICES ASSUME ~raced
             PROVE  (\A q \in Slots : Ordered(q)' /\ Counted(q)') /\ TickCounted' /\ HotHolds'
  BY DEF HInv
<1>1. /\ req \in [Slots -> Request] /\ tick \in TickState
      /\ TickCounted /\ HotHolds
  BY DEF HInv, GInv, TInv, TypeOK
<1>2. ASSUME NEW q \in Slots
      PROVE  Ordered(q)' /\ Counted(q)'
  <2>1. Left(q)
    BY <1>1, MoveMarks DEF MoveIsLocal, Left
  <2> QED BY <2>1, HotSame
<1>3. HotHolds'
  <2> SUFFICES ASSUME NEW o \in Offers, merged'[o] = NoOffer, NEW v \in Voters \ erased
               PROVE  snap'[o][v] = Tally(row, Group(merged', o))[v]
    BY DEF HotHolds, GroupTally
  <2>1. CASE snap'[o] = Tally(row, Group(merged', o))
    BY <2>1
  <2>2. CASE /\ snap'[o] = snap[o] /\ merged[o] = NoOffer
             /\ Group(merged', o) = Group(merged, o)
    BY <1>1, <2>2 DEF HotHolds, GroupTally
  <2> QED BY <2>1, <2>2 DEF MoveIsLocal
<1>4. TickCounted'
  <2>1. /\ tick'.pc = tick.pc /\ tick'.ids = tick.ids /\ tick'.tally = tick.tally
        /\ tick'.stale <=> (tick.stale \/ (tick.pc = "counted" /\ tick.ids \cap touched # {}))
    BY <1>1, TickMarks DEF MoveIsLocal
  <2> SUFFICES ASSUME tick.pc = "counted", ~tick.stale, tick.ids \cap touched = {},
                      NEW o \in tick.ids, merged'[o] = NoOffer, NEW v \in Voters \ erased
               PROVE  tick.tally[o][v] = Tally(row, Group(merged', o))[v]
    BY <2>1 DEF TickCounted, GroupTally
  <2>2. o \in Offers \ touched
    BY <1>1 DEF TickState
  <2>3. merged[o] = NoOffer /\ Group(merged', o) = Group(merged, o)
    BY <2>2 DEF MoveIsLocal
  <2> QED BY <1>1, <2>3 DEF TickCounted, GroupTally
<1> QED BY <1>2, <1>3, <1>4

\* The worker's tick.
LEMMA HotTick ==
    ASSUME HInv, GInv', TickStep \/ FailTick
    PROVE  HInv'
<1> SUFFICES ASSUME ~raced'
             PROVE  (\A q \in Slots : Ordered(q)' /\ Counted(q)') /\ TickCounted' /\ HotHolds'
  BY DEF HInv
<1>1. ~raced /\ req' = req /\ row' = row /\ merged' = merged /\ erased' = erased
  <2>1. CASE TickList \/ TickCount \/ FailTick
    BY <2>1 DEF TickList, TickCount, FailTick, catalog, ballots, people
  <2>2. CASE TickWrite
    BY <2>2 DEF TickWrite, catalog, people
  <2> QED BY <2>1, <2>2 DEF TickStep
<1>2. \A q \in Slots : Ordered(q)' /\ Counted(q)'
  BY <1>1, HotSame DEF Left
<1>3. TickCounted /\ HotHolds /\ tick \in TickState /\ snap \in [Offers -> Tallies]
  BY <1>1 DEF HInv, GInv, TInv, TypeOK
<1>4. CASE TickList \/ FailTick
  <2>1. tick'.pc # "counted" /\ snap' = snap
    BY <1>3, <1>4, EmptyTypes DEF TickList, FailTick, NoTick, ballots
  <2> QED BY <1>1, <1>2, <1>3, <2>1 DEF TickCounted, HotHolds, GroupTally
<1>5. CASE TickCount
  <2>1. /\ snap' = snap /\ tick'.ids = tick.ids
        /\ tick'.tally = [o \in Offers |-> IF o \in tick.ids THEN GroupTally(o) ELSE NoVotes]
    BY <1>3, <1>5 DEF TickCount, TickState, ballots
  <2>2. TickCounted'
    BY <1>1, <1>3, <2>1 DEF TickCounted, GroupTally, TickState
  <2> QED BY <1>1, <1>2, <1>3, <2>1, <2>2 DEF HotHolds, GroupTally
<1>6. CASE TickWrite
  <2>1. /\ tick.pc = "counted" /\ ~tick.stale /\ tick' = NoTick
        /\ snap' = [o \in Offers |-> IF o \in tick.ids THEN tick.tally[o] ELSE snap[o]]
    BY <1>6 DEF TickWrite
  <2>2. HotHolds'
    <3> SUFFICES ASSUME NEW o \in Offers, merged[o] = NoOffer, NEW v \in Voters \ erased
                 PROVE  snap'[o][v] = GroupTally(o)[v]
      BY <1>1 DEF HotHolds, GroupTally
    <3>1. CASE o \in tick.ids
      BY <1>3, <2>1, <3>1 DEF TickCounted
    <3>2. CASE o \notin tick.ids
      BY <1>3, <2>1, <3>2 DEF HotHolds
    <3> QED BY <3>1, <3>2
  <2>3. TickCounted'
    BY <2>1, EmptyTypes DEF TickCounted
  <2> QED BY <1>2, <2>2, <2>3
<1> QED BY <1>4, <1>5, <1>6 DEF TickStep

LEMMA HotInit == Init => HInv
<1> SUFFICES ASSUME Init
             PROVE  HInv
  OBVIOUS
<1>1. \A p \in Slots : Ordered(p) /\ Counted(p)
  BY EmptyTypes DEF Init, Ordered, Counted
<1>2. TickCounted
  BY EmptyTypes DEF Init, TickCounted
<1>3. HotHolds
  <2>1. \A o \in Offers : snap[o] = GroupTally(o)
    BY DEF Init
  <2> QED BY <2>1 DEF HotHolds
<1> QED BY <1>1, <1>2, <1>3, KnowsInit DEF HInv

LEMMA HotStep == HInv /\ [Next]_vars => HInv'
<1> SUFFICES ASSUME HInv, [Next]_vars
             PROVE  HInv'
  OBVIOUS
<1>1. GInv /\ TInv /\ Acyclic(merged) /\ GInv'
  BY KnowsStep DEF HInv, GInv
<1>2. ASSUME NEW p \in Slots, Finish(p)
      PROVE  HInv'
  BY <1>1, <1>2, HotAdmit, HotCount, HotCommit, HotStartEnd DEF Finish
<1>3. ASSUME NEW p \in Slots, NEW v \in Voters, NEW o \in Offers, NEW x \in Cast,
             StartVote(p, v, o, x)
      PROVE  HInv'
  BY <1>1, <1>3, HotStartEnd
<1>4. ASSUME NEW d \in Offers, Unmerge(d) \/ \E t \in Offers : Merge(d, t)
      PROVE  HInv'
  <2>1. PICK touched \in SUBSET Offers : MoveIsLocal(touched)
    BY <1>1, <1>4, MergeIsLocal, UnmergeIsLocal
  <2>2. row' = row /\ erased' = erased /\ raced' = raced
    BY <1>4 DEF Merge, Unmerge, people
  <2> QED BY <1>1, <2>1, <2>2, HotMove
<1>5. ASSUME NEW v \in Voters, Erase(v)
      PROVE  HInv'
  BY <1>1, <1>5, HotErase
<1>6. CASE TickStep \/ FailTick
  BY <1>1, <1>6, HotTick
<1>7. ASSUME \/ \E o \in Offers, s \in {"active", "expired", "disabled"} : SetStatus(o, s)
             \/ ClockTicks \/ UNCHANGED vars
             \/ \E v \in Voters : AccountAges(v) \/ \E r \in Offers : HourPasses(v, r)
      PROVE  HInv'
  <2>1. /\ req' = req /\ row' = row /\ merged' = merged /\ snap' = snap /\ erased' = erased
        /\ tick' = tick /\ raced' = raced
    BY <1>7 DEF SetStatus, ClockTicks, AccountAges, HourPasses, vars, catalog, ballots, people
  <2>2. \A q \in Slots : ~raced => Ordered(q)' /\ Counted(q)'
    BY <2>1, HotSame DEF Left
  <2> QED BY <1>1, <2>1, <2>2, HotUndisturbed
<1> QED BY <1>2, <1>3, <1>4, <1>5, <1>6, <1>7 DEF Next

LEMMA HotAlways == Spec => []HInv
BY HotInit, HotStep, PTL DEF Spec

\* Hot, everywhere: each canonical offer's hot is made from its group's votes as
\* they are, until something is written from a read that was overtaken.
THEOREM HotIsTally == Spec => []CheckedHotIsTally
<1>1. HInv => CheckedHotIsTally
  BY DEF HInv, HotHolds, CheckedHotIsTally
<1> QED BY <1>1, HotAlways, PTL

\* A vote that commits is the voter's effective vote in the whole group: their
\* older votes on other listings of the offer do not hide it.
THEOREM CastCounts == Spec => CheckedCastCounts
<1> DEFINE Counts(p) == CommitVote(p) /\ ~raced' =>
              Effective(row', Group(merged, req[p].root), req[p].voter).value = req[p].row.value
<1>1. HInv /\ TInv' /\ [Next]_vars => [\A p \in Slots : Counts(p)]_vars
  <2> SUFFICES ASSUME HInv, TInv', NEW p \in Slots, CommitVote(p), ~raced'
               PROVE  Effective(row', Group(merged, req[p].root), req[p].voter).value
                         = req[p].row.value
    OBVIOUS
  <2> DEFINE v == req[p].voter
             r == req[p].root
             ids == req[p].ids
             new == req[p].row
             e == Effective(row', ids, v)
  <2>1. ~raced /\ ~req[p].stale /\ req[p].pc = "counted"
    BY DEF CommitVote
  <2>2. TInv /\ Ordered(p) /\ Knows(p)
    BY <2>1 DEF HInv, GInv
  <2>3. /\ row \in [Offers -> [Voters -> Row]] /\ row' \in [Offers -> [Voters -> Row]]
        /\ merged \in [Offers -> Offers \cup {NoOffer}] /\ req[p] \in Request
    BY <2>2 DEF TInv, TypeOK
  <2>4. v \in Voters /\ r \in Offers /\ ids = Group(merged, r)
    BY <2>1, <2>2 DEF TInv, RequestsNamed, Knows
  <2>5. ids \in SUBSET Offers /\ r \in ids
    BY <2>3, <2>4, GroupHasOffer
  <2>6. row'[r][v] = new /\ \A o \in ids \ {r} : row'[o][v] = row[o][v]
    BY <2>3, <2>4, <2>5 DEF CommitVote
  <2>7. \A o \in ids \ {r} : row'[o][v].at < new.at
    BY <2>1, <2>2, <2>6 DEF Ordered
  <2> HIDE DEF e, v, r, ids, new
  <2>8. PICK o \in ids : e = row'[o][v]
    BY <2>3, <2>4, <2>5, EffectiveIsLatest DEF e
  <2>9. ~Later(new, e)
    BY <2>3, <2>4, <2>5, <2>6, EffectiveIsLatest DEF e
  <2>10. o = r
    BY <2>7, <2>8, <2>9 DEF Later
  <2>11. e = new
    BY <2>6, <2>8, <2>10
  <2> QED BY <2>4, <2>11 DEF e, v, r, ids, new
<1>2. HInv => TInv
  BY DEF HInv, GInv
<1> QED BY <1>1, <1>2, HotAlways, PTL DEF Spec, CheckedCastCounts
=============================================================================
