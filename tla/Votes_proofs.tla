---------------------------- MODULE Votes_proofs ----------------------------
(***************************************************************************)
(* Theorems about Votes, for any offers, voters, slots, limits and bounds. *)
(***************************************************************************)
EXTENDS Votes, MergeForest_proofs, FiniteSetTheorems, WellFoundedInduction, TLAPS

-----------------------------------------------------------------------------
(* The latest row.  A finite set of rows has one: otherwise take a smallest *)
(* set that has none, and one of its rows out of it.                       *)

LEMMA SomeRowIsLatest ==
    ASSUME NEW S, S \subseteq Row, S # {}, IsFiniteSet(S)
    PROVE  \E r \in S : \A s \in S : ~Later(s, r)
<1> DEFINE HasLatest(X) == \E r \in X : \A s \in X : ~Later(s, r)
           Bad == {X \in FiniteSubsetsOf(S) : X # {} /\ ~HasLatest(X)}
<1> SUFFICES ASSUME Bad # {}
             PROVE  FALSE
  BY DEF FiniteSubsetsOf
<1>1. IsWellFoundedOn(StrictSubsetOrdering(S), FiniteSubsetsOf(S))
  BY FS_StrictSubsetOrderingWellFounded, Zenon
<1>2. Bad \subseteq FiniteSubsetsOf(S)
  OBVIOUS
<1>3. PICK X \in Bad : \A Y \in Bad : <<Y, X>> \notin StrictSubsetOrdering(S)
  BY <1>1, <1>2, WFMin, Zenon
<1>4. X \subseteq S /\ IsFiniteSet(X) /\ X # {} /\ ~HasLatest(X)
  BY DEF FiniteSubsetsOf
<1>5. PICK a \in X : TRUE
  BY <1>4
<1>6. X \ {a} \in FiniteSubsetsOf(S)
  BY <1>4, FS_RemoveElement DEF FiniteSubsetsOf
<1>7. <<X \ {a}, X>> \in StrictSubsetOrdering(S)
  BY <1>4, <1>5 DEF StrictSubsetOrdering
<1>8. X \ {a} \notin Bad
  BY <1>3, <1>7
<1>9. \A s \in X : s.at \in Nat /\ s.seq \in Nat
  BY <1>4 DEF Row
<1>10. CASE X \ {a} = {}
  BY <1>4, <1>5, <1>9, <1>10 DEF Later
<1>11. CASE X \ {a} # {}
  <2>1. PICK m \in X \ {a} : \A s \in X \ {a} : ~Later(s, m)
    BY <1>6, <1>8, <1>11
  <2>2. CASE Later(a, m)
    <3>1. \A s \in X : ~Later(s, a)
      BY <1>5, <1>9, <2>1, <2>2 DEF Later
    <3> QED BY <1>4, <1>5, <3>1
  <2>3. CASE ~Later(a, m)
    <3>1. \A s \in X : ~Later(s, m)
      BY <2>1, <2>3
    <3> QED BY <1>4, <2>1, <3>1
  <2> QED BY <2>2, <2>3
<1> QED BY <1>10, <1>11

\* A person's effective vote in a group is one of their rows in it, and none of
\* them is later.
LEMMA EffectiveIsLatest ==
    ASSUME NEW rows \in [Offers -> [Voters -> Row]], NEW ids \in SUBSET Offers, ids # {},
           NEW v \in Voters
    PROVE  /\ \E o \in ids : Effective(rows, ids, v) = rows[o][v]
           /\ \A o \in ids : ~Later(rows[o][v], Effective(rows, ids, v))
<1> DEFINE mine == {rows[o][v] : o \in ids}
<1>1. IsFiniteSet(ids)
  BY VotesAssumption, FS_Subset
<1>2. IsFiniteSet(mine)
  <2>1. [o \in ids |-> rows[o][v]] \in Surjection(ids, mine)
    BY DEF Surjection
  <2> QED BY <1>1, <2>1, FS_Surjection
<1>3. mine \subseteq Row /\ mine # {}
  OBVIOUS
<1>4. \E r \in mine : \A s \in mine : ~Later(s, r)
  BY <1>2, <1>3, SomeRowIsLatest
<1>5. /\ Effective(rows, ids, v) \in mine
      /\ \A s \in mine : ~Later(s, Effective(rows, ids, v))
  BY <1>4 DEF Effective
<1> QED BY <1>5

\* A tally holds a weighed vote for everyone.
LEMMA TallyType ==
    ASSUME NEW rows \in [Offers -> [Voters -> Row]], NEW ids \in SUBSET Offers, ids # {}
    PROVE  Tally(rows, ids) \in Tallies
<1> SUFFICES ASSUME NEW v \in Voters
             PROVE  Effective(rows, ids, v).value * Effective(rows, ids, v).weight \in (-Full)..Full
  BY DEF Tally, Tallies
<1>1. Effective(rows, ids, v) \in Row
  BY EffectiveIsLatest
<1>2. PICK r : r = Effective(rows, ids, v)
  OBVIOUS
<1>3. r.value \in {-1, 0, 1} /\ r.weight \in {0, 1, 4}
  BY <1>1, <1>2 DEF Row, Full
<1>4. \A a \in {-1, 0, 1}, b \in {0, 1, 4} : a * b \in (-4)..4
  BY SMT
<1> QED BY <1>2, <1>3, <1>4 DEF Full

\* A tally depends on the rows of its group only, and on each person's own for
\* that person.
LEMMA SameTally ==
    ASSUME NEW rows, NEW old, NEW ids, NEW v \in Voters, \A o \in ids : rows[o][v] = old[o][v]
    PROVE  Tally(rows, ids)[v] = Tally(old, ids)[v]
<1>1. {rows[o][v] : o \in ids} = {old[o][v] : o \in ids}
  OBVIOUS
<1>2. Effective(rows, ids, v) = Effective(old, ids, v)
  BY <1>1 DEF Effective
<1> QED BY <1>2 DEF Tally

-----------------------------------------------------------------------------
(* What a commit overtakes changes nothing but the mark.                   *)

LEMMA MoveMarks ==
    ASSUME req \in [Slots -> Request], NEW around
    PROVE  /\ OvertakenByMove(around) \in [Slots -> Request]
           /\ \A p \in Slots : LET n == OvertakenByMove(around)[p]
                               IN  /\ n.pc = req[p].pc /\ n.voter = req[p].voter
                                   /\ n.root = req[p].root /\ n.ids = req[p].ids
                                   /\ n.row = req[p].row /\ n.tally = req[p].tally
                                   /\ n.stale <=> (req[p].stale \/ req[p].ids \cap around # {})
<1> SUFFICES ASSUME NEW p \in Slots
             PROVE  LET n == OvertakenByMove(around)[p]
                    IN  /\ n \in Request
                        /\ n.pc = req[p].pc /\ n.voter = req[p].voter
                        /\ n.root = req[p].root /\ n.ids = req[p].ids
                        /\ n.row = req[p].row /\ n.tally = req[p].tally
                        /\ n.stale <=> (req[p].stale \/ req[p].ids \cap around # {})
  BY DEF OvertakenByMove
<1>1. req[p] \in Request
  OBVIOUS
<1> QED BY <1>1 DEF OvertakenByMove, Request

LEMMA VoteMarks ==
    ASSUME req \in [Slots -> Request], NEW ids
    PROVE  /\ OvertakenByVote(ids) \in [Slots -> Request]
           /\ \A p \in Slots : LET n == OvertakenByVote(ids)[p]
                               IN  /\ n.pc = req[p].pc /\ n.voter = req[p].voter
                                   /\ n.root = req[p].root /\ n.ids = req[p].ids
                                   /\ n.row = req[p].row /\ n.tally = req[p].tally
                                   /\ n.stale <=> (req[p].stale \/ (req[p].pc = "counted" /\ req[p].ids \cap ids # {}))
<1> SUFFICES ASSUME NEW p \in Slots
             PROVE  LET n == OvertakenByVote(ids)[p]
                    IN  /\ n \in Request
                        /\ n.pc = req[p].pc /\ n.voter = req[p].voter
                        /\ n.root = req[p].root /\ n.ids = req[p].ids
                        /\ n.row = req[p].row /\ n.tally = req[p].tally
                        /\ n.stale <=> (req[p].stale \/ (req[p].pc = "counted" /\ req[p].ids \cap ids # {}))
  BY DEF OvertakenByVote
<1>1. req[p] \in Request
  OBVIOUS
<1> QED BY <1>1 DEF OvertakenByVote, Request

LEMMA TickMarks ==
    ASSUME tick \in TickState, NEW ids
    PROVE  /\ TickOvertaken(ids) \in TickState
           /\ TickOvertaken(ids).pc = tick.pc /\ TickOvertaken(ids).ids = tick.ids
           /\ TickOvertaken(ids).tally = tick.tally
           /\ TickOvertaken(ids).stale <=> (tick.stale \/ (tick.pc = "counted" /\ tick.ids \cap ids # {}))
BY DEF TickOvertaken, TickState

-----------------------------------------------------------------------------
(* Types.                                                                  *)

\* A request names a person and an offer.
RequestsNamed ==
    \A p \in Slots : req[p].pc # "idle" => req[p].voter \in Voters /\ req[p].root \in Offers

TInv == TypeOK /\ RequestsNamed

LEMMA EmptyTypes ==
    /\ NoVotes \in Tallies /\ NoRow \in Row
    /\ Idle \in Request /\ Idle.pc = "idle"
    /\ NoTick \in TickState /\ NoTick.pc = "idle"
<1>1. NoVotes \in Tallies
  BY DEF NoVotes, Tallies, Full
<1>2. NoRow \in Row
  BY DEF NoRow, Row
<1> QED BY <1>1, <1>2 DEF Idle, Request, NoTick, TickState

\* A group's tally, and the groups it is taken over.
LEMMA GroupHasOffer ==
    ASSUME NEW m \in [Offers -> Offers \cup {NoOffer}], NEW r \in Offers
    PROVE  Group(m, r) \in SUBSET Offers /\ r \in Group(m, r)
BY ChainSelf DEF Group

LEMMA GroupTallyType ==
    ASSUME NEW rows \in [Offers -> [Voters -> Row]],
           NEW m \in [Offers -> Offers \cup {NoOffer}], NEW r \in Offers
    PROVE  Tally(rows, Group(m, r)) \in Tallies
<1>1. Group(m, r) \in SUBSET Offers /\ Group(m, r) # {}
  BY GroupHasOffer
<1> QED BY <1>1, TallyType

LEMMA RootsAreOffers ==
    ASSUME NEW m \in [Offers -> Offers \cup {NoOffer}], NEW o, NEW r \in Roots(m, o)
    PROVE  r \in Offers
BY DEF Roots, Chain

LEMMA TypesInit == Init => TInv
<1> SUFFICES ASSUME Init
             PROVE  TInv
  OBVIOUS
<1> USE DEF Init
<1>1. \A v \in Voters : EarlierRow(v) \in Row
  BY DEF EarlierRow, Row, Full
<1>2. row \in [Offers -> [Voters -> Row]] /\ merged \in [Offers -> Offers \cup {NoOffer}]
  BY <1>1, EmptyTypes
<1>3. \A o \in Offers : GroupTally(o) \in Tallies
  BY <1>2, GroupTallyType DEF GroupTally
<1>4. snap \in [Offers -> Tallies]
  BY <1>3
<1>5. req \in [Slots -> Request] /\ tick \in TickState /\ RequestsNamed
  BY EmptyTypes DEF RequestsNamed
<1>6. /\ status \in [Offers -> {"active", "expired", "disabled"}]
      /\ poster \in [Offers -> Voters \cup {NoVoter}]
      /\ hits \in [Voters -> Nat] /\ pairHits \in [Voters -> [Offers -> Nat]]
      /\ young \subseteq Voters /\ erased \subseteq Voters
  BY VotesAssumption
<1>7. /\ nextSeq \in Nat \ {0} /\ clock \in Nat \ {0}
      /\ votes \in Nat /\ moves \in Nat /\ faults \in Nat
  OBVIOUS
<1>8. raced \in BOOLEAN
  BY Zenon
<1> HIDE DEF Init
<1> QED BY <1>2, <1>4, <1>5, <1>6, <1>7, <1>8 DEF TInv, TypeOK
LEMMA TypesStart ==
    ASSUME TInv, NEW p \in Slots, NEW v \in Voters, NEW o \in Offers, NEW x \in {-1, 0, 1}, StartVote(p, v, o, x)
    PROVE  TInv'
<1>1. PICK r \in Roots(merged, o) :
         req' = [req EXCEPT ![p] = [Idle EXCEPT !.pc = "checked", !.voter = v, !.root = r,
                                                !.ids = Group(merged, r), !.row.value = x]]
  BY DEF StartVote
<1>2. r \in Offers /\ Group(merged, r) \in SUBSET Offers
  BY RootsAreOffers, GroupHasOffer DEF TInv, TypeOK
<1> DEFINE new == [Idle EXCEPT !.pc = "checked", !.voter = v, !.root = r,
                               !.ids = Group(merged, r), !.row.value = x]
<1>3. new.row \in Row
  BY DEF Idle, NoRow, Row
<1>4. new \in Request /\ new.voter = v /\ new.root = r
  BY <1>2, <1>3, EmptyTypes DEF Request, Idle
<1> HIDE DEF new
<1>5. req' \in [Slots -> Request] /\ RequestsNamed'
  BY <1>1, <1>2, <1>4 DEF new, TInv, TypeOK, RequestsNamed
<1>6. votes' \in Nat
  BY DEF StartVote, TInv, TypeOK
<1> QED BY <1>5, <1>6 DEF StartVote, TInv, TypeOK, catalog, ballots, limits, people
LEMMA TypesEnd ==
    ASSUME TInv, NEW p \in Slots, EndVote(p)
    PROVE  TInv'
<1>1. req' \in [Slots -> Request] /\ RequestsNamed'
  BY EmptyTypes DEF EndVote, TInv, TypeOK, RequestsNamed
<1> QED BY <1>1 DEF EndVote, TInv, TypeOK, catalog, ballots, limits, people, bounds
LEMMA TypesAdmit ==
    ASSUME TInv, NEW p \in Slots, AdmitVote(p)
    PROVE  TInv'
<1> DEFINE v == req[p].voter
<1>1. req[p] \in Request /\ req[p].pc = "checked" /\ v \in Voters
  BY DEF AdmitVote, TInv, TypeOK, RequestsNamed
<1>2. PICK last \in {row[o][v].at : o \in req[p].ids} :
         req' = [req EXCEPT ![p] = [@ EXCEPT !.pc = "admitted", !.row.weight = WeightFor(v),
                                             !.row.at = WriteTime(last)]]
  BY DEF AdmitVote
<1>3. last \in Nat
  <2>1. PICK o \in Offers : last = row[o][v].at
    BY <1>1, <1>2 DEF Request
  <2>2. row[o][v] \in Row
    BY <1>1 DEF TInv, TypeOK
  <2> QED BY <2>1, <2>2 DEF Row
<1>4. WriteTime(last) \in Nat
  BY <1>3 DEF WriteTime, TInv, TypeOK
<1>5. WeightFor(v) \in {0, 1, Full}
  BY DEF WeightFor
<1> DEFINE new == [req[p] EXCEPT !.pc = "admitted", !.row.weight = WeightFor(v),
                                 !.row.at = WriteTime(last)]
<1>6. new \in Request /\ new.voter = v /\ new.root = req[p].root
  BY <1>1, <1>4, <1>5 DEF Request, Row
<1> HIDE DEF new
<1>7. req' = [req EXCEPT ![p] = new]
  BY <1>2 DEF new
<1>8. req' \in [Slots -> Request] /\ RequestsNamed'
  BY <1>1, <1>6, <1>7 DEF TInv, TypeOK, RequestsNamed
<1> QED BY <1>8 DEF AdmitVote, TInv, TypeOK, catalog, ballots, limits, people, bounds
LEMMA TypesCount ==
    ASSUME TInv, NEW p \in Slots, CountVote(p)
    PROVE  TInv'
<1> DEFINE v == req[p].voter
           r == req[p].root
           written == [req[p].row EXCEPT !.seq = IF row[r][v] = NoRow THEN nextSeq ELSE row[r][v].seq]
           rows == [row EXCEPT ![r][v] = written]
           new == [req[p] EXCEPT !.pc = "counted", !.row = written, !.tally = Tally(rows, Group(merged, r))]
<1>1. req[p] \in Request /\ req[p].pc = "admitted" /\ v \in Voters /\ r \in Offers
  BY DEF CountVote, TInv, TypeOK, RequestsNamed
<1>2. written \in Row
  <2>1. req[p].row \in Row /\ row[r][v] \in Row /\ nextSeq \in Nat
    BY <1>1 DEF Request, TInv, TypeOK
  <2>2. (IF row[r][v] = NoRow THEN nextSeq ELSE row[r][v].seq) \in Nat
    BY <2>1 DEF Row
  <2> QED BY <2>1, <2>2 DEF Row
<1>3. rows \in [Offers -> [Voters -> Row]]
  BY <1>1, <1>2 DEF TInv, TypeOK
<1>4. Tally(rows, Group(merged, r)) \in Tallies
  BY <1>1, <1>3, GroupTallyType DEF TInv, TypeOK
<1>5. req' = [req EXCEPT ![p] = new] /\ nextSeq' \in Nat \ {0}
  BY DEF CountVote, TInv, TypeOK
<1>6. new \in Request /\ new.voter = v /\ new.root = r
  BY <1>1, <1>2, <1>4 DEF Request
<1> HIDE DEF new
<1>7. req' \in [Slots -> Request] /\ RequestsNamed'
  BY <1>1, <1>5, <1>6 DEF TInv, TypeOK, RequestsNamed
<1> QED BY <1>5, <1>7 DEF CountVote, TInv, TypeOK, catalog, limits, people, bounds
LEMMA TypesCommit ==
    ASSUME TInv, NEW p \in Slots, CommitVote(p)
    PROVE  TInv'
<1> DEFINE v == req[p].voter
           r == req[p].root
<1>1. req[p] \in Request /\ req[p].pc = "counted" /\ v \in Voters /\ r \in Offers
  BY DEF CommitVote, TInv, TypeOK, RequestsNamed
<1>2. row' \in [Offers -> [Voters -> Row]] /\ snap' \in [Offers -> Tallies]
  BY <1>1 DEF CommitVote, Request, TInv, TypeOK
<1>3. hits' \in [Voters -> Nat] /\ pairHits' \in [Voters -> [Offers -> Nat]]
  BY <1>1 DEF CommitVote, TInv, TypeOK
<1>4. req' \in [Slots -> Request] /\ RequestsNamed'
  BY VoteMarks, EmptyTypes DEF CommitVote, TInv, TypeOK, RequestsNamed
<1>5. tick' \in TickState
  BY TickMarks DEF CommitVote, TInv, TypeOK
<1>6. raced' \in BOOLEAN
  BY Zenon DEF CommitVote
<1> QED BY <1>2, <1>3, <1>4, <1>5, <1>6 DEF CommitVote, TInv, TypeOK, catalog, people, bounds
LEMMA TypesMerge ==
    ASSUME TInv, NEW d \in Offers, NEW t \in Offers, Merge(d, t)
    PROVE  TInv'
<1>1. PICK r \in Roots(merged, t) :
         /\ merged' = [merged EXCEPT ![d] = r]
         /\ snap' = [snap EXCEPT ![r] = Tally(row, Group(merged', r))]
         /\ req' = OvertakenByMove(Group(merged, d) \cup Group(merged, r))
         /\ tick' = TickOvertaken(Group(merged, d) \cup Group(merged, r))
  BY DEF Merge
<1>2. r \in Offers /\ merged' \in [Offers -> Offers \cup {NoOffer}]
  BY <1>1, RootsAreOffers DEF TInv, TypeOK
<1>3. Tally(row, Group(merged', r)) \in Tallies
  BY <1>2, GroupTallyType DEF TInv, TypeOK
<1>4. snap' \in [Offers -> Tallies]
  BY <1>1, <1>3 DEF TInv, TypeOK
<1>5. req' \in [Slots -> Request] /\ RequestsNamed' /\ tick' \in TickState
  <2> DEFINE around == Group(merged, d) \cup Group(merged, r)
  <2>1. req \in [Slots -> Request] /\ tick \in TickState
    BY DEF TInv, TypeOK
  <2>2. req' = OvertakenByMove(around) /\ tick' = TickOvertaken(around)
    BY <1>1
  <2> HIDE DEF around
  <2>3. req' \in [Slots -> Request] /\ tick' \in TickState
    BY <2>1, <2>2, MoveMarks, TickMarks
  <2>4. \A p \in Slots : req'[p].pc = req[p].pc /\ req'[p].voter = req[p].voter /\ req'[p].root = req[p].root
    BY <2>1, <2>2, MoveMarks
  <2> QED BY <2>3, <2>4 DEF TInv, RequestsNamed
<1>6. moves' \in Nat
  BY DEF Merge, TInv, TypeOK
<1> QED BY <1>2, <1>4, <1>5, <1>6 DEF Merge, TInv, TypeOK, limits, people
LEMMA TypesUnmerge ==
    ASSUME TInv, NEW d \in Offers, Unmerge(d)
    PROVE  TInv'
<1>1. PICK r \in Roots(merged, d) :
         /\ merged' = [merged EXCEPT ![d] = NoOffer]
         /\ snap' = [snap EXCEPT ![r] = Tally(row, Group(merged', r)),
                                 ![d] = Tally(row, Group(merged', d))]
         /\ req' = OvertakenByMove(Group(merged, r))
         /\ tick' = TickOvertaken(Group(merged, r))
  BY DEF Unmerge
<1>2. r \in Offers /\ merged' \in [Offers -> Offers \cup {NoOffer}]
  BY <1>1, RootsAreOffers DEF TInv, TypeOK
<1>3. Tally(row, Group(merged', r)) \in Tallies /\ Tally(row, Group(merged', d)) \in Tallies
  BY <1>2, GroupTallyType DEF TInv, TypeOK
<1>4. snap' \in [Offers -> Tallies]
  BY <1>1, <1>3 DEF TInv, TypeOK
<1>5. req' \in [Slots -> Request] /\ RequestsNamed' /\ tick' \in TickState
  <2> DEFINE around == Group(merged, r)
  <2>1. req \in [Slots -> Request] /\ tick \in TickState
    BY DEF TInv, TypeOK
  <2>2. req' = OvertakenByMove(around) /\ tick' = TickOvertaken(around)
    BY <1>1
  <2> HIDE DEF around
  <2>3. req' \in [Slots -> Request] /\ tick' \in TickState
    BY <2>1, <2>2, MoveMarks, TickMarks
  <2>4. \A p \in Slots : req'[p].pc = req[p].pc /\ req'[p].voter = req[p].voter /\ req'[p].root = req[p].root
    BY <2>1, <2>2, MoveMarks
  <2> QED BY <2>3, <2>4 DEF TInv, RequestsNamed
<1>6. moves' \in Nat
  BY DEF Unmerge, TInv, TypeOK
<1> QED BY <1>2, <1>4, <1>5, <1>6 DEF Unmerge, TInv, TypeOK, limits, people
LEMMA TypesErase ==
    ASSUME TInv, NEW v \in Voters, Erase(v)
    PROVE  TInv'
<1>1. row' \in [Offers -> [Voters -> Row]]
  BY EmptyTypes DEF Erase, TInv, TypeOK
<1>2. poster' \in [Offers -> Voters \cup {NoVoter}] /\ hits' \in [Voters -> Nat] /\ erased' \subseteq Voters
  BY DEF Erase, TInv, TypeOK
<1> QED BY <1>1, <1>2 DEF Erase, TInv, TypeOK, RequestsNamed, bounds

LEMMA TypesTick ==
    ASSUME TInv, TickStep \/ FailTick
    PROVE  TInv'
<1>1. CASE TickList
  <2>1. tick' \in TickState
    <3>1. Ticked \in SUBSET Offers
      BY DEF Ticked
    <3> QED BY <1>1, <3>1, EmptyTypes DEF TickList, TickState
  <2> QED BY <1>1, <2>1 DEF TickList, TInv, TypeOK, RequestsNamed, catalog, ballots, limits, people, bounds
<1>2. CASE TickCount
  <2>1. \A o \in tick.ids : GroupTally(o) \in Tallies
    BY GroupTallyType DEF GroupTally, TInv, TypeOK, TickState
  <2>2. tick' \in TickState
    BY <1>2, <2>1, EmptyTypes DEF TickCount, TInv, TypeOK, TickState
  <2> QED BY <1>2, <2>2 DEF TickCount, TInv, TypeOK, RequestsNamed, catalog, ballots, limits, people, bounds
<1>3. CASE TickWrite
  <2>1. snap' \in [Offers -> Tallies] /\ tick' \in TickState
    BY <1>3, EmptyTypes DEF TickWrite, TInv, TypeOK, TickState
  <2>2. raced' \in BOOLEAN
    BY <1>3, Zenon DEF TickWrite
  <2> QED BY <1>3, <2>1, <2>2 DEF TickWrite, TInv, TypeOK, RequestsNamed, catalog, limits, people, bounds
<1>4. CASE FailTick
  BY <1>4, EmptyTypes DEF FailTick, TInv, TypeOK, RequestsNamed, catalog, ballots, limits, people
<1> QED BY <1>1, <1>2, <1>3, <1>4 DEF TickStep

\* Every action.
LEMMA TypesStep == TInv /\ [Next]_vars => TInv'
<1> SUFFICES ASSUME TInv, [Next]_vars
             PROVE  TInv'
  OBVIOUS
<1>1. ASSUME NEW p \in Slots, Finish(p)
      PROVE  TInv'
  BY <1>1, TypesAdmit, TypesCount, TypesCommit, TypesEnd DEF Finish
<1>2. ASSUME NEW p \in Slots, NEW v \in Voters, NEW o \in Offers, NEW x \in Cast, StartVote(p, v, o, x)
      PROVE  TInv'
  BY <1>2, TypesStart, VotesAssumption
<1>3. ASSUME NEW d \in Offers, NEW t \in Offers, Merge(d, t)
      PROVE  TInv'
  BY <1>3, TypesMerge
<1>4. ASSUME NEW d \in Offers, Unmerge(d)
      PROVE  TInv'
  BY <1>4, TypesUnmerge
<1>5. ASSUME NEW o \in Offers, NEW s \in {"active", "expired", "disabled"}, SetStatus(o, s)
      PROVE  TInv'
  BY <1>5 DEF SetStatus, TInv, TypeOK, RequestsNamed, ballots, limits, people
<1>6. CASE TickStep \/ FailTick
  BY <1>6, TypesTick
<1>7. ASSUME NEW v \in Voters, Erase(v)
      PROVE  TInv'
  BY <1>7, TypesErase
<1>8. ASSUME NEW v \in Voters, AccountAges(v)
      PROVE  TInv'
  BY <1>8 DEF AccountAges, TInv, TypeOK, RequestsNamed, catalog, ballots, limits
<1>9. ASSUME NEW v \in Voters, NEW r \in Offers, HourPasses(v, r)
      PROVE  TInv'
  <2>1. hits' \in [Voters -> Nat] /\ pairHits' \in [Voters -> [Offers -> Nat]] /\ clock' \in Nat \ {0}
    BY <1>9 DEF HourPasses, TInv, TypeOK
  <2> QED BY <1>9, <2>1 DEF HourPasses, TInv, TypeOK, RequestsNamed, catalog, ballots, people
<1>10. CASE ClockTicks
  BY <1>10 DEF ClockTicks, TInv, TypeOK, RequestsNamed, catalog, ballots, limits, people
<1>11. CASE UNCHANGED vars
  BY <1>11 DEF vars, TInv, TypeOK, RequestsNamed, catalog, ballots, limits, people, bounds
<1> QED BY <1>1, <1>2, <1>3, <1>4, <1>5, <1>6, <1>7, <1>8, <1>9, <1>10, <1>11 DEF Next

\* Every variable keeps its type (deal_votes' checks, a vote's weight included),
\* for any number of offers and voters.
THEOREM TypeCorrectness == Spec => []TypeOK
<1>1. Init => TInv
  BY TypesInit
<1>2. TInv /\ [Next]_vars => TInv'
  BY TypesStep
<1>3. TInv => TypeOK
  BY DEF TInv
<1> QED BY <1>1, <1>2, <1>3, PTL DEF Spec

-----------------------------------------------------------------------------
(* Limits.  A vote that has passed the check and not yet inserted its event *)
(* counts as inserted.                                                     *)

Passed(v) == {p \in Slots : req[p].pc \in {"admitted", "counted"} /\ req[p].voter = v}

RoomForPassed ==
    \A v \in Voters : hits[v] + Cardinality(Passed(v)) <= VoteLimit + Cardinality(Slots) - 1

LEMMA PassedIsFinite ==
    ASSUME NEW S, S \subseteq Slots
    PROVE  /\ IsFiniteSet(S) /\ Cardinality(S) \in Nat /\ Cardinality(Slots) \in Nat
           /\ Cardinality(S) <= Cardinality(Slots)
BY VotesAssumption, FS_Subset, FS_CardinalityType

LEMMA PassedShrinks ==
    ASSUME TInv, TInv', RoomForPassed, NEW v \in Voters, hits'[v] <= hits[v],
           \A p \in Slots : p \in Passed(v)' => p \in Passed(v)
    PROVE  hits'[v] + Cardinality(Passed(v)') <= VoteLimit + Cardinality(Slots) - 1
<1>1. Passed(v)' \subseteq Passed(v) /\ Passed(v) \subseteq Slots
  BY DEF Passed
<1>2. /\ Cardinality(Passed(v)') <= Cardinality(Passed(v))
      /\ Cardinality(Passed(v)) \in Nat /\ Cardinality(Passed(v)') \in Nat
      /\ Cardinality(Slots) \in Nat
  BY <1>1, PassedIsFinite, FS_Subset
<1>3. hits[v] \in Nat /\ hits'[v] \in Nat /\ VoteLimit \in Nat
  BY VotesAssumption DEF TInv, TypeOK
<1>4. hits[v] + Cardinality(Passed(v)) <= VoteLimit + Cardinality(Slots) - 1
  BY DEF RoomForPassed
<1> QED BY <1>2, <1>3, <1>4

LEMMA RoomInit == Init => RoomForPassed
<1> SUFFICES ASSUME Init, NEW v \in Voters
             PROVE  hits[v] + Cardinality(Passed(v)) <= VoteLimit + Cardinality(Slots) - 1
  BY DEF RoomForPassed
<1>1. hits[v] = 0 /\ Passed(v) = {}
  BY EmptyTypes DEF Init, Passed
<1>2. Cardinality(Passed(v)) = 0 /\ Cardinality(Slots) \in Nat
  BY <1>1, FS_EmptySet, PassedIsFinite
<1> QED BY <1>1, <1>2, VotesAssumption

LEMMA RoomStep == TInv /\ TInv' /\ RoomForPassed /\ [Next]_vars => RoomForPassed'
<1> SUFFICES ASSUME TInv, TInv', RoomForPassed, [Next]_vars, NEW v \in Voters
             PROVE  hits'[v] + Cardinality(Passed(v)') <= VoteLimit + Cardinality(Slots) - 1
  BY DEF RoomForPassed
<1>1. ASSUME NEW p \in Slots, AdmitVote(p), req[p].voter = v
      PROVE  hits'[v] + Cardinality(Passed(v)') <= VoteLimit + Cardinality(Slots) - 1
  <2>1. hits[v] < VoteLimit /\ hits' = hits
    BY <1>1 DEF AdmitVote, WithinLimits, limits
  <2>2. Passed(v)' \subseteq Slots
    BY DEF Passed
  <2>3. /\ Cardinality(Passed(v)') \in Nat /\ Cardinality(Slots) \in Nat
        /\ Cardinality(Passed(v)') <= Cardinality(Slots)
    BY <2>2, PassedIsFinite
  <2>4. hits[v] \in Nat /\ VoteLimit \in Nat
    BY VotesAssumption DEF TInv, TypeOK
  <2> QED BY <2>1, <2>3, <2>4
<1>2. ASSUME NEW p \in Slots, AdmitVote(p), req[p].voter # v
      PROVE  hits' = hits /\ Passed(v)' \subseteq Passed(v)
  <2>1. \A q \in Slots : req'[q].voter = req[q].voter /\ (q # p => req'[q] = req[q])
    BY <1>2 DEF AdmitVote, TInv, TypeOK, Request
  <2> QED BY <1>2, <2>1 DEF AdmitVote, Passed, limits
<1>3. ASSUME NEW p \in Slots, CommitVote(p), req[p].voter = v
      PROVE  hits'[v] + Cardinality(Passed(v)') <= VoteLimit + Cardinality(Slots) - 1
  <2>1. hits'[v] = hits[v] + 1 /\ hits[v] \in Nat /\ VoteLimit \in Nat
    BY <1>3, VotesAssumption DEF CommitVote, TInv, TypeOK
  <2>2. p \in Passed(v)
    BY <1>3 DEF CommitVote, Passed
  <2>3. Passed(v)' \subseteq Passed(v) \ {p}
    BY <1>3, VoteMarks, EmptyTypes DEF CommitVote, Passed, TInv, TypeOK
  <2>4. Passed(v) \subseteq Slots /\ Passed(v)' \subseteq Slots
    BY DEF Passed
  <2>5. /\ IsFiniteSet(Passed(v)) /\ Cardinality(Passed(v)) \in Nat /\ Cardinality(Slots) \in Nat
        /\ Cardinality(Passed(v)') \in Nat
    BY <2>4, PassedIsFinite
  <2>6. IsFiniteSet(Passed(v) \ {p}) /\ Cardinality(Passed(v) \ {p}) = Cardinality(Passed(v)) - 1
    BY <2>2, <2>5, FS_RemoveElement
  <2>7. Cardinality(Passed(v)') <= Cardinality(Passed(v)) - 1
    BY <2>3, <2>6, FS_Subset
  <2>8. hits[v] + Cardinality(Passed(v)) <= VoteLimit + Cardinality(Slots) - 1
    BY DEF RoomForPassed
  <2> QED BY <2>1, <2>5, <2>7, <2>8
<1>4. ASSUME NEW p \in Slots, CommitVote(p), req[p].voter # v
      PROVE  hits'[v] = hits[v] /\ Passed(v)' \subseteq Passed(v)
  <2>1. hits'[v] = hits[v]
    BY <1>4 DEF CommitVote, TInv, TypeOK
  <2>2. Passed(v)' \subseteq Passed(v)
    BY <1>4, VoteMarks, EmptyTypes DEF CommitVote, Passed, TInv, TypeOK
  <2> QED BY <2>1, <2>2
<1>5. ASSUME NEW p \in Slots, CountVote(p) \/ EndVote(p)
      PROVE  hits' = hits /\ Passed(v)' \subseteq Passed(v)
  <2>1. hits' = hits
    BY <1>5 DEF CountVote, EndVote, limits
  <2>2. CASE CountVote(p)
    <3>1. req[p].pc = "admitted" /\ \A q \in Slots : req'[q].voter = req[q].voter /\ (q # p => req'[q] = req[q])
      BY <2>2 DEF CountVote, TInv, TypeOK, Request
    <3> QED BY <2>1, <3>1 DEF Passed
  <2>3. CASE EndVote(p)
    BY <2>1, <2>3, EmptyTypes DEF EndVote, Passed, TInv, TypeOK
  <2> QED BY <1>5, <2>2, <2>3
<1>6. ASSUME NEW p \in Slots, NEW w \in Voters, NEW o \in Offers, NEW x \in Cast, StartVote(p, w, o, x)
      PROVE  hits' = hits /\ Passed(v)' \subseteq Passed(v)
  <2>1. /\ hits' = hits /\ req'[p].pc = "checked"
        /\ \A q \in Slots : q # p => req'[q] = req[q]
    BY <1>6 DEF StartVote, limits, Idle, TInv, TypeOK
  <2> QED BY <2>1 DEF Passed
<1>7. ASSUME NEW d \in Offers, Unmerge(d) \/ \E t \in Offers : Merge(d, t)
      PROVE  hits' = hits /\ Passed(v)' \subseteq Passed(v)
  <2>1. PICK around : req' = OvertakenByMove(around)
    BY <1>7 DEF Merge, Unmerge
  <2>2. hits' = hits
    BY <1>7 DEF Merge, Unmerge, limits
  <2>3. req \in [Slots -> Request]
    BY DEF TInv, TypeOK
  <2> QED BY <2>1, <2>2, <2>3, MoveMarks DEF Passed
<1>8. ASSUME NEW w \in Voters, Erase(w) \/ \E r \in Offers : HourPasses(w, r)
      PROVE  hits'[v] <= hits[v] /\ Passed(v)' \subseteq Passed(v)
  <2>1. req' = req
    BY <1>8 DEF Erase, HourPasses
  <2>2. hits[v] \in Nat /\ hits \in [Voters -> Nat]
    BY DEF TInv, TypeOK
  <2>3. CASE Erase(w)
    <3>1. hits' = [hits EXCEPT ![w] = 0]
      BY <2>3 DEF Erase
    <3>2. hits'[v] <= hits[v]
      BY <2>2, <3>1
    <3> QED BY <2>1, <3>2 DEF Passed
  <2>4. ASSUME NEW r \in Offers, HourPasses(w, r)
        PROVE  hits'[v] <= hits[v] /\ Passed(v)' \subseteq Passed(v)
    <3>1. hits' = [hits EXCEPT ![w] = IF @ > 0 THEN @ - 1 ELSE 0]
      BY <2>4 DEF HourPasses
    <3>2. hits'[v] <= hits[v]
      BY <2>2, <3>1
    <3> QED BY <2>1, <3>2 DEF Passed
  <2> QED BY <1>8, <2>3, <2>4
<1>9. ASSUME \/ \E o \in Offers, s \in {"active", "expired", "disabled"} : SetStatus(o, s)
             \/ TickStep \/ FailTick \/ ClockTicks \/ UNCHANGED vars
             \/ \E w \in Voters : AccountAges(w)
      PROVE  hits' = hits /\ Passed(v)' \subseteq Passed(v)
  <2>1. hits' = hits /\ req' = req
    BY <1>9 DEF SetStatus, TickStep, TickList, TickCount, TickWrite, FailTick, ClockTicks,
                AccountAges, vars, limits
  <2> QED BY <2>1 DEF Passed
<1>10. hits[v] \in Nat /\ hits'[v] \in Nat
  BY DEF TInv, TypeOK
<1>11. hits'[v] <= hits[v] /\ Passed(v)' \subseteq Passed(v)
         => hits'[v] + Cardinality(Passed(v)') <= VoteLimit + Cardinality(Slots) - 1
  BY PassedShrinks
<1>12. ASSUME hits'[v] = hits[v]
       PROVE  hits'[v] <= hits[v]
  BY <1>10, <1>12
<1> QED BY <1>1, <1>2, <1>3, <1>4, <1>5, <1>6, <1>7, <1>8, <1>9, <1>11, <1>12 DEF Next, Finish

\* However many votes of a person are handled at once, the limit of votes an hour
\* is passed by less than that many.
THEOREM LimitOvershoot == Spec => []LimitOvershootBounded
<1>1. RoomForPassed /\ TInv => LimitOvershootBounded
  <2> SUFFICES ASSUME RoomForPassed, TInv, NEW v \in Voters
               PROVE  hits[v] <= VoteLimit + Cardinality(Slots) - 1
    BY DEF LimitOvershootBounded
  <2>1. Passed(v) \subseteq Slots
    BY DEF Passed
  <2>2. Cardinality(Passed(v)) \in Nat /\ Cardinality(Slots) \in Nat
    BY <2>1, PassedIsFinite
  <2>3. hits[v] \in Nat /\ VoteLimit \in Nat
    BY VotesAssumption DEF TInv, TypeOK
  <2> QED BY <2>2, <2>3 DEF RoomForPassed
<1> QED BY <1>1, TypesInit, TypesStep, RoomInit, RoomStep, PTL DEF Spec

=============================================================================
