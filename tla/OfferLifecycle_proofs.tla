----------------------- MODULE OfferLifecycle_proofs -----------------------
(***************************************************************************)
(* What OfferLifecycle guarantees for any number of offers, links, open    *)
(* requests, faults and interleavings.                                     *)
(*                                                                         *)
(* The argument: a request's checks, made on an acyclic merge forest,      *)
(* establish Held; a transaction preserves Held for every request it does  *)
(* not overtake; and a transaction whose own request still has Held keeps  *)
(* the forest acyclic, takedowns in force and merged rows as they are.     *)
(***************************************************************************)
EXTENDS OfferLifecycle, MergeForest_proofs

RootOp == {"update", "observe", "expire", "disable", "enable", "review"}

\* What the checks of a request have established.
Held(q) ==
    /\ q.op \in RootOp => offer[q.id].merged = NoOffer
    /\ q.op = "expire" => offer[q.id].status = "active"
    /\ q.op = "merge" => offer[q.to].merged = NoOffer /\ q.to # q.id

\* A request names offers.
Named(q) ==
    /\ q.op \in RootOp \cup {"merge", "unmerge"} => q.id \in Offers
    /\ q.op \in {"merge", "unmerge"} => q.to \in Offers

RequestsNamed == \A p \in Slots : Named(req[p])
RequestsHold == ~raced => \A p \in Slots : ~req[p].stale => Held(req[p])

\* The inductive invariant.
IInv ==
    /\ TypeOK
    /\ RequestsNamed
    /\ RequestsHold
    /\ CheckedMergesStayAcyclic
    /\ CheckedHiddenIsGone
    /\ CheckedPendingIsNoindex

\* What the transaction of request p may do to the rows.
TakedownsKept(rows, p) ==
    \A o \in Offers : offer[o].status = "disabled" /\ rows[o].status # "disabled"
                          => req[p].op = "enable" /\ req[p].id = o
MergedRowsKept(rows) ==
    \A o \in Existing(offer) : offer[o].merged # NoOffer \/ rows[o].merged # NoOffer
                                   => SameColumns(rows[o], offer[o])
Effect(p, rows, seen, ids) ==
    /\ rows \in [Offers -> Row]
    /\ seen \in SUBSET Offers
    /\ \A o \in Offers \ ids : rows[o] = offer[o]
    /\ Held(req[p]) => TakedownsKept(rows, p) /\ MergedRowsKept(rows)
    /\ Held(req[p]) /\ Acyclic(Pointers(offer)) => Acyclic(Pointers(rows))

-----------------------------------------------------------------------------
(* Lemmas.                                                                 *)

\* Writing one row's columns other than its pointer leaves the forest alone.
LEMMA SamePointers ==
    ASSUME NEW rows, NEW old, \A o \in Offers : rows[o].merged = old[o].merged
    PROVE  Pointers(rows) = Pointers(old)
BY DEF Pointers

\* Every root a request resolves to is an offer.
LEMMA RootsAreOffers ==
    ASSUME NEW rows, NEW o, NEW r \in Roots(Pointers(rows), o)
    PROVE  r \in Offers
BY DEF Roots, Chain, Pointers

\* Its row stands alone when the forest is acyclic.
LEMMA RootHasNoPointer ==
    ASSUME offer \in [Offers -> Row], Acyclic(Pointers(offer)), NEW o \in Offers,
           NEW r \in Roots(Pointers(offer), o)
    PROVE  offer[r].merged = NoOffer
<1>1. IsRoot(Pointers(offer), r)
  BY RootsAreRoots DEF Pointers
<1>2. r \in Offers /\ offer[r].merged \notin Offers
  BY <1>1 DEF IsRoot, Pointers
<1> QED BY <1>2 DEF Row

\* The document a transaction writes for a row: gone if the row is hidden,
\* never indexable while its text waits for review.
LEMMA PublishedDoc ==
    ASSUME NEW had \in Doc, NEW row \in Row, NEW o \in Offers, NEW rows, NEW seen
    PROVE  LET d == Publish(had, DocOf(row, o, rows, seen))
           IN  /\ d \in Doc
               /\ Hidden(row) => d \in {"none", "gone"}
               /\ row.review = "pending" => d # "indexable"
BY DEF Publish, DocOf, Doc

LEMMA ReindexedDoc ==
    ASSUME TypeOK, NEW rows \in [Offers -> Row], NEW seen, NEW ids, NEW o \in Offers
    PROVE  /\ Reindexed(rows, seen, ids) \in [Offers -> Doc]
           /\ o \notin ids => Reindexed(rows, seen, ids)[o] = doc[o]
           /\ o \in ids /\ Hidden(rows[o])
                => Reindexed(rows, seen, ids)[o] \in {"none", "gone"}
           /\ o \in ids /\ rows[o].review = "pending"
                => Reindexed(rows, seen, ids)[o] # "indexable"
<1>1. \A x \in Offers : doc[x] \in Doc /\ rows[x] \in Row
  BY DEF TypeOK
<1>2. \A x \in Offers : Publish(doc[x], DocOf(rows[x], x, rows, seen)) \in Doc
  BY <1>1, PublishedDoc
<1>3. Reindexed(rows, seen, ids) \in [Offers -> Doc]
  BY <1>1, <1>2 DEF Reindexed
<1>4. o \in ids => Reindexed(rows, seen, ids)[o]
                     = Publish(doc[o], DocOf(rows[o], o, rows, seen))
  BY DEF Reindexed
<1>5. o \notin ids => Reindexed(rows, seen, ids)[o] = doc[o]
  BY DEF Reindexed
<1>6. /\ Hidden(rows[o]) => Publish(doc[o], DocOf(rows[o], o, rows, seen)) \in {"none", "gone"}
      /\ rows[o].review = "pending"
            => Publish(doc[o], DocOf(rows[o], o, rows, seen)) # "indexable"
  BY <1>1, PublishedDoc
<1> QED BY <1>3, <1>4, <1>5, <1>6

\* Requests another transaction does not overtake keep what they hold.
LEMMA OvertakenRequests ==
    ASSUME TypeOK, NEW ids, NEW rows, \A o \in Offers \ ids : rows[o] = offer[o],
           RequestsNamed, NEW p \in Slots
    PROVE  /\ Overtaken(ids) \in [Slots -> Request]
           /\ Overtaken(ids)[p].op = req[p].op
           /\ Overtaken(ids)[p].id = req[p].id
           /\ Overtaken(ids)[p].to = req[p].to
           /\ ~Overtaken(ids)[p].stale
                => /\ ~req[p].stale
                   /\ Overtaken(ids)[p] = req[p]
                   /\ req[p].id \in Offers => rows[req[p].id] = offer[req[p].id]
                   /\ req[p].to \in Offers => rows[req[p].to] = offer[req[p].to]
<1>1. \A x \in Slots : req[x] \in Request
  BY DEF TypeOK
<1>2. \A x \in Slots : [req[x] EXCEPT !.stale = TRUE] \in Request
  BY <1>1 DEF Request
<1>3. Overtaken(ids) \in [Slots -> Request]
  BY <1>1, <1>2 DEF Overtaken
<1>4. CASE Reads(req[p]) \cap ids = {}
  <2>1. Overtaken(ids)[p] = req[p]
    BY <1>4 DEF Overtaken
  <2>2. req[p].id \notin ids /\ req[p].to \notin ids
    BY <1>4 DEF Reads
  <2> QED BY <1>3, <2>1, <2>2
<1>5. CASE Reads(req[p]) \cap ids # {}
  <2>1. Overtaken(ids)[p] = [req[p] EXCEPT !.stale = TRUE]
    BY <1>5 DEF Overtaken
  <2> QED BY <1>1, <1>3, <2>1 DEF Request
<1> QED BY <1>4, <1>5
-----------------------------------------------------------------------------
(* Each transaction has the effect above.                                  *)

\* A handler on a canonical offer writes columns other than the pointer.
LEMMA WriteOne ==
    ASSUME TypeOK, NEW p \in Slots, NEW id \in Offers, NEW row \in Row,
           NEW seen \in SUBSET Offers,
           row.merged = offer[id].merged,
           Held(req[p]) => offer[id].merged = NoOffer,
           Held(req[p]) /\ offer[id].status = "disabled" /\ row.status # "disabled"
               => req[p].op = "enable" /\ req[p].id = id
    PROVE  Effect(p, [offer EXCEPT ![id] = row], seen, {id})
<1> DEFINE rows == [offer EXCEPT ![id] = row]
<1>1. rows \in [Offers -> Row] /\ offer \in [Offers -> Row]
  BY DEF TypeOK
<1>2. \A o \in Offers : o # id => rows[o] = offer[o]
  BY <1>1
<1>3. rows[id] = row
  BY <1>1
<1>4. ASSUME Held(req[p]) PROVE TakedownsKept(rows, p)
  BY <1>2, <1>3, <1>4 DEF TakedownsKept
<1>5. ASSUME Held(req[p]) PROVE MergedRowsKept(rows)
  BY <1>2, <1>3, <1>5 DEF MergedRowsKept, SameColumns, Existing
<1>6. Pointers(rows) = Pointers(offer)
  BY <1>2, <1>3 DEF Pointers
<1> QED BY <1>1, <1>2, <1>4, <1>5, <1>6 DEF Effect

\* The row of an offer being created.
LEMMA WriteNew ==
    ASSUME TypeOK, NEW p \in Slots, NEW id \in Offers \ Existing(offer), NEW row \in Row,
           NEW seen \in SUBSET Offers, NEW ids, id \in ids, row.merged = NoOffer
    PROVE  Effect(p, [offer EXCEPT ![id] = row], seen, ids)
<1> DEFINE rows == [offer EXCEPT ![id] = row]
<1>1. rows \in [Offers -> Row] /\ offer \in [Offers -> Row] /\ id \in Offers
  BY DEF TypeOK
<1>2. rows[id] = row /\ \A o \in Offers : o # id => rows[o] = offer[o]
  BY <1>1
<1>3. offer[id].status = "absent"
  BY DEF Existing
<1>4. TakedownsKept(rows, p) /\ MergedRowsKept(rows)
  BY <1>2, <1>3 DEF TakedownsKept, MergedRowsKept, SameColumns, Existing
<1>5. ASSUME Acyclic(Pointers(offer)) PROVE Acyclic(Pointers(rows))
  <2>1. Pointers(rows) = [Pointers(offer) EXCEPT ![id] = NoOffer]
    BY <1>1, <1>2 DEF Pointers
  <2>2. id \in DOMAIN Pointers(offer) /\ NoOffer \notin DOMAIN Pointers(offer)
    BY <1>1, ConstantsAssumption DEF Pointers
  <2> QED BY <1>5, <2>1, <2>2, UnmergeKeepsAcyclic
<1> QED BY <1>1, <1>2, <1>4, <1>5 DEF Effect

\* The transactions, one by one.
LEMMA CreateEffect ==
    ASSUME TypeOK, NEW p \in Slots, CreateOffer(p)
    PROVE  \E rows, seen, ids : Commit(p, rows, seen, ids) /\ Effect(p, rows, seen, ids)
<1> DEFINE New(d, r) == [status |-> "active", merged |-> NoOffer,
                         review |-> r, due |-> d, link |-> req[p].link]
           Reviews   == IF req[p].op = "submit" THEN {"not_required", "pending"}
                                                ELSE {"pending", "auto_approved"}
           Seen(o)   == {fresh \cup {o}} \cup IF req[p].op = "submit" THEN {} ELSE {fresh}
<1>0. PICK o \in Offers \ Existing(offer) :
         \E d \in {"none", "future"}, r \in Reviews, seen \in Seen(o) :
            Commit(p, [offer EXCEPT ![o] = New(d, r)], seen, {o})
  BY DEF CreateOffer
<1>1. PICK d \in {"none", "future"}, r \in Reviews, seen \in Seen(o) :
         Commit(p, [offer EXCEPT ![o] = New(d, r)], seen, {o})
  BY <1>0
<1>2. PICK row : row = New(d, r)
  OBVIOUS
<1>3. row \in Row /\ row.merged = NoOffer
  BY <1>2 DEF Row, Status, Review, Due, TypeOK, Request
<1>4. Effect(p, [offer EXCEPT ![o] = row], seen, {o})
  BY <1>3, WriteNew DEF TypeOK
<1> QED BY <1>1, <1>2, <1>4

\* A request that writes an offer it named holds that offer's id.
LEMMA RootOpNames ==
    ASSUME TypeOK, RequestsNamed, NEW p \in Slots, req[p].op \in RootOp
    PROVE  /\ req[p].id \in Offers
           /\ offer[req[p].id] \in Row
           /\ offer \in [Offers -> Row] /\ fresh \in SUBSET Offers
           /\ Held(req[p]) => offer[req[p].id].merged = NoOffer
BY DEF RequestsNamed, Named, TypeOK, Held

LEMMA UpdateEffect ==
    ASSUME TypeOK, RequestsNamed, NEW p \in Slots, UpdateOffer(p)
    PROVE  \E rows, seen, ids : Commit(p, rows, seen, ids) /\ Effect(p, rows, seen, ids)
<1> DEFINE id == req[p].id
<1>1. /\ id \in Offers /\ offer[id] \in Row /\ fresh \in SUBSET Offers
      /\ offer \in [Offers -> Row]
      /\ Held(req[p]) => offer[id].merged = NoOffer
  BY RootOpNames DEF RootOp, UpdateOffer
<1>2. ASSUME NEW row \in Row, row.merged = offer[id].merged, row.status = offer[id].status
      PROVE  Effect(p, [offer EXCEPT ![id] = row], fresh, {id})
  BY <1>1, <1>2, WriteOne
<1>3. CASE Commit(p, offer, fresh, {id})
  <2>1. offer = [offer EXCEPT ![id] = offer[id]]
    BY <1>1
  <2> QED BY <1>1, <1>2, <1>3, <2>1
<1>4. ASSUME NEW d \in {"none", "future"}, Commit(p, [offer EXCEPT ![id].due = d], fresh, {id})
      PROVE  \E rows, seen, ids : Commit(p, rows, seen, ids) /\ Effect(p, rows, seen, ids)
  <2>1. PICK row : row = [offer[id] EXCEPT !.due = d]
    OBVIOUS
  <2>2. row \in Row /\ row.merged = offer[id].merged /\ row.status = offer[id].status
    BY <1>1, <2>1 DEF Row, Due
  <2>3. [offer EXCEPT ![id].due = d] = [offer EXCEPT ![id] = row]
    BY <1>1, <2>1
  <2> QED BY <1>2, <1>4, <2>2, <2>3
<1>5. CASE Commit(p, [offer EXCEPT ![id].review = "pending"], fresh, {id})
  <2>1. PICK row : row = [offer[id] EXCEPT !.review = "pending"]
    OBVIOUS
  <2>2. row \in Row /\ row.merged = offer[id].merged /\ row.status = offer[id].status
    BY <1>1, <2>1 DEF Row, Review
  <2>3. [offer EXCEPT ![id].review = "pending"] = [offer EXCEPT ![id] = row]
    BY <1>1, <2>1
  <2> QED BY <1>2, <1>5, <2>2, <2>3
<1> QED BY <1>3, <1>4, <1>5 DEF UpdateOffer

LEMMA ObserveEffect ==
    ASSUME TypeOK, RequestsNamed, NEW p \in Slots, ObserveOffer(p)
    PROVE  \E rows, seen, ids : Commit(p, rows, seen, ids) /\ Effect(p, rows, seen, ids)
<1> DEFINE id == req[p].id
<1>1. /\ id \in Offers /\ offer[id] \in Row /\ fresh \cup {id} \in SUBSET Offers
      /\ offer \in [Offers -> Row]
      /\ Held(req[p]) => offer[id].merged = NoOffer
  BY RootOpNames DEF RootOp, ObserveOffer
<1>2. offer = [offer EXCEPT ![id] = offer[id]]
  BY <1>1
<1>3. \A seen \in {fresh, fresh \cup {id}} : Effect(p, [offer EXCEPT ![id] = offer[id]], seen, {id})
  BY <1>1, WriteOne
<1> QED BY <1>2, <1>3 DEF ObserveOffer

LEMMA ExpireEffect ==
    ASSUME TypeOK, RequestsNamed, NEW p \in Slots, ExpireOffer(p)
    PROVE  \E rows, seen, ids : Commit(p, rows, seen, ids) /\ Effect(p, rows, seen, ids)
<1> DEFINE id == req[p].id
<1>1. /\ id \in Offers /\ offer[id] \in Row /\ fresh \in SUBSET Offers
      /\ offer \in [Offers -> Row]
      /\ Held(req[p]) => offer[id].merged = NoOffer
  BY RootOpNames DEF RootOp, ExpireOffer
<1>2. Held(req[p]) => offer[id].status = "active"
  BY DEF Held, ExpireOffer
<1>3. PICK row : row = [offer[id] EXCEPT !.status = "expired"]
  OBVIOUS
<1>4. row \in Row /\ row.merged = offer[id].merged
  BY <1>1, <1>3 DEF Row, Status
<1>5. Effect(p, [offer EXCEPT ![id] = row], fresh, {id})
  BY <1>1, <1>2, <1>4, WriteOne
<1>6. [offer EXCEPT ![id].status = "expired"] = [offer EXCEPT ![id] = row]
  BY <1>1, <1>3
<1> QED BY <1>5, <1>6 DEF ExpireOffer

LEMMA DisableEffect ==
    ASSUME TypeOK, RequestsNamed, NEW p \in Slots, DisableOffer(p)
    PROVE  \E rows, seen, ids : Commit(p, rows, seen, ids) /\ Effect(p, rows, seen, ids)
<1> DEFINE id == req[p].id
<1>1. /\ id \in Offers /\ offer[id] \in Row /\ fresh \in SUBSET Offers
      /\ offer \in [Offers -> Row]
      /\ Held(req[p]) => offer[id].merged = NoOffer
  BY RootOpNames DEF RootOp, DisableOffer
<1>2. PICK row : row = [offer[id] EXCEPT !.status = "disabled"]
  OBVIOUS
<1>3. row \in Row /\ row.merged = offer[id].merged /\ row.status = "disabled"
  BY <1>1, <1>2 DEF Row, Status
<1>4. Effect(p, [offer EXCEPT ![id] = row], fresh, {id})
  BY <1>1, <1>3, WriteOne
<1>5. [offer EXCEPT ![id].status = "disabled"] = [offer EXCEPT ![id] = row]
  BY <1>1, <1>2
<1> QED BY <1>4, <1>5 DEF DisableOffer

LEMMA EnableEffect ==
    ASSUME TypeOK, RequestsNamed, NEW p \in Slots, EnableOffer(p)
    PROVE  \E rows, seen, ids : Commit(p, rows, seen, ids) /\ Effect(p, rows, seen, ids)
<1> DEFINE id == req[p].id
           d  == KeptDue(req[p].due, offer[id].due)
<1>1. /\ id \in Offers /\ offer[id] \in Row /\ fresh \in SUBSET Offers
      /\ offer \in [Offers -> Row]
      /\ Held(req[p]) => offer[id].merged = NoOffer
  BY RootOpNames DEF RootOp, EnableOffer
<1>2. PICK row : row = [offer[id] EXCEPT !.status = "active", !.due = d]
  OBVIOUS
<1>3. row \in Row /\ row.merged = offer[id].merged
  BY <1>1, <1>2 DEF Row, Status, Due, KeptDue
<1>4. Effect(p, [offer EXCEPT ![id] = row], fresh, {id})
  BY <1>1, <1>3, WriteOne DEF EnableOffer
<1>5. [offer EXCEPT ![id].status = "active", ![id].due = d] = [offer EXCEPT ![id] = row]
  BY <1>1, <1>2
<1> QED BY <1>4, <1>5 DEF EnableOffer

LEMMA ReviewEffect ==
    ASSUME TypeOK, RequestsNamed, NEW p \in Slots, ReviewOffer(p)
    PROVE  \E rows, seen, ids : Commit(p, rows, seen, ids) /\ Effect(p, rows, seen, ids)
<1> DEFINE id == req[p].id
<1>1. /\ id \in Offers /\ offer[id] \in Row /\ fresh \in SUBSET Offers
      /\ offer \in [Offers -> Row]
      /\ Held(req[p]) => offer[id].merged = NoOffer
  BY RootOpNames DEF RootOp, ReviewOffer
<1>2. PICK row : row = [offer[id] EXCEPT !.review = "reviewed"]
  OBVIOUS
<1>3. row \in Row /\ row.merged = offer[id].merged /\ row.status = offer[id].status
  BY <1>1, <1>2 DEF Row, Review
<1>4. Effect(p, [offer EXCEPT ![id] = row], fresh, {id})
  BY <1>1, <1>3, WriteOne
<1>5. [offer EXCEPT ![id].review = "reviewed"] = [offer EXCEPT ![id] = row]
  BY <1>1, <1>2
<1> QED BY <1>4, <1>5 DEF ReviewOffer

\* Moving one pointer leaves every other column of every row as it was.
LEMMA MovePointer ==
    ASSUME TypeOK, NEW p \in Slots, NEW dup \in Offers, NEW to \in Offers \cup {NoOffer}
    PROVE  LET rows == [offer EXCEPT ![dup].merged = to]
           IN  /\ rows \in [Offers -> Row]
               /\ \A o \in Offers : o # dup => rows[o] = offer[o]
               /\ TakedownsKept(rows, p) /\ MergedRowsKept(rows)
               /\ Pointers(rows) = [Pointers(offer) EXCEPT ![dup] = to]
<1>1. offer \in [Offers -> Row] /\ offer[dup] \in Row
  BY DEF TypeOK
<1>2. PICK row : row = [offer[dup] EXCEPT !.merged = to]
  OBVIOUS
<1>3. row \in Row /\ row.merged = to /\ SameColumns(row, offer[dup])
  BY <1>1, <1>2 DEF Row, SameColumns
<1> DEFINE rows == [offer EXCEPT ![dup] = row]
<1>4. [offer EXCEPT ![dup].merged = to] = rows
  BY <1>1, <1>2
<1>5. rows \in [Offers -> Row] /\ rows[dup] = row /\ \A o \in Offers : o # dup => rows[o] = offer[o]
  BY <1>1, <1>3
<1>6. TakedownsKept(rows, p) /\ MergedRowsKept(rows)
  BY <1>3, <1>5 DEF TakedownsKept, MergedRowsKept, SameColumns, Existing
<1>7. Pointers(rows) = [Pointers(offer) EXCEPT ![dup] = to]
  BY <1>3, <1>5 DEF Pointers
<1> QED BY <1>4, <1>5, <1>6, <1>7

LEMMA MergeEffect ==
    ASSUME TypeOK, RequestsNamed, NEW p \in Slots, MergeOffer(p)
    PROVE  \E rows, seen, ids : Commit(p, rows, seen, ids) /\ Effect(p, rows, seen, ids)
<1> DEFINE dup  == req[p].id
           to   == req[p].to
           rows == [offer EXCEPT ![dup].merged = to]
<1>1. dup \in Offers /\ to \in Offers /\ fresh \in SUBSET Offers
  BY DEF RequestsNamed, Named, TypeOK, MergeOffer
<1>2. /\ rows \in [Offers -> Row]
      /\ \A o \in Offers : o # dup => rows[o] = offer[o]
      /\ TakedownsKept(rows, p) /\ MergedRowsKept(rows)
      /\ Pointers(rows) = [Pointers(offer) EXCEPT ![dup] = to]
  BY <1>1, MovePointer
<1>3. ASSUME Held(req[p]), Acyclic(Pointers(offer)) PROVE Acyclic(Pointers(rows))
  <2>1. to # dup /\ IsRoot(Pointers(offer), to)
    BY <1>1, <1>3, ConstantsAssumption DEF Held, MergeOffer, IsRoot, Pointers
  <2>2. dup \in DOMAIN Pointers(offer) /\ to \in DOMAIN Pointers(offer)
    BY <1>1 DEF Pointers
  <2> QED BY <1>2, <1>3, <2>1, <2>2, MergeKeepsAcyclic
<1>4. Effect(p, rows, fresh, {dup, to})
  BY <1>1, <1>2, <1>3 DEF Effect
<1> QED BY <1>4 DEF MergeOffer

LEMMA UnmergeEffect ==
    ASSUME TypeOK, RequestsNamed, NEW p \in Slots, UnmergeOffer(p)
    PROVE  \E rows, seen, ids : Commit(p, rows, seen, ids) /\ Effect(p, rows, seen, ids)
<1> DEFINE dup  == req[p].id
           to   == req[p].to
           rows == [offer EXCEPT ![dup].merged = NoOffer]
<1>1. dup \in Offers /\ to \in Offers /\ fresh \in SUBSET Offers
  BY DEF RequestsNamed, Named, TypeOK, UnmergeOffer
<1>2. /\ rows \in [Offers -> Row]
      /\ \A o \in Offers : o # dup => rows[o] = offer[o]
      /\ TakedownsKept(rows, p) /\ MergedRowsKept(rows)
      /\ Pointers(rows) = [Pointers(offer) EXCEPT ![dup] = NoOffer]
  BY <1>1, MovePointer
<1>3. ASSUME Acyclic(Pointers(offer)) PROVE Acyclic(Pointers(rows))
  <2>1. dup \in DOMAIN Pointers(offer) /\ NoOffer \notin DOMAIN Pointers(offer)
    BY <1>1, ConstantsAssumption DEF Pointers
  <2> QED BY <1>2, <1>3, <2>1, UnmergeKeepsAcyclic
<1>4. Effect(p, rows, fresh, {dup, to})
  BY <1>1, <1>2, <1>3 DEF Effect
<1> QED BY <1>4 DEF UnmergeOffer

\* Finishing a request writes nothing or has its effect.
LEMMA FinishEffect ==
    ASSUME TypeOK, RequestsNamed, NEW p \in Slots, Finish(p)
    PROVE  \/ RollBack(p)
           \/ \E rows, seen, ids : Commit(p, rows, seen, ids) /\ Effect(p, rows, seen, ids)
BY CreateEffect, UpdateEffect, ObserveEffect, ExpireEffect, DisableEffect, EnableEffect,
   ReviewEffect, MergeEffect, UnmergeEffect DEF Finish

-----------------------------------------------------------------------------
(* Requests, their checks and their transactions preserve the invariant.   *)

LEMMA CommitPreserves ==
    ASSUME IInv, NEW p \in Slots, NEW rows, NEW seen, NEW ids,
           Commit(p, rows, seen, ids), Effect(p, rows, seen, ids)
    PROVE  IInv'
<1>1. TypeOK /\ RequestsNamed /\ rows \in [Offers -> Row] /\ seen \in SUBSET Offers
      /\ \A o \in Offers \ ids : rows[o] = offer[o]
  BY DEF IInv, Effect
<1>2. doc' = Reindexed(rows, seen, ids)
  BY DEF Commit
<1>3. /\ doc' \in [Offers -> Doc]
      /\ \A o \in Offers :
            /\ o \notin ids => doc'[o] = doc[o]
            /\ o \in ids /\ Hidden(rows[o]) => doc'[o] \in {"none", "gone"}
            /\ o \in ids /\ rows[o].review = "pending" => doc'[o] # "indexable"
  <2>1. CASE Offers = {}
    BY <1>2, <2>1 DEF Reindexed
  <2>2. CASE Offers # {}
    BY <1>1, <1>2, <2>2, ReindexedDoc
  <2> QED BY <2>1, <2>2
<1>4. Idle \in Request
  BY DEF Idle, Request, Due
<1>5. Overtaken(ids) \in [Slots -> Request]
  BY <1>1, OvertakenRequests
<1>6. TypeOK'
  BY <1>1, <1>3, <1>4, <1>5 DEF TypeOK, Commit
<1>7. req'[p] = Idle /\ \A q \in Slots : q # p => req'[q] = Overtaken(ids)[q]
  BY <1>5 DEF Commit
<1>8. RequestsNamed'
  <2>1. Named(req'[p])
    BY <1>7 DEF Named, Idle, RootOp
  <2>2. ASSUME NEW q \in Slots, q # p PROVE Named(req'[q])
    <3>1. Named(req[q])
      BY <1>1 DEF RequestsNamed
    <3>2. req'[q].op = req[q].op /\ req'[q].id = req[q].id /\ req'[q].to = req[q].to
      BY <1>1, <1>7, <2>2, OvertakenRequests
    <3> QED BY <3>1, <3>2 DEF Named
  <2> QED BY <2>1, <2>2 DEF RequestsNamed
<1>9. RequestsHold'
  <2> SUFFICES ASSUME ~raced', NEW q \in Slots, ~req'[q].stale PROVE Held(req[q])'
    BY DEF RequestsHold
  <2>0. offer' = rows
    BY DEF Commit
  <2>1. CASE q = p
    BY <1>7, <2>1 DEF Held, Idle, RootOp
  <2>2. CASE q # p
    <3>1. ~Overtaken(ids)[q].stale
      BY <1>7, <2>2
    <3>2. /\ ~req[q].stale /\ req'[q] = req[q]
          /\ req[q].id \in Offers => rows[req[q].id] = offer[req[q].id]
          /\ req[q].to \in Offers => rows[req[q].to] = offer[req[q].to]
      BY <1>1, <1>7, <2>2, <3>1, OvertakenRequests
    <3>3. ~raced
      BY DEF Commit
    <3>4. Held(req[q]) /\ Named(req[q])
      BY <1>1, <3>2, <3>3 DEF IInv, RequestsHold, RequestsNamed
    <3> QED BY <2>0, <3>2, <3>4 DEF Held, Named, RootOp
  <2> QED BY <2>1, <2>2
<1>10. CheckedMergesStayAcyclic'
  <2> SUFFICES ASSUME ~raced' PROVE Acyclic(Pointers(rows))
    BY DEF CheckedMergesStayAcyclic, MergesStayAcyclic, Commit, Pointers
  <2>1. ~raced /\ ~req[p].stale
    BY DEF Commit
  <2>2. Held(req[p]) /\ Acyclic(Pointers(offer))
    BY <2>1 DEF IInv, RequestsHold, CheckedMergesStayAcyclic, MergesStayAcyclic
  <2> QED BY <2>2 DEF Effect
<1>11. CheckedHiddenIsGone'
  <2> SUFFICES ASSUME ~raced', NEW o \in Offers, Hidden(rows[o]) PROVE doc'[o] \in {"none", "gone"}
    BY DEF CheckedHiddenIsGone, HiddenIsGone, Commit
  <2>1. CASE o \in ids
    BY <1>3, <2>1
  <2>2. CASE o \notin ids
    BY <1>1, <1>3, <2>2 DEF IInv, CheckedHiddenIsGone, HiddenIsGone, Commit
  <2> QED BY <2>1, <2>2
<1>12. CheckedPendingIsNoindex'
  <2> SUFFICES ASSUME ~raced', NEW o \in Offers, rows[o].review = "pending"
               PROVE  doc'[o] # "indexable"
    BY DEF CheckedPendingIsNoindex, Commit
  <2>1. CASE o \in ids
    BY <1>3, <2>1
  <2>2. CASE o \notin ids
    BY <1>1, <1>3, <2>2 DEF IInv, CheckedPendingIsNoindex, Commit
  <2> QED BY <2>1, <2>2
<1> QED BY <1>6, <1>8, <1>9, <1>10, <1>11, <1>12 DEF IInv

\* Steps that touch neither the rows, the documents nor the history.
LEMMA QuietStep ==
    ASSUME IInv, UNCHANGED <<offer, doc, raced>>, TypeOK', RequestsNamed', RequestsHold'
    PROVE  IInv'
<1>1. CheckedMergesStayAcyclic'
  BY DEF IInv, CheckedMergesStayAcyclic, MergesStayAcyclic, Pointers
<1>2. CheckedHiddenIsGone'
  BY DEF IInv, CheckedHiddenIsGone, HiddenIsGone
<1>3. CheckedPendingIsNoindex'
  BY DEF IInv, CheckedPendingIsNoindex
<1> QED BY <1>1, <1>2, <1>3 DEF IInv

\* Steps that leave the requests alone too.
LEMMA QuietWorker ==
    ASSUME IInv, UNCHANGED <<offer, doc, req, raced>>, TypeOK'
    PROVE  IInv'
<1>1. RequestsNamed'
  BY DEF IInv, RequestsNamed
<1>2. RequestsHold'
  BY DEF IInv, RequestsHold, Held
<1> QED BY <1>1, <1>2, QuietStep

\* A request enters with what its checks established.
LEMMA StartPreserves ==
    ASSUME IInv, NEW p \in Slots, NEW q \in Request, Named(q), q.stale = FALSE,
           Acyclic(Pointers(offer)) => Held(q), Start(p, q)
    PROVE  IInv'
<1>1. TypeOK /\ RequestsNamed /\ RequestsHold
  BY DEF IInv
<1>2. TypeOK'
  BY <1>1 DEF TypeOK, Start
<1>3. req'[p] = q /\ \A x \in Slots : x # p => req'[x] = req[x]
  BY <1>1 DEF Start, TypeOK
<1>4. RequestsNamed'
  BY <1>1, <1>3 DEF RequestsNamed
<1>5. RequestsHold'
  <2> SUFFICES ASSUME ~raced, NEW x \in Slots, ~req'[x].stale PROVE Held(req[x])'
    BY DEF RequestsHold, Start
  <2>1. Held(q)
    BY DEF IInv, CheckedMergesStayAcyclic, MergesStayAcyclic
  <2>2. x # p => Held(req[x])
    BY <1>1, <1>3 DEF RequestsHold
  <2> QED BY <1>3, <2>1, <2>2 DEF Held, Start
<1> QED BY <1>2, <1>4, <1>5, QuietStep DEF Start

LEMMA StartCreatePreserves ==
    ASSUME IInv, NEW p \in Slots, StartCreate(p)
    PROVE  IInv'
<1>1. PICK op \in {"submit", "import"}, l \in Links :
         Start(p, [Idle EXCEPT !.op = op, !.link = l])
  BY DEF StartCreate
<1>2. PICK q : q = [Idle EXCEPT !.op = op, !.link = l]
  OBVIOUS
<1>3. q \in Request /\ q.op = op /\ q.stale = FALSE
  BY <1>2 DEF Idle, Request, Op, Due
<1>4. Named(q) /\ Held(q)
  BY <1>3 DEF Named, Held, RootOp
<1> QED BY <1>1, <1>2, <1>3, <1>4, StartPreserves

LEMMA StartOnRootPreserves ==
    ASSUME IInv, NEW p \in Slots, StartOnRoot(p)
    PROVE  IInv'
<1>0. PICK o \in Existing(offer) : \E r \in Roots(Pointers(offer), o) :
         \E op \in Op \ {"submit", "import", "merge", "unmerge"} :
           Start(p, [Idle EXCEPT !.op = op, !.id = r,
                       !.due = IF op = "enable" THEN offer[r].due ELSE "none"])
  BY DEF StartOnRoot
<1>1. PICK r \in Roots(Pointers(offer), o),
           op \in Op \ {"submit", "import", "merge", "unmerge"} :
         Start(p, [Idle EXCEPT !.op = op, !.id = r,
                     !.due = IF op = "enable" THEN offer[r].due ELSE "none"])
  BY <1>0
<1> DEFINE due == IF op = "enable" THEN offer[r].due ELSE "none"
<1>2. o \in Offers /\ r \in Offers /\ offer \in [Offers -> Row]
  BY RootsAreOffers DEF Existing, IInv, TypeOK
<1>3. due \in Due
  BY <1>2 DEF Row, Due
<1>4. PICK q : q = [Idle EXCEPT !.op = op, !.id = r, !.due = due]
  OBVIOUS
<1>5. q \in Request /\ q.op = op /\ q.id = r /\ q.stale = FALSE
  BY <1>2, <1>3, <1>4 DEF Idle, Request
<1>6. Guard(q)
  BY <1>1, <1>4 DEF Start
<1>7. Named(q)
  BY <1>2, <1>5 DEF Named
<1>8. ASSUME Acyclic(Pointers(offer)) PROVE Held(q)
  <2>1. offer[r].merged = NoOffer
    BY <1>2, <1>8, RootHasNoPointer
  <2>2. op = "expire" => offer[r].status = "active"
    BY <1>5, <1>6 DEF Guard, MayExpire
  <2> QED BY <1>5, <2>1, <2>2 DEF Held
<1> QED BY <1>1, <1>4, <1>5, <1>7, <1>8, StartPreserves

LEMMA StartMergePreserves ==
    ASSUME IInv, NEW p \in Slots, StartMerge(p)
    PROVE  IInv'
<1>0. PICK d \in Existing(offer), t \in Existing(offer) : \E r \in Roots(Pointers(offer), t) :
         Start(p, [Idle EXCEPT !.op = "merge", !.id = d, !.to = r])
  BY DEF StartMerge
<1>1. PICK r \in Roots(Pointers(offer), t) :
         Start(p, [Idle EXCEPT !.op = "merge", !.id = d, !.to = r])
  BY <1>0
<1>2. d \in Offers /\ t \in Offers /\ r \in Offers /\ offer \in [Offers -> Row]
  BY RootsAreOffers DEF Existing, IInv, TypeOK
<1>3. PICK q : q = [Idle EXCEPT !.op = "merge", !.id = d, !.to = r]
  OBVIOUS
<1>4. q \in Request /\ q.op = "merge" /\ q.id = d /\ q.to = r /\ q.stale = FALSE
  BY <1>2, <1>3 DEF Idle, Request, Op, Due
<1>5. Named(q)
  BY <1>2, <1>4 DEF Named
<1>6. r # d
  <2>1. Guard(q)
    BY <1>1, <1>3 DEF Start
  <2>2. r \notin Group(Pointers(offer), d)
    BY <1>4, <2>1 DEF Guard, MayMerge
  <2>3. d \in DOMAIN Pointers(offer)
    BY <1>2 DEF Pointers
  <2> QED BY <2>2, <2>3, ChainSelf DEF Group
<1>7. ASSUME Acyclic(Pointers(offer)) PROVE Held(q)
  BY <1>2, <1>4, <1>6, <1>7, RootHasNoPointer DEF Held, RootOp
<1> QED BY <1>1, <1>3, <1>4, <1>5, <1>7, StartPreserves

LEMMA StartUnmergePreserves ==
    ASSUME IInv, NEW p \in Slots, StartUnmerge(p)
    PROVE  IInv'
<1>0. PICK d \in Existing(offer) : \E r \in Roots(Pointers(offer), d) :
         Start(p, [Idle EXCEPT !.op = "unmerge", !.id = d, !.to = r])
  BY DEF StartUnmerge
<1>1. PICK r \in Roots(Pointers(offer), d) :
         Start(p, [Idle EXCEPT !.op = "unmerge", !.id = d, !.to = r])
  BY <1>0
<1>2. d \in Offers /\ r \in Offers
  BY RootsAreOffers DEF Existing
<1>3. PICK q : q = [Idle EXCEPT !.op = "unmerge", !.id = d, !.to = r]
  OBVIOUS
<1>4. q \in Request /\ q.op = "unmerge" /\ q.id = d /\ q.to = r /\ q.stale = FALSE
  BY <1>2, <1>3 DEF Idle, Request, Op, Due
<1>5. Named(q) /\ Held(q)
  BY <1>2, <1>4 DEF Named, Held, RootOp
<1> QED BY <1>1, <1>3, <1>4, <1>5, StartPreserves

LEMMA FinishPreserves ==
    ASSUME IInv, NEW p \in Slots, Finish(p)
    PROVE  IInv'
<1>1. TypeOK /\ RequestsNamed /\ RequestsHold
  BY DEF IInv
<1>2. CASE RollBack(p)
  <2>1. TypeOK'
    <3>1. Idle \in Request
      BY DEF Idle, Request, Due
    <3> QED BY <1>1, <1>2, <3>1 DEF TypeOK, RollBack
  <2>2. req'[p] = Idle /\ \A x \in Slots : x # p => req'[x] = req[x]
    BY <1>1, <1>2 DEF RollBack, TypeOK
  <2>3. RequestsNamed'
    BY <1>1, <2>2 DEF RequestsNamed, Named, Idle, RootOp
  <2>4. RequestsHold'
    <3> SUFFICES ASSUME ~raced, NEW x \in Slots, ~req'[x].stale PROVE Held(req[x])'
      BY <1>2 DEF RequestsHold, RollBack
    <3>1. x # p => Held(req[x])
      BY <1>1, <2>2 DEF RequestsHold
    <3> QED BY <1>2, <2>2, <3>1 DEF Held, Idle, RootOp, RollBack
  <2> QED BY <1>2, <2>1, <2>3, <2>4, QuietStep DEF RollBack
<1>3. ASSUME NEW rows, NEW seen, NEW ids, Commit(p, rows, seen, ids), Effect(p, rows, seen, ids)
      PROVE  IInv'
  BY <1>3, CommitPreserves
<1> QED BY <1>1, <1>2, <1>3, FinishEffect

-----------------------------------------------------------------------------
(* The worker and the clock preserve it too.                               *)

LEMMA WorkerTypes ==
    /\ NoRows \in [Offers -> Row]
    /\ FreshWorker \in WorkerState
<1>1. Absent \in Row
  BY DEF Absent, Row, Status, Review, Due
<1>2. NoRows \in [Offers -> Row]
  BY <1>1 DEF NoRows
<1> QED BY <1>2 DEF FreshWorker, WorkerState

\* Expiring due offers changes only the status of canonical active offers,
\* unless an offer read as due has changed since.
LEMMA ExpireDuePreserves ==
    ASSUME IInv, ExpireDue
    PROVE  IInv'
<1> DEFINE rows == [o \in Offers |-> IF o \in worker.due
                                     THEN [offer[o] EXCEPT !.status = "expired"] ELSE offer[o]]
<1>1. TypeOK /\ RequestsNamed /\ RequestsHold /\ worker.due \in SUBSET Offers
      /\ offer \in [Offers -> Row]
  BY DEF IInv, TypeOK, WorkerState
<1>2. ASSUME NEW o \in Offers
      PROVE  rows[o] \in Row /\ rows[o].merged = offer[o].merged
             /\ rows[o].review = offer[o].review
  <2>1. offer[o] \in Row
    BY <1>1
  <2> QED BY <2>1 DEF Row, Status
<1>3. rows \in [Offers -> Row] /\ \A o \in Offers \ worker.due : rows[o] = offer[o]
  BY <1>2
<1>4. offer' = rows /\ doc' = Reindexed(rows, fresh, worker.due)
  BY DEF ExpireDue
<1>5. /\ doc' \in [Offers -> Doc]
      /\ \A o \in Offers :
            /\ o \notin worker.due => doc'[o] = doc[o]
            /\ o \in worker.due /\ Hidden(rows[o]) => doc'[o] \in {"none", "gone"}
            /\ o \in worker.due /\ rows[o].review = "pending" => doc'[o] # "indexable"
  <2>1. CASE Offers = {}
    BY <1>4, <2>1 DEF Reindexed
  <2>2. CASE Offers # {}
    <3> HIDE DEF rows
    <3>1. ASSUME NEW o \in Offers
          PROVE  /\ Reindexed(rows, fresh, worker.due) \in [Offers -> Doc]
                 /\ o \notin worker.due => doc'[o] = doc[o]
                 /\ o \in worker.due /\ Hidden(rows[o]) => doc'[o] \in {"none", "gone"}
                 /\ o \in worker.due /\ rows[o].review = "pending" => doc'[o] # "indexable"
      BY <1>1, <1>3, <1>4, ReindexedDoc
    <3> QED BY <1>4, <2>2, <3>1
  <2> QED BY <2>1, <2>2
<1>6. \A p \in Slots :
         /\ Overtaken(worker.due) \in [Slots -> Request]
         /\ req'[p].op = req[p].op /\ req'[p].id = req[p].id /\ req'[p].to = req[p].to
         /\ ~req'[p].stale
               => /\ ~req[p].stale /\ req'[p] = req[p]
                  /\ req[p].id \in Offers => rows[req[p].id] = offer[req[p].id]
                  /\ req[p].to \in Offers => rows[req[p].to] = offer[req[p].to]
  <2>1. req' = Overtaken(worker.due)
    BY DEF ExpireDue
  <2> QED BY <1>1, <1>3, <2>1, OvertakenRequests
<1>7. TypeOK'
  <2>1. req' \in [Slots -> Request]
    <3>1. CASE Slots = {}
      BY <3>1 DEF ExpireDue, Overtaken
    <3>2. CASE Slots # {}
      BY <1>6, <3>2 DEF ExpireDue
    <3> QED BY <3>1, <3>2
  <2>2. worker' \in WorkerState
    <3>1. worker \in WorkerState
      BY <1>1 DEF TypeOK
    <3> QED BY <3>1 DEF ExpireDue, WorkerState
  <2>3. offer' \in [Offers -> Row]
    BY <1>3, <1>4
  <2>4. fresh' = fresh /\ ripe' = ripe /\ requests' = requests /\ faults' = faults
    BY DEF ExpireDue
  <2>5. raced' \in BOOLEAN
    BY DEF ExpireDue
  <2> QED BY <1>1, <1>5, <2>1, <2>2, <2>3, <2>4, <2>5 DEF TypeOK
<1>8. RequestsNamed'
  BY <1>1, <1>6 DEF RequestsNamed, Named
<1>9. RequestsHold'
  <2> SUFFICES ASSUME ~raced', NEW p \in Slots, ~req'[p].stale PROVE Held(req[p])'
    BY DEF RequestsHold
  <2>1. ~raced
    BY DEF ExpireDue
  <2>2. Held(req[p]) /\ Named(req[p]) /\ req'[p] = req[p]
    BY <1>1, <1>6, <2>1 DEF RequestsHold, RequestsNamed
  <2> QED BY <1>4, <1>6, <2>2 DEF Held, Named, RootOp
<1>10. CheckedMergesStayAcyclic'
  <2>1. Pointers(rows) = Pointers(offer)
    BY <1>2 DEF Pointers
  <2>2. Pointers(offer)' = Pointers(rows)
    BY <1>4 DEF Pointers
  <2> QED BY <2>1, <2>2 DEF IInv, CheckedMergesStayAcyclic, MergesStayAcyclic, ExpireDue
<1>11. CheckedHiddenIsGone'
  <2> SUFFICES ASSUME ~raced', NEW o \in Offers, Hidden(rows[o]) PROVE doc'[o] \in {"none", "gone"}
    BY <1>4 DEF CheckedHiddenIsGone, HiddenIsGone
  <2>1. CASE o \in worker.due
    BY <1>5, <2>1
  <2>2. CASE o \notin worker.due
    BY <1>3, <1>5, <2>2 DEF IInv, CheckedHiddenIsGone, HiddenIsGone, ExpireDue
  <2> QED BY <2>1, <2>2
<1>12. CheckedPendingIsNoindex'
  <2> SUFFICES ASSUME ~raced', NEW o \in Offers, rows[o].review = "pending"
               PROVE  doc'[o] # "indexable"
    BY <1>4 DEF CheckedPendingIsNoindex
  <2>1. CASE o \in worker.due
    BY <1>5, <2>1
  <2>2. CASE o \notin worker.due
    BY <1>2, <1>5, <2>2 DEF IInv, CheckedPendingIsNoindex, ExpireDue
  <2> QED BY <2>1, <2>2
<1> QED BY <1>7, <1>8, <1>9, <1>10, <1>11, <1>12 DEF IInv

\* A row indexed as it was listed gets the document its offer should have,
\* unless the offer has changed since.
LEMMA IndexListedPreserves ==
    ASSUME IInv, NEW o \in Offers, IndexListed(o)
    PROVE  IInv'
<1>1. TypeOK /\ RequestsNamed /\ RequestsHold
  BY DEF IInv
<1> DEFINE row == worker.rows[o]
<1>2. worker \in WorkerState /\ row \in Row /\ doc \in [Offers -> Doc] /\ Absent \in Row
  BY <1>1 DEF TypeOK, WorkerState, Absent, Row, Status, Review, Due
<1>3. /\ doc'[o] \in Doc
      /\ Hidden(row) => doc'[o] \in {"none", "gone"}
      /\ row.review = "pending" => doc'[o] # "indexable"
  BY <1>2, PublishedDoc DEF IndexListed
<1>4. doc' \in [Offers -> Doc] /\ \A x \in Offers : x # o => doc'[x] = doc[x]
  BY <1>2, <1>3 DEF IndexListed
<1>5. worker' \in WorkerState
  <2>1. PICK listed : listed = [worker.rows EXCEPT ![o] = Absent]
    OBVIOUS
  <2>2. listed \in [Offers -> Row]
    BY <1>2, <2>1 DEF WorkerState
  <2>3. worker' = [worker EXCEPT !.rows = listed]
    BY <1>2, <2>1 DEF IndexListed, WorkerState
  <2> QED BY <1>2, <2>2, <2>3 DEF WorkerState
<1>6. TypeOK'
  BY <1>1, <1>4, <1>5 DEF TypeOK, IndexListed
<1>7. RequestsNamed' /\ RequestsHold'
  BY <1>1 DEF RequestsNamed, RequestsHold, Held, IndexListed
<1>8. CheckedMergesStayAcyclic'
  BY DEF IInv, CheckedMergesStayAcyclic, MergesStayAcyclic, Pointers, IndexListed
<1>9. ~raced' => /\ ~raced
                 /\ Hidden(offer[o]) = Hidden(row)
                 /\ offer[o].review = row.review
  <2> SUFFICES ASSUME ~raced' PROVE ~raced /\ Hidden(offer[o]) = Hidden(row)
                                    /\ offer[o].review = row.review
    OBVIOUS
  <2>1. ~raced /\ [row EXCEPT !.due = offer[o].due] = offer[o]
    BY DEF IndexListed
  <2>2. row.status = offer[o].status /\ row.merged = offer[o].merged
        /\ row.review = offer[o].review
    BY <1>2, <2>1 DEF Row
  <2> QED BY <2>1, <2>2 DEF Hidden
<1>10. CheckedHiddenIsGone'
  BY <1>3, <1>4, <1>9 DEF IInv, CheckedHiddenIsGone, HiddenIsGone, IndexListed
<1>11. CheckedPendingIsNoindex'
  BY <1>3, <1>4, <1>9 DEF IInv, CheckedPendingIsNoindex, IndexListed
<1> QED BY <1>6, <1>7, <1>8, <1>10, <1>11 DEF IInv

\* Reading the due offers, listing rows, ending or failing a tick, and days.
LEMMA WorkerReadsPreserve ==
    ASSUME IInv, ReadDue \/ ListRows \/ EndPass \/ FailTick \/ DayPasses
    PROVE  IInv'
<1>1. TypeOK /\ worker \in WorkerState /\ offer \in [Offers -> Row] /\ Absent \in Row
  BY DEF IInv, TypeOK, Absent, Row, Status, Review, Due
<1>2. CASE ReadDue
  <2>1. worker' \in WorkerState
    BY <1>1, <1>2 DEF ReadDue, DueNow, WorkerState
  <2> QED BY <1>1, <1>2, <2>1, QuietWorker DEF ReadDue, TypeOK
<1>3. CASE ListRows
  <2> DEFINE listed == IF worker.fullDue THEN Indexable ELSE AgedInto
  <2>1. PICK rows : rows = [o \in Offers |-> IF o \in listed THEN offer[o] ELSE Absent]
    OBVIOUS
  <2>2. rows \in [Offers -> Row]
    BY <1>1, <2>1
  <2>3. worker' = [worker EXCEPT !.pc = "indexing", !.full = worker.fullDue, !.ripe = ripe,
                                 !.rows = rows]
    BY <1>3, <2>1 DEF ListRows
  <2>4. worker' \in WorkerState
    BY <1>1, <2>2, <2>3 DEF WorkerState, TypeOK
  <2> QED BY <1>1, <1>3, <2>4, QuietWorker DEF ListRows, TypeOK
<1>4. CASE EndPass
  <2>1. worker' \in WorkerState
    BY <1>1, <1>4, WorkerTypes DEF EndPass, WorkerState
  <2> QED BY <1>1, <1>4, <2>1, QuietWorker DEF EndPass, TypeOK
<1>5. CASE FailTick
  <2>1. worker' \in WorkerState
    BY <1>1, <1>5, WorkerTypes DEF FailTick, WorkerState
  <2> QED BY <1>1, <1>5, <2>1, QuietWorker DEF FailTick, TypeOK
<1>6. CASE DayPasses
  <2>1. worker' \in WorkerState
    BY <1>1, <1>6 DEF DayPasses, WorkerState
  <2> QED BY <1>1, <1>6, <2>1, QuietWorker DEF DayPasses, TypeOK
<1> QED BY <1>2, <1>3, <1>4, <1>5, <1>6

LEMMA RestartPreserves ==
    ASSUME IInv, Restart
    PROVE  IInv'
<1>1. TypeOK'
  <2>1. Idle \in Request
    BY DEF Idle, Request, Due
  <2> QED BY <2>1, WorkerTypes DEF IInv, TypeOK, Restart
<1>2. \A p \in Slots : req'[p] = Idle
  BY DEF Restart
<1>3. RequestsNamed'
  BY <1>2 DEF RequestsNamed, Named, Idle, RootOp
<1>4. RequestsHold'
  BY <1>2 DEF RequestsHold, Held, Idle, RootOp
<1> QED BY <1>1, <1>3, <1>4, QuietStep DEF Restart

\* The clock reaching a stated end changes neither pointers nor review.
LEMMA ClockPreserves ==
    ASSUME IInv, NEW o \in Offers, EndPasses(o) \/ PriceAges(o)
    PROVE  IInv'
<1>1. TypeOK /\ RequestsNamed /\ RequestsHold /\ offer \in [Offers -> Row]
  BY DEF IInv, TypeOK
<1>2. CASE PriceAges(o)
  <2>1. TypeOK'
    BY <1>1, <1>2 DEF TypeOK, PriceAges
  <2> QED BY <1>2, <2>1, QuietWorker DEF PriceAges
<1>3. CASE EndPasses(o)
  <2>1. PICK row : row = [offer[o] EXCEPT !.due = "past"]
    OBVIOUS
  <2>2. /\ row \in Row /\ row.status = offer[o].status /\ row.merged = offer[o].merged
        /\ row.review = offer[o].review
    BY <1>1, <2>1 DEF Row, Due
  <2>3. offer' = [offer EXCEPT ![o] = row]
    BY <1>1, <1>3, <2>1 DEF EndPasses
  <2>4. \A x \in Offers : /\ offer'[x] \in Row
                          /\ offer'[x].status = offer[x].status
                         /\ offer'[x].merged = offer[x].merged
                         /\ offer'[x].review = offer[x].review
    BY <1>1, <2>2, <2>3
  <2>5. offer' \in [Offers -> Row]
    BY <1>1, <2>2, <2>3
  <2>6. TypeOK'
    BY <1>1, <1>3, <2>5 DEF TypeOK, EndPasses
  <2>7. RequestsNamed' /\ RequestsHold'
    BY <1>1, <1>3, <2>4 DEF RequestsNamed, RequestsHold, Named, Held, RootOp, EndPasses
  <2>8. CheckedMergesStayAcyclic'
    <3>1. Pointers(offer)' = Pointers(offer)
      BY <2>4 DEF Pointers
    <3> QED BY <1>3, <3>1 DEF IInv, CheckedMergesStayAcyclic, MergesStayAcyclic, EndPasses
  <2>9. CheckedHiddenIsGone'
    BY <1>3, <2>4 DEF IInv, CheckedHiddenIsGone, HiddenIsGone, Hidden, EndPasses
  <2>10. CheckedPendingIsNoindex'
    BY <1>3, <2>4 DEF IInv, CheckedPendingIsNoindex, EndPasses
  <2> QED BY <2>6, <2>7, <2>8, <2>9, <2>10 DEF IInv
<1> QED BY <1>2, <1>3

-----------------------------------------------------------------------------
(* The theorems.                                                           *)

LEMMA InitEstablishes == Init => IInv
<1> SUFFICES ASSUME Init PROVE IInv
  OBVIOUS
<1>1. Absent \in Row /\ Idle \in Request
  BY DEF Absent, Row, Status, Review, Due, Idle, Request
<1>2. [Absent EXCEPT !.status = "active"] \in Row
  BY <1>1 DEF Row, Status
<1>3. \A o \in Offers :
          /\ offer[o].merged = NoOffer
          /\ offer[o].review = "not_required"
          /\ o \in Seeded => offer[o].status = "active"
          /\ o \notin Seeded => doc[o] = "none"
  BY DEF Init, Absent
<1>4. TypeOK
  <2>1. offer \in [Offers -> Row]
    BY <1>1, <1>2 DEF Init
  <2>2. fresh \in SUBSET Offers /\ ripe \in SUBSET Offers
    BY ConstantsAssumption DEF Init
  <2>3. doc \in [Offers -> Doc]
    BY DEF Init, Doc
  <2>4. req \in [Slots -> Request] /\ worker \in WorkerState
    BY <1>1, WorkerTypes DEF Init
  <2> QED BY <2>1, <2>2, <2>3, <2>4 DEF TypeOK, Init
<1>5. RequestsNamed /\ RequestsHold
  BY DEF Init, RequestsNamed, RequestsHold, Named, Held, Idle, RootOp
<1>6. CheckedMergesStayAcyclic
  <2> SUFFICES ASSUME NEW S \in SUBSET Offers, S # {}
               PROVE  \E x \in S : Pointers(offer)[x] \notin S
    BY DEF CheckedMergesStayAcyclic, MergesStayAcyclic, Acyclic, Pointers
  <2> QED BY <1>3, ConstantsAssumption DEF Pointers
<1>7. CheckedHiddenIsGone
  BY <1>3 DEF CheckedHiddenIsGone, HiddenIsGone, Hidden
<1>8. CheckedPendingIsNoindex
  BY <1>3 DEF CheckedPendingIsNoindex
<1> QED BY <1>4, <1>5, <1>6, <1>7, <1>8 DEF IInv

LEMMA NextPreserves == IInv /\ [Next]_vars => IInv'
<1> SUFFICES ASSUME IInv, [Next]_vars PROVE IInv'
  OBVIOUS
<1>1. ASSUME NEW p \in Slots, StartCreate(p) \/ StartOnRoot(p) \/ StartMerge(p) \/ StartUnmerge(p)
      PROVE  IInv'
  BY <1>1, StartCreatePreserves, StartOnRootPreserves, StartMergePreserves, StartUnmergePreserves
<1>2. ASSUME NEW p \in Slots, Finish(p) PROVE IInv'
  BY <1>2, FinishPreserves
<1>3. CASE WorkerStep
  BY <1>3, WorkerReadsPreserve, ExpireDuePreserves, IndexListedPreserves DEF WorkerStep
<1>4. CASE FailTick \/ DayPasses
  BY <1>4, WorkerReadsPreserve
<1>5. CASE Restart
  BY <1>5, RestartPreserves
<1>6. ASSUME NEW o \in Offers, EndPasses(o) \/ PriceAges(o) PROVE IInv'
  BY <1>6, ClockPreserves
<1>7. CASE UNCHANGED vars
  <2>1. TypeOK'
    BY <1>7 DEF IInv, TypeOK, vars
  <2> QED BY <1>7, <2>1, QuietWorker DEF vars
<1> QED BY <1>1, <1>2, <1>3, <1>4, <1>5, <1>6, <1>7 DEF Next

\* The inductive invariant holds in every state.
THEOREM Invariant == Spec => []IInv
<1>1. Init => IInv
  BY InitEstablishes
<1>2. IInv /\ [Next]_vars => IInv'
  BY NextPreserves
<1> QED BY <1>1, <1>2, PTL DEF Spec

\* Every variable keeps its type, whatever races happen.
THEOREM TypeCorrectness == Spec => []TypeOK
<1>1. IInv => TypeOK
  BY DEF IInv
<1> QED BY <1>1, Invariant, PTL

\* As long as no transaction has used checks another had overtaken, merges and
\* unmerges of any number of offers never close a cycle of merge pointers.
THEOREM MergesAreAcyclic == Spec => []CheckedMergesStayAcyclic
<1>1. IInv => CheckedMergesStayAcyclic
  BY DEF IInv
<1> QED BY <1>1, Invariant, PTL

\* ...every disabled or merged offer's document is out of Search, whichever of
\* the handlers and worker passes wrote it last.
THEOREM HiddenOffersAreGone == Spec => []CheckedHiddenIsGone
<1>1. IInv => CheckedHiddenIsGone
  BY DEF IInv
<1> QED BY <1>1, Invariant, PTL

\* ...and text waiting for review is never indexable.
THEOREM PendingIsNoindex == Spec => []CheckedPendingIsNoindex
<1>1. IInv => CheckedPendingIsNoindex
  BY DEF IInv
<1> QED BY <1>1, Invariant, PTL

\* A transaction whose checks were not overtaken keeps takedowns and merged rows.
LEMMA FinishKeeps ==
    ASSUME IInv, NEW p \in Slots, Finish(p), ~raced'
    PROVE  TakedownsKept(offer', p) /\ MergedRowsKept(offer') /\ req'[p] = Idle
<1>1. TypeOK /\ RequestsNamed /\ RequestsHold
  BY DEF IInv
<1>2. CASE RollBack(p)
  <2>1. offer' = offer /\ req'[p] = Idle
    BY <1>1, <1>2 DEF RollBack, TypeOK
  <2> QED BY <2>1 DEF TakedownsKept, MergedRowsKept, SameColumns
<1>3. ASSUME NEW rows, NEW seen, NEW ids, Commit(p, rows, seen, ids), Effect(p, rows, seen, ids)
      PROVE  TakedownsKept(offer', p) /\ MergedRowsKept(offer') /\ req'[p] = Idle
  <2>1. ~raced /\ ~req[p].stale /\ offer' = rows
    BY <1>3 DEF Commit
  <2>2. Held(req[p])
    BY <1>1, <2>1 DEF RequestsHold
  <2>3. Overtaken(ids) \in [Slots -> Request]
    BY <1>1, <1>3, OvertakenRequests DEF Effect
  <2>4. req'[p] = Idle
    BY <1>3, <2>3 DEF Commit
  <2> QED BY <1>3, <2>1, <2>2, <2>4 DEF Effect
<1> QED BY <1>1, <1>2, <1>3, FinishEffect

\* Every other step keeps them too; expiry touches canonical active offers only.
LEMMA OtherStepsKeep ==
    ASSUME IInv, ~raced',
           \/ WorkerStep \/ FailTick \/ Restart \/ DayPasses
           \/ \E o \in Offers : EndPasses(o) \/ PriceAges(o)
           \/ \E p \in Slots : \/ StartCreate(p) \/ StartOnRoot(p)
                               \/ StartMerge(p) \/ StartUnmerge(p)
           \/ UNCHANGED vars,
           NEW o \in Offers
    PROVE  /\ offer[o].status = "disabled" => offer'[o].status = "disabled"
           /\ offer[o].merged # NoOffer \/ offer'[o].merged # NoOffer
                => SameColumns(offer'[o], offer[o])
<1>1. offer \in [Offers -> Row] /\ worker \in WorkerState
  BY DEF IInv, TypeOK
<1>2. CASE offer' = offer
  BY <1>2 DEF SameColumns
<1>3. CASE ExpireDue
  <2>1. worker.due \subseteq DueNow
    BY <1>3 DEF ExpireDue
  <2>2. CASE o \in worker.due
    <3>1. offer[o].status = "active" /\ offer[o].merged = NoOffer
      BY <2>1, <2>2 DEF DueNow
    <3>2. offer'[o] = [offer[o] EXCEPT !.status = "expired"]
      BY <1>3, <2>2 DEF ExpireDue
    <3>3. offer'[o].merged = NoOffer
      BY <1>1, <3>1, <3>2 DEF Row
    <3> QED BY <3>1, <3>3
  <2>3. CASE o \notin worker.due
    <3>1. offer'[o] = offer[o]
      BY <1>3, <2>3 DEF ExpireDue
    <3> QED BY <3>1 DEF SameColumns
  <2> QED BY <2>2, <2>3
<1>4. ASSUME NEW x \in Offers, EndPasses(x)
      PROVE  /\ offer[o].status = "disabled" => offer'[o].status = "disabled"
             /\ SameColumns(offer'[o], offer[o])
  <2>1. PICK row : row = [offer[x] EXCEPT !.due = "past"]
    OBVIOUS
  <2>2. SameColumns(row, offer[x])
    BY <1>1, <2>1 DEF SameColumns, Row
  <2>3. offer' = [offer EXCEPT ![x] = row]
    BY <1>1, <1>4, <2>1 DEF EndPasses
  <2>4. SameColumns(offer'[o], offer[o])
    BY <1>1, <2>2, <2>3 DEF SameColumns
  <2> QED BY <2>4 DEF SameColumns
<1>5. \/ offer' = offer \/ ExpireDue \/ \E x \in Offers : EndPasses(x)
  BY DEF WorkerStep, ReadDue, ListRows, EndPass, IndexListed, FailTick, Restart, DayPasses,
         PriceAges, StartCreate, StartOnRoot, StartMerge, StartUnmerge, Start, vars
<1> QED BY <1>2, <1>3, <1>4, <1>5

\* As long as no transaction has used checks another had overtaken, nothing but
\* a moderator's enable ends a takedown: no edit, expiry, merge or worker pass.
THEOREM TakedownsAreKept == Spec => CheckedDisabledStaysDisabled
<1> DEFINE Kept ==
      \A o \in Offers :
          ~raced' /\ offer[o].status = "disabled" /\ offer'[o].status # "disabled"
              => \E p \in Slots : req[p].op = "enable" /\ req[p].id = o /\ req'[p] = Idle
<1>1. IInv /\ [Next]_vars => [Kept]_vars
  <2> SUFFICES ASSUME IInv, [Next]_vars, NEW o \in Offers, ~raced',
                      offer[o].status = "disabled", offer'[o].status # "disabled"
               PROVE  \E p \in Slots : req[p].op = "enable" /\ req[p].id = o /\ req'[p] = Idle
    OBVIOUS
  <2>1. CASE \E p \in Slots : Finish(p)
    BY <2>1, FinishKeeps DEF TakedownsKept
  <2>2. CASE ~\E p \in Slots : Finish(p)
    BY <2>2, OtherStepsKeep DEF Next
  <2> QED BY <2>1, <2>2
<1> QED BY <1>1, Invariant, PTL DEF Spec, CheckedDisabledStaysDisabled

\* ...and a merge, an unmerge and everything that happens in between leave the
\* merged offer's own row as it was, so an unmerge restores it exactly.
THEOREM MergedRowsAreKept == Spec => CheckedMergedRowIsKept
<1> DEFINE Kept ==
      \A o \in Existing(offer) :
          ~raced' /\ (offer[o].merged # NoOffer \/ offer'[o].merged # NoOffer)
              => SameColumns(offer'[o], offer[o])
<1>1. IInv /\ [Next]_vars => [Kept]_vars
  <2> SUFFICES ASSUME IInv, [Next]_vars, NEW o \in Existing(offer), ~raced',
                      offer[o].merged # NoOffer \/ offer'[o].merged # NoOffer
               PROVE  SameColumns(offer'[o], offer[o])
    OBVIOUS
  <2>1. CASE \E p \in Slots : Finish(p)
    BY <2>1, FinishKeeps DEF MergedRowsKept
  <2>2. CASE ~\E p \in Slots : Finish(p)
    BY <2>2, OtherStepsKeep DEF Next, Existing
  <2> QED BY <2>1, <2>2
<1> QED BY <1>1, Invariant, PTL DEF Spec, CheckedMergedRowIsKept

=============================================================================
