-------------------------- MODULE Importer_proofs --------------------------
(***************************************************************************)
(* Theorems about Importer, for any items, links, watches, sizes of page   *)
(* and numbers of changes and faults: the inductive invariant IInv, the    *)
(* safety properties it implies, and that the importer keeps the ledger of *)
(* FeedLedger.  In order: arithmetic without induction; what an item, a    *)
(* page and a person's report make of the database they saw (the           *)
(* operators); what a commit over others' commits makes of it; then one    *)
(* lemma for each action, and the theorems.                                *)
(***************************************************************************)
EXTENDS Importer, MergeForest_proofs, FiniteSetTheorems, FunctionTheorems,
        SequenceTheorems, WellFoundedInduction

-----------------------------------------------------------------------------
(* Naturals.  The library's induction takes an operator; these do not.     *)

LEMMA SomeLeast ==
    ASSUME NEW S \in SUBSET Nat, S # {}
    PROVE  \E m \in S : \A n \in S : m <= n
<1>1. PICK b \in S : TRUE
  OBVIOUS
<1> DEFINE T == 0 .. b
           Below == {X \in FiniteSubsetsOf(T) : \E m \in S : X = 0 .. m - 1}
<1>2. IsWellFoundedOn(StrictSubsetOrdering(T), FiniteSubsetsOf(T))
  BY FS_StrictSubsetOrderingWellFounded, Zenon
<1>3. \A m \in S : m <= b => 0 .. m - 1 \in Below
  BY <1>1, FS_Interval DEF FiniteSubsetsOf
<1>4. Below \subseteq FiniteSubsetsOf(T) /\ Below # {}
  BY <1>1, <1>3
<1>5. PICK X \in Below : \A Y \in Below : <<Y, X>> \notin StrictSubsetOrdering(T)
  BY <1>2, <1>4, WFMin, Zenon
<1>6. PICK m \in S : X = 0 .. m - 1
  BY <1>5
<1>7. ASSUME NEW n \in S, n < m PROVE FALSE
  <2>1. n <= b
    <3>1. m - 1 \in X /\ X \subseteq T
      BY <1>5, <1>6, <1>7 DEF FiniteSubsetsOf
    <3> QED BY <1>7, <3>1
  <2>2. 0 .. n - 1 \in Below
    BY <1>3, <1>7, <2>1
  <2>3. n \in X /\ n \notin 0 .. n - 1 /\ 0 .. n - 1 \subseteq X
    BY <1>6, <1>7
  <2> QED BY <1>5, <2>2, <2>3 DEF StrictSubsetOrdering, FiniteSubsetsOf
<1> QED BY <1>7

\* What holds at the start and is kept by each step holds up to the end.
LEMMA UpTo ==
    ASSUME NEW last \in Nat, NEW T, 0 \in T, \A n \in 0 .. last : n \in T /\ n < last => n + 1 \in T
    PROVE  \A n \in 0 .. last : n \in T
<1> DEFINE S == {n \in 0 .. last : n \notin T}
<1> SUFFICES ASSUME S # {} PROVE FALSE
  OBVIOUS
<1>1. PICK m \in S : \A n \in S : m <= n
  BY SomeLeast, S \in SUBSET Nat
<1>2. m > 0 /\ m - 1 \in 0 .. last /\ m - 1 \in T
  BY <1>1
<1> QED BY <1>1, <1>2

LEMMA SomeGreatest ==
    ASSUME NEW S \in SUBSET Nat, S # {}, NEW b \in Nat, \A n \in S : n <= b
    PROVE  \E m \in S : \A n \in S : n <= m
<1> DEFINE R == {n \in 0 .. b : b - n \in S}
<1>1. \A n \in S : b - n \in R /\ b - (b - n) = n
  OBVIOUS
<1>2. PICK r \in R : \A n \in R : r <= n
  BY <1>1, SomeLeast, R \in SUBSET Nat
<1>3. ASSUME NEW n \in S PROVE n <= b - r
  <2>1. r <= b - n
    BY <1>1, <1>2
  <2> QED BY <1>2, <2>1
<1> QED BY <1>2, <1>3

-----------------------------------------------------------------------------
(* An item and a page as runs of steps, the functions their definitions    *)
(* describe.                                                               *)

LEMMA ItemIsARun ==
    ASSUME NEW d, NEW v, ~v.gone, v.says.usable, NEW t,
           NEW last \in Nat, last = Len(StatedLinks[v.item])
    PROVE  \E f : /\ f[0] = d /\ ImportItem(d, v, t) = f[last]
                  /\ \A n \in 1 .. last :
                       f[n] = IF n \in Candidates(v.item)
                              THEN ImportPart(f[n - 1], v, Key(v.item, n), t) ELSE f[n - 1]
<1> DEFINE Step(g, n) == IF n = 0 THEN d
                         ELSE IF n \in Candidates(v.item) THEN ImportPart(g[n - 1], v, Key(v.item, n), t)
                         ELSE g[n - 1]
           Run(g, m)  == g = [n \in 0 .. m |-> Step(g, n)]
           T == {m \in 0 .. last : \E g : Run(g, m)}
           f == CHOOSE g : g = [n \in 0 .. last |-> Step(g, n)]
<1>1. 0 \in T
  <2>1. Run([n \in 0 .. 0 |-> d], 0)
    OBVIOUS
  <2> HIDE DEF Run
  <2> QED BY <2>1
<1>2. ASSUME NEW m \in 0 .. last, m \in T, m < last PROVE m + 1 \in T
  <2>1. PICK g : Run(g, m)
    BY <1>2
  <2> DEFINE h == [n \in 0 .. m + 1 |-> IF n = m + 1 THEN Step(g, n) ELSE g[n]]
  <2>2. \A n \in 0 .. m : g[n] = Step(g, n)
    BY <2>1
  <2>3. \A n \in 0 .. m + 1 : n # 0 => n - 1 \in 0 .. m /\ h[n - 1] = g[n - 1]
    OBVIOUS
  <2>4. \A n \in 0 .. m + 1 : Step(h, n) = Step(g, n)
    BY <2>3
  <2>5. \A n \in 0 .. m + 1 : h[n] = Step(h, n)
    BY <2>2, <2>4
  <2>6. Run(h, m + 1)
    BY <2>5
  <2> HIDE DEF Run, h
  <2> QED BY <2>6, <1>2
<1>3. \E g : Run(g, last)
  <2> HIDE DEF Run, T
  <2>1. last \in T
    BY <1>1, <1>2, UpTo, 0 \in 0 .. last, last \in 0 .. last
  <2> QED BY <2>1 DEF T
<1>4. f = [n \in 0 .. last |-> Step(f, n)]
  BY <1>3, Zenon
<1>5. ImportItem(d, v, t) = f[last]
  BY Zenon DEF ImportItem
<1> HIDE DEF f
<1>6. \A n \in 0 .. last : f[n] = Step(f, n)
  BY <1>4
<1> QED BY <1>5, <1>6

LEMMA PageIsARun ==
    ASSUME NEW d, NEW page, NEW t, MaxChanges \in Nat
    PROVE  \E f : /\ f[0] = d /\ ImportPage(d, page, t) = f[MaxChanges]
                  /\ \A n \in 1 .. MaxChanges :
                       f[n] = IF \E v \in page : v.change = n
                              THEN ImportItem(f[n - 1], CHOOSE v \in page : v.change = n, t)
                              ELSE f[n - 1]
<1> DEFINE Step(g, n) == IF n = 0 THEN d
                         ELSE IF \E v \in page : v.change = n
                              THEN ImportItem(g[n - 1], CHOOSE v \in page : v.change = n, t)
                         ELSE g[n - 1]
           Run(g, m)  == g = [n \in 0 .. m |-> Step(g, n)]
           T == {m \in 0 .. MaxChanges : \E g : Run(g, m)}
           f == CHOOSE g : g = [n \in 0 .. MaxChanges |-> Step(g, n)]
<1>1. 0 \in T
  <2>1. Run([n \in 0 .. 0 |-> d], 0)
    OBVIOUS
  <2> HIDE DEF Run
  <2> QED BY <2>1
<1>2. ASSUME NEW m \in 0 .. MaxChanges, m \in T, m < MaxChanges PROVE m + 1 \in T
  <2>1. PICK g : Run(g, m)
    BY <1>2
  <2> DEFINE h == [n \in 0 .. m + 1 |-> IF n = m + 1 THEN Step(g, n) ELSE g[n]]
  <2>2. \A n \in 0 .. m : g[n] = Step(g, n)
    BY <2>1
  <2>3. \A n \in 0 .. m + 1 : n # 0 => n - 1 \in 0 .. m /\ h[n - 1] = g[n - 1]
    OBVIOUS
  <2>4. \A n \in 0 .. m + 1 : Step(h, n) = Step(g, n)
    BY <2>3
  <2>5. \A n \in 0 .. m + 1 : h[n] = Step(h, n)
    BY <2>2, <2>4
  <2>6. Run(h, m + 1)
    BY <2>5
  <2> HIDE DEF Run, h
  <2> QED BY <2>6, <1>2
<1>3. \E g : Run(g, MaxChanges)
  <2> HIDE DEF Run, T
  <2>1. MaxChanges \in T
    BY <1>1, <1>2, UpTo
  <2> QED BY <2>1 DEF T
<1>4. f = [n \in 0 .. MaxChanges |-> Step(f, n)]
  BY <1>3, Zenon
<1>5. ImportPage(d, page, t) = f[MaxChanges]
  BY Zenon DEF ImportPage
<1> HIDE DEF f
<1>6. \A n \in 0 .. MaxChanges : f[n] = Step(f, n)
  BY <1>4
<1> QED BY <1>5, <1>6

-----------------------------------------------------------------------------
(* States of the database, and how imports take one to another.            *)

Exists(d, o) == d.offer[o].status # "absent"

\* What no interleaving breaks.  A row and the offer made for it come together.
Sound(d) ==
    /\ d \in Database
    /\ Acyclic(Into(d))
    /\ \A o \in Offers : ~Exists(d, o) => d.offer[o] = NoOffer
    /\ \A k \in Keys :
         \/ d.src[k] = NoSource /\ ~Exists(d, k)
         \/ d.src[k].rev > 0 /\ d.src[k].offer \in Offers /\ Exists(d, d.src[k].offer)

\* The rows of an item are made together.
RowsTogether(d) ==
    \A i \in Items : \A k, l \in KeysOf(i) : d.src[k] = NoSource => d.src[l] = NoSource

\* A drop in price is on record where it is said.
DropOnRecord(h, x) ==
    h[x].reason = "price_drop" =>
        \E m, n \in DOMAIN h :
            /\ h[m].offer = h[x].offer /\ h[n].offer = h[x].offer
            /\ h[m].cur = h[n].cur /\ h[m].price > h[n].price /\ Newer(h, n, m)
DropsOnRecord(h) == \A x \in DOMAIN h : DropOnRecord(h, x)

Prefix(h, g) == Len(h) <= Len(g) /\ \A n \in 1 .. Len(h) : g[n] = h[n]

\* The offers and the history are carried on: nothing but the status of an
\* offer changes, and new offers, with ids among `made`, are made whole.
Grows(d, e, made) ==
    /\ Prefix(d.obs, e.obs)
    /\ \A k \in Keys : d.src[k] # NoSource => e.src[k] # NoSource
    /\ \A o \in Offers :
         \/ Exists(d, o) /\ \E st \in {d.offer[o].status, "disabled"} :
                              e.offer[o] = [d.offer[o] EXCEPT !.status = st]
         \/ ~Exists(d, o) /\ ~Exists(e, o)
         \/ o \in made /\ ~Exists(d, o) /\ Exists(e, o) /\ e.offer[o].into = None
            /\ (o \in Keys => d.src[o] = NoSource /\ e.src[o] # NoSource)

Count(h, k) == Cardinality({n \in DOMAIN h : h[n].key = k})
Greater(a, b) == IF a > b THEN a ELSE b

\* What becomes of one row.
Stays(d, e, k) == e.src[k] = d.src[k] /\ Count(e.obs, k) = Count(d.obs, k)
Advances(d, e, k, v) ==
    /\ \/ d.src[k] = NoSource
       \/ d.src[k].live /\ (v.rev > d.src[k].rev \/ v.at > d.src[k].at)
    /\ d.src[k] # NoSource => e.src[k].offer = d.src[k].offer
    /\ e.src[k].live
    /\ e.src[k].rev = Greater(v.rev, d.src[k].rev) /\ e.src[k].at = Greater(v.at, d.src[k].at)
    /\ Count(e.obs, k) = Count(d.obs, k) + 1
Withdraws(d, e, k) ==
    /\ d.src[k].live
    /\ e.src[k] = [d.src[k] EXCEPT !.live = FALSE]
    /\ Count(e.obs, k) = Count(d.obs, k)

\* What applying version v makes of a row of its item.
Outcome(d, e, k, v) ==
    \/ v.gone /\ (Withdraws(d, e, k) \/ (Stays(d, e, k) /\ ~d.src[k].live))
    \/ ~v.gone /\ ~v.says.usable /\ Stays(d, e, k)
    \/ ~v.gone /\ v.says.usable /\ Advances(d, e, k, v)
    \/ ~v.gone /\ v.says.usable /\ Stays(d, e, k) /\ d.src[k] # NoSource
       /\ (d.src[k].live => v.rev <= d.src[k].rev)

\* As long as transactions see each other and no moderator acts.
LinksApart(d) ==
    \A o, p \in Offers :
        /\ o # p /\ d.offer[o].status = "active" /\ d.offer[p].status = "active"
        => d.offer[o].link # d.offer[p].link
ShownAsSourced(d) ==
    \A o \in Offers :
        /\ d.offer[o].origin = "community" => d.offer[o].status = "active"
        /\ d.offer[o].origin = "import" => (d.offer[o].status = "active" <=> HasSource(d, o))
ToldOnce(h) ==
    /\ \A n \in DOMAIN h : \A w \in h[n].told :
         WatchOf[w].kind = "price_below" => h[n].price # NoPrice /\ h[n].cur = WatchOf[w].cur
    /\ \A w \in Watches, m, n \in DOMAIN h :
         /\ m < n /\ h[m].root = h[n].root /\ w \in h[m].told /\ w \in h[n].told
         => WatchOf[w].kind = "price_below" /\ h[n].price < h[m].price
Untouched(d) ==
    /\ \A o \in Offers : d.offer[o].into = None
    /\ LinksApart(d) /\ ShownAsSourced(d) /\ ToldOnce(d.obs)

\* What becomes of the rest of the database when one import follows another.
Follows(d, e) ==
    /\ Sound(e) /\ DropsOnRecord(e.obs) /\ Grows(d, e, Keys) /\ e.cursor = d.cursor
    /\ Untouched(d) => Untouched(e)

-----------------------------------------------------------------------------
(* The invariant.                                                          *)

\* Sources numbers its changes.
FeedInOrder(f, t) ==
    /\ \A i \in Items :
         /\ f[i].at <= t
         /\ IF f[i].rev = 0 THEN f[i] = Unpublished
            ELSE f[i].change > 0 /\ f[i].says \in Statements
    /\ \A i, j \in Items : i # j /\ f[i].change > 0 => f[i].change # f[j].change

\* Nothing is ahead of Sources.
Behind(d, f) ==
    /\ \A i \in Items : \A k \in KeysOf(i) : d.src[k].rev <= f[i].rev /\ d.src[k].at <= f[i].at
    /\ \A i \in Items : f[i].rev = 0 => \A k \in KeysOf(i) : d.src[k] = NoSource

\* A version that is being applied was published.
WasPublished(v, f) ==
    /\ v.rev > 0 /\ v.change > 0 /\ v.says \in Statements
    /\ v.rev <= f[v.item].rev /\ v.at <= f[v.item].at /\ v.change <= f[v.item].change
    /\ v.change = f[v.item].change =>
         v.rev = f[v.item].rev /\ v.gone = f[v.item].gone /\ v.says = f[v.item].says

\* What a transaction has seen and what has been committed since.
Since(s, d) ==
    /\ Prefix(s.obs, d.obs)
    /\ \A o \in Offers : Exists(s, o) => Exists(d, o)
    /\ \A k \in Keys : s.src[k] # NoSource =>
         d.src[k] # NoSource /\ d.src[k].offer = s.src[k].offer

Seen(j, d, f) ==
    j.op # "idle" => j.seen \in Database /\ Sound(j.seen) /\ Since(j.seen, d) /\ Behind(j.seen, f)
                     /\ DropsOnRecord(j.seen.obs)

\* The page in hand: each item once, all that changed up to its end.
PageInHand(j, f) ==
    /\ \A v \in j.page : WasPublished(v, f)
    /\ \A v, w \in j.page : v # w => v.item # w.item /\ v.change # w.change
Pulling(j, d, f) ==
    j.op # "idle" =>
        /\ j.op = "apply"
        /\ j.seen.cursor = d.cursor
        /\ \A k \in Keys : j.seen.src[k] = NoSource => d.src[k] = NoSource
        /\ \A v \in j.page : v.change > d.cursor
        /\ \A i \in Items : f[i].change > d.cursor /\ f[i].change <= j.upTo =>
             \E v \in j.page : v.item = i /\ v.change = f[i].change
        /\ \E i \in Items : j.upTo <= f[i].change
Refreshing(j) ==
    j.op # "idle" =>
        /\ j.op = "apply"
        /\ \A v \in j.page : \A k \in KeysOf(v.item) : j.seen.src[k] # NoSource
Asking(j, d) ==
    /\ j.op # "apply"
    /\ j.op \in {"submit", "observe"} =>
        /\ j.says \in PersonSays
        /\ \A o \in Offers \ Keys : ~Exists(j.seen, o) => ~Exists(d, o)
    /\ j.op = "submit" => /\ FindByUrl(j.seen, j.link) = None
                          /\ \E o \in Offers \ Keys : ~Exists(j.seen, o)
    /\ j.op = "observe" => /\ j.of \in Offers /\ Exists(j.seen, j.of) /\ IsRoot(Into(j.seen), j.of)
                           /\ j.seen.offer[j.of].status # "disabled"

\* What the three jobs have in hand.
JobsInHand(jobs, d, f) ==
    /\ \A p \in {"pull", "refresh", "person"} : Seen(jobs[p], d, f) /\ PageInHand(jobs[p], f)
    /\ Pulling(jobs["pull"], d, f) /\ Refreshing(jobs["refresh"]) /\ Asking(jobs["person"], d)

\* The cursor is a change of the feed, or no change at all.
CursorInFeed(c, f) == c > 0 => \E i \in Items : c <= f[i].change

IInv ==
    /\ TypeOK /\ FeedInOrder(feed, now)
    /\ Sound(db) /\ RowsTogether(db) /\ Behind(db, feed) /\ DropsOnRecord(db.obs)
    /\ JobsInHand(job, db, feed)
    /\ CursorInFeed(db.cursor, feed)
    /\ CursorNeverSkips
    /\ raced \/ touched \/ Untouched(db)

-----------------------------------------------------------------------------
(* The helpers of the model.                                               *)

LEMMA KeysOfItems ==
    /\ \A i \in Items : \A k \in KeysOf(i) : k \in Keys /\ k[1] = i
    /\ \A k \in Keys : k[1] \in Items /\ k \in KeysOf(k[1])
BY DEF Keys, KeysOf, Key

LEMMA NewestExists ==
    ASSUME NEW h, NEW b \in Nat, NEW S \in SUBSET (1 .. b), S # {}, \A i \in S : h[i].at \in Nat
    PROVE  Newest(h, S) \in S /\ \A j \in S \ {Newest(h, S)} : Newer(h, Newest(h, S), j)
<1> DEFINE Upto(m) == S \cap (1 .. m)
           Has(m)  == \E i \in Upto(m) : \A j \in Upto(m) \ {i} : Newer(h, i, j)
           T == {m \in 0 .. b : Upto(m) = {} \/ Has(m)}
<1>1. 0 \in T
  OBVIOUS
<1>2. ASSUME NEW m \in 0 .. b, m \in T, m < b PROVE m + 1 \in T
  <2>1. CASE m + 1 \notin S
    <3>1. Upto(m + 1) = Upto(m)
      BY <2>1
    <3> QED BY <3>1, <1>2
  <2>2. CASE m + 1 \in S /\ Upto(m) = {}
    <3>1. Upto(m + 1) = {m + 1}
      BY <2>2
    <3> QED BY <3>1, <1>2
  <2>3. CASE m + 1 \in S /\ Upto(m) # {}
    <3>1. PICK i \in Upto(m) : \A j \in Upto(m) \ {i} : Newer(h, i, j)
      BY <1>2, <2>3
    <3>2. Upto(m + 1) = Upto(m) \cup {m + 1} /\ m + 1 \notin Upto(m)
      BY <2>3
    <3>3. CASE h[m + 1].at >= h[i].at
      <4>1. \A j \in Upto(m) : Newer(h, m + 1, j)
        BY <2>3, <3>1, <3>3 DEF Newer
      <4> QED BY <3>2, <4>1, <1>2
    <3>4. CASE h[m + 1].at < h[i].at
      <4>1. Newer(h, i, m + 1)
        BY <3>4, <2>3 DEF Newer
      <4> QED BY <3>1, <3>2, <4>1, <1>2
    <3> QED BY <3>3, <3>4, <2>3
  <2> QED BY <2>1, <2>2, <2>3
<1>3. b \in T
  <2> HIDE DEF T
  <2> QED BY <1>1, <1>2, UpTo
<1>4. Upto(b) = S
  OBVIOUS
<1> QED BY <1>3, <1>4 DEF Newest

\* A selection for a drop in price rests on two observations.
LEMMA ReasonRests ==
    ASSUME NEW h \in Seq(Observation), NEW S \in SUBSET DOMAIN h, NEW hit \in BOOLEAN
    PROVE  /\ DealReason(h, S, hit) \in {"none", "list_price", "price_drop", "watch"}
           /\ DealReason(h, S, hit) = "price_drop" =>
                \E m, n \in S : h[m].cur = h[n].cur /\ h[m].price > h[n].price /\ Newer(h, n, m)
<1> DEFINE P == Points(h, S)
           latest == Newest(h, P)
           previous == Newest(h, P \ {latest})
           lowest   == \A i \in P : h[latest].price <= h[i].price
           differ   == \E i \in P : h[i].price # h[latest].price
<1>1. P \subseteq S /\ \A m, n \in P : h[m].cur = h[n].cur
  BY DEF Points
<1>2. \A i \in S : h[i].at \in Nat /\ h[i].price \in Nat
  <2>1. \A i \in S : h[i] \in Observation
    OBVIOUS
  <2> QED BY <2>1 DEF Observation
<1>3. Len(h) \in Nat /\ P \in SUBSET (1 .. Len(h))
  BY <1>1
<1>4. P # {} => latest \in P /\ \A j \in P \ {latest} : Newer(h, latest, j)
  <2> HIDE DEF P
  <2> QED BY <1>1, <1>2, <1>3, NewestExists
<1>5. P \ {latest} # {} => previous \in P \ {latest}
  <2> HIDE DEF P, latest
  <2> QED BY <1>1, <1>2, <1>3, NewestExists, P \ {latest} \in SUBSET (1 .. Len(h))
<1>6. DealReason(h, S, hit) = "price_drop" =>
        P # {} /\ P # {latest} /\ Dropped(h[latest], h[previous], lowest, differ)
  BY DEF DealReason
<1>7. ASSUME DealReason(h, S, hit) = "price_drop"
      PROVE  \E m \in P \ {latest} : h[m].price > h[latest].price
  <2> HIDE DEF P, latest, previous
  <2>1. P # {} /\ P \ {latest} # {} /\ latest \in P /\ previous \in P \ {latest}
    BY <1>4, <1>5, <1>6, <1>7
  <2>2. CASE h[latest].price < h[previous].price
    BY <2>1, <2>2, <1>1, <1>2
  <2>3. CASE lowest /\ differ
    BY <2>1, <2>3, <1>1, <1>2
  <2> QED BY <1>6, <1>7, <2>2, <2>3 DEF Dropped
<1>8. DealReason(h, S, hit) \in {"none", "list_price", "price_drop", "watch"}
  BY DEF DealReason
<1> HIDE DEF P, latest, previous, lowest, differ
<1> QED BY <1>1, <1>4, <1>6, <1>7, <1>8

LEMMA RootExists ==
    ASSUME NEW d, d.offer \in [Offers -> OfferRow], Acyclic(Into(d)), NEW o \in Offers, Exists(d, o)
    PROVE  LET r == RootOf(d, o)
           IN  r \in Offers /\ Exists(d, r) /\ IsRoot(Into(d), r) /\ r \in Roots(Into(d), o)
<1>1. DOMAIN Into(d) = {x \in Offers : Exists(d, x)}
  BY DEF Into, Exists
<1>2. Roots(Into(d), o) # {} /\ \A r \in Roots(Into(d), o) : IsRoot(Into(d), r)
  BY <1>1, RootsAreRoots
<1>3. RootOf(d, o) \in Roots(Into(d), o)
  BY <1>2 DEF RootOf
<1>4. IsRoot(Into(d), RootOf(d, o))
  BY <1>2, <1>3
<1> QED BY <1>1, <1>3, <1>4 DEF IsRoot

LEMMA RootOfARoot ==
    ASSUME NEW d, NEW o, IsRoot(Into(d), o)
    PROVE  RootOf(d, o) = o /\ o \in GroupOf(d, o)
<1>1. Chain(Into(d), o) = {o}
  BY RootChain
<1>2. Roots(Into(d), o) = {o}
  BY <1>1 DEF Roots
<1> QED BY <1>1, <1>2 DEF RootOf, GroupOf, Group, IsRoot

\* findByUrl finds an offer if there is one to be found.
LEMMA FindByUrlFinds ==
    ASSUME NEW d, d.offer \in [Offers -> OfferRow], Acyclic(Into(d)), None \notin Offers, NEW link
    PROVE  LET hits == {o \in Offers : d.offer[o].link = link /\ d.offer[o].status = "active"}
           IN  /\ FindByUrl(d, link) = None <=> hits = {}
               /\ FindByUrl(d, link) # None => \E o \in hits : FindByUrl(d, link) = RootOf(d, o)
<1> DEFINE hits == {o \in Offers : d.offer[o].link = link /\ d.offer[o].status = "active"}
           born == {n \in Nat : \E o \in hits : d.offer[o].born = n}
           found == CHOOSE o \in hits : \A p \in hits : d.offer[o].born <= d.offer[p].born
<1>1. ASSUME hits # {} PROVE found \in hits
  <2>1. \A o \in hits : d.offer[o].born \in born
    BY DEF OfferRow
  <2>2. PICK n \in born : \A m \in born : n <= m
    <3> HIDE DEF hits
    <3> QED BY <1>1, <2>1, SomeLeast, born \in SUBSET Nat
  <2>3. \E o \in hits : \A p \in hits : d.offer[o].born <= d.offer[p].born
    BY <2>1, <2>2
  <2> QED BY <2>3
<1>2. \A o \in hits : Exists(d, o) /\ RootOf(d, o) \in Offers
  BY RootExists DEF Exists
<1>3. FindByUrl(d, link) = IF hits = {} THEN None ELSE RootOf(d, found)
  BY DEF FindByUrl
<1> HIDE DEF hits, found
<1>4. FindByUrl(d, link) # None => found \in hits
  BY <1>1, <1>3
<1>5. hits # {} => FindByUrl(d, link) # None
  BY <1>1, <1>2, <1>3
<1>6. FindByUrl(d, link) # None => FindByUrl(d, link) = RootOf(d, found)
  BY <1>3
<1> QED BY <1>3, <1>4, <1>5, <1>6 DEF hits

-----------------------------------------------------------------------------
(* One observation more.                                                   *)

LEMMA CountAppend ==
    ASSUME NEW h \in Seq(Observation), NEW x \in Observation, NEW k
    PROVE  /\ Count(h, k) \in Nat
           /\ Count(Append(h, x), k) = IF x.key = k THEN Count(h, k) + 1 ELSE Count(h, k)
<1> DEFINE At(g) == {n \in DOMAIN g : g[n].key = k}
           g == Append(h, x)
           b == Len(h)
<1>1. b \in Nat /\ DOMAIN h = 1 .. b
  OBVIOUS
<1>2. IsFiniteSet(At(h))
  BY <1>1, FS_BoundedSetOfNaturals, At(h) \in SUBSET Nat, \A n \in At(h) : n <= b
<1>3. g \in Seq(Observation) /\ DOMAIN g = 1 .. b + 1 /\ g[b + 1] = x /\ \A n \in 1 .. b : g[n] = h[n]
  BY <1>1
<1> HIDE DEF g, b
<1>4. At(g) = IF x.key = k THEN At(h) \cup {b + 1} ELSE At(h)
  BY <1>1, <1>3
<1>5. b + 1 \notin At(h)
  BY <1>1
<1> HIDE DEF At
<1>6. Cardinality(At(h)) \in Nat
  BY <1>2, FS_CardinalityType
<1>7. Cardinality(At(h) \cup {b + 1}) = Cardinality(At(h)) + 1
  BY <1>2, <1>5, FS_AddElement
<1> QED BY <1>4, <1>6, <1>7 DEF Count, At, g

\* recordObservation adds one row, the one it is given with who is told of it
\* and why it is a deal; a drop it is selected for is on record.
LEMMA RecordAppends ==
    ASSUME NEW d, d.obs \in Seq(Observation), DropsOnRecord(d.obs),
           NEW o \in Observation, o.reason = "none", NEW t
    PROVE  \E x \in Observation :
             /\ Record(d, o, t) = [d EXCEPT !.obs = Append(d.obs, x)]
             /\ x.offer = o.offer /\ x.root = o.root /\ x.key = o.key /\ x.price = o.price
             /\ x.cur = o.cur /\ x.at = o.at /\ x.origin = o.origin
             /\ x.told = Told(d, o, t)
             /\ DropsOnRecord(Append(d.obs, x))
<1> DEFINE told    == [o EXCEPT !.told = Told(d, o, t)]
           history == Append(d.obs, told)
           own     == {n \in DOMAIN history :
                          history[n].offer = o.offer /\ SourceLive(d, history[n])}
           why     == DealReason(history, own, PriceHit(d, o, t))
           x       == IF o.origin = "community" THEN told ELSE [told EXCEPT !.reason = why]
           after   == Append(d.obs, x)
           b       == Len(d.obs)
<1>1. Told(d, o, t) \in SUBSET Watches
  BY DEF Told, Matched
<1>2. told \in Observation /\ told.reason = "none" /\ told.offer = o.offer
  BY <1>1 DEF Observation
<1>3. history \in Seq(Observation) /\ own \in SUBSET DOMAIN history
  BY <1>2
<1>4. /\ why \in {"none", "list_price", "price_drop", "watch"}
      /\ why = "price_drop" =>
           \E m, n \in own : history[m].cur = history[n].cur /\ history[m].price > history[n].price
                             /\ Newer(history, n, m)
  <2> HIDE DEF history, own
  <2>1. PriceHit(d, o, t) \in BOOLEAN
    BY DEF PriceHit
  <2> QED BY <1>3, <2>1, ReasonRests
<1>5. x \in Observation
  <2> HIDE DEF why
  <2> QED BY <1>2, <1>4 DEF Observation
<1>6. Record(d, o, t) = [d EXCEPT !.obs = Append(d.obs, x)]
  BY DEF Record
<1>7. /\ x.offer = o.offer /\ x.root = o.root /\ x.key = o.key /\ x.price = o.price
      /\ x.cur = o.cur /\ x.at = o.at /\ x.origin = o.origin /\ x.told = Told(d, o, t)
  <2> HIDE DEF why
  <2> QED BY DEF Observation
<1>8. /\ b \in Nat /\ DOMAIN d.obs = 1 .. b
      /\ DOMAIN history = 1 .. b + 1 /\ DOMAIN after = 1 .. b + 1
      /\ history[b + 1] = told /\ after[b + 1] = x
      /\ \A n \in 1 .. b : history[n] = d.obs[n] /\ after[n] = d.obs[n]
  <2> HIDE DEF x, told
  <2> QED BY <1>2, <1>5
<1>9. \A n \in 1 .. b + 1 :
        /\ after[n].offer = history[n].offer /\ after[n].cur = history[n].cur
        /\ after[n].price = history[n].price /\ after[n].at = history[n].at
  <2>1. x.offer = told.offer /\ x.cur = told.cur /\ x.price = told.price /\ x.at = told.at
    <3> HIDE DEF why
    <3> QED BY DEF Observation
  <2> HIDE DEF x, told, history, after, b
  <2> QED BY <1>8, <2>1
<1>10. x.reason = "price_drop" => why = "price_drop"
  BY <1>2
<1>11. \A n \in own : n \in 1 .. b + 1 /\ history[n].offer = o.offer
  BY <1>8
<1> HIDE DEF x, told, history, after, why, own, b
<1>12. DropOnRecord(after, b + 1)
  <2> SUFFICES ASSUME after[b + 1].reason = "price_drop"
               PROVE  \E m, n \in DOMAIN after :
                        /\ after[m].offer = after[b + 1].offer /\ after[n].offer = after[b + 1].offer
                        /\ after[m].cur = after[n].cur /\ after[m].price > after[n].price
                        /\ Newer(after, n, m)
    BY DEF DropOnRecord
  <2>1. PICK m \in own, n \in own :
          history[m].cur = history[n].cur /\ history[m].price > history[n].price /\ Newer(history, n, m)
    BY <1>4, <1>8, <1>10
  <2>2. Newer(after, n, m)
    BY <1>9, <1>11, <2>1 DEF Newer
  <2> QED BY <1>7, <1>8, <1>9, <1>11, <2>1, <2>2
<1>13. \A n \in 1 .. b : DropOnRecord(after, n)
  <2> SUFFICES ASSUME NEW y \in 1 .. b, after[y].reason = "price_drop"
               PROVE  \E m, n \in DOMAIN after :
                        /\ after[m].offer = after[y].offer /\ after[n].offer = after[y].offer
                        /\ after[m].cur = after[n].cur /\ after[m].price > after[n].price
                        /\ Newer(after, n, m)
    BY DEF DropOnRecord
  <2>1. PICK m \in 1 .. b, n \in 1 .. b :
          /\ d.obs[m].offer = d.obs[y].offer /\ d.obs[n].offer = d.obs[y].offer
          /\ d.obs[m].cur = d.obs[n].cur /\ d.obs[m].price > d.obs[n].price
          /\ Newer(d.obs, n, m)
    BY <1>8 DEF DropsOnRecord, DropOnRecord
  <2>2. Newer(after, n, m)
    BY <1>8, <2>1 DEF Newer
  <2> QED BY <1>8, <2>1, <2>2
<1>14. DropsOnRecord(after)
  <2>1. \A n \in 1 .. b + 1 : n = b + 1 \/ n \in 1 .. b
    BY <1>8
  <2> QED BY <1>8, <1>12, <1>13, <2>1 DEF DropsOnRecord
<1> QED BY <1>5, <1>6, <1>7, <1>14 DEF after

\* Nobody is told twice by one observation more of an unmerged offer.
LEMMA TellsOnce ==
    ASSUME NEW d, d.obs \in Seq(Observation), NEW o, NEW t, NEW x \in Observation,
           x.root = o.root, x.price = o.price, x.cur = o.cur, x.told = Told(d, o, t),
           IsRoot(Into(d), o.root), ToldOnce(d.obs)
    PROVE  ToldOnce(Append(d.obs, x))
<1> DEFINE g == Append(d.obs, x)
           b == Len(d.obs)
<1>1. /\ b \in Nat /\ DOMAIN d.obs = 1 .. b /\ DOMAIN g = 1 .. b + 1 /\ g[b + 1] = x
      /\ \A n \in 1 .. b : g[n] = d.obs[n]
  OBVIOUS
<1>2. \A n \in 1 .. b : d.obs[n] \in Observation
  BY <1>1
<1>3. ASSUME NEW w \in x.told, WatchOf[w].kind = "price_below"
      PROVE  x.price # NoPrice /\ x.cur = WatchOf[w].cur
  BY <1>3 DEF Told, Matched, Matches
<1>4. ASSUME NEW w \in x.told, NEW m \in 1 .. b, d.obs[m].root = x.root, w \in d.obs[m].told
      PROVE  WatchOf[w].kind = "price_below" /\ x.price < d.obs[m].price
  <2>1. m \in Prior(d, w, o.root)
    BY <1>1, <1>4, RootOfARoot DEF Prior
  <2>2. WatchOf[w].kind = "price_below"
    BY <1>4, <2>1 DEF Told
  <2>3. ~ (d.obs[m].cur = o.cur /\ d.obs[m].price # NoPrice /\ d.obs[m].price <= o.price)
    BY <2>1, <2>2, <1>4 DEF Told
  <2>4. d.obs[m].price # NoPrice /\ d.obs[m].cur = o.cur
    BY <1>1, <1>3, <1>4, <2>2 DEF ToldOnce
  <2>5. d.obs[m].price \in Nat /\ x.price \in Nat
    BY <1>2 DEF Observation
  <2> QED BY <2>2, <2>3, <2>4, <2>5
<1> HIDE DEF g, b
<1>5. \A n \in 1 .. b + 1 : n = b + 1 \/ n \in 1 .. b
  BY <1>1
<1>6. ASSUME NEW n \in DOMAIN g, NEW w \in g[n].told, WatchOf[w].kind = "price_below"
      PROVE  g[n].price # NoPrice /\ g[n].cur = WatchOf[w].cur
  BY <1>1, <1>3, <1>5, <1>6 DEF ToldOnce
<1>7. ASSUME NEW w \in Watches, NEW m \in DOMAIN g, NEW n \in DOMAIN g,
             m < n, g[m].root = g[n].root, w \in g[m].told, w \in g[n].told
      PROVE  WatchOf[w].kind = "price_below" /\ g[n].price < g[m].price
  <2>1. m \in 1 .. b /\ g[m] = d.obs[m]
    BY <1>1, <1>5, <1>7
  <2>2. CASE n = b + 1
    BY <1>1, <1>4, <1>7, <2>1, <2>2
  <2>3. CASE n \in 1 .. b
    BY <1>1, <1>7, <2>1, <2>3 DEF ToldOnce
  <2> QED BY <1>1, <1>5, <2>2, <2>3
<1> QED BY <1>6, <1>7 DEF ToldOnce, g

\* Offers made with no pointer keep the pointers acyclic.
LEMMA NewRootsKeepAcyclic ==
    ASSUME NEW m, NEW n, Acyclic(m), DOMAIN m \subseteq DOMAIN n, NEW none, none \notin DOMAIN n,
           \A x \in DOMAIN n : IF x \in DOMAIN m THEN n[x] = m[x] ELSE n[x] = none
    PROVE  Acyclic(n)
<1> SUFFICES ASSUME NEW S \in SUBSET DOMAIN n, S # {} PROVE \E x \in S : n[x] \notin S
  BY DEF Acyclic
<1>1. CASE S \subseteq DOMAIN m
  BY <1>1 DEF Acyclic
<1>2. CASE \E x \in S : x \notin DOMAIN m
  BY <1>2
<1> QED BY <1>1, <1>2

-----------------------------------------------------------------------------
(* An import moves one row forward.                                        *)

\* The row of k is to move to version v and offer o, which exists or is made
\* for it.
Joins(d, k, v, o, offer) ==
    /\ v \in ItemRead /\ v.rev > 0 /\ v.says \in Statements
    /\ offer \in [Offers -> OfferRow]
    /\ \A p \in Offers : p # o => offer[p] = d.offer[p]
    /\ \/ offer[o] = d.offer[o] /\ Exists(d, o)
       \/ /\ o = k /\ ~Exists(d, k) /\ d.src[k] = NoSource
          /\ offer[o].status = "active" /\ offer[o].into = None
    /\ \/ d.src[k] = NoSource
       \/ d.src[k].offer = o /\ d.src[k].live /\ (v.rev > d.src[k].rev \/ v.at > d.src[k].at)

RowOf(d, k, v, o) ==
    [offer |-> o, live |-> TRUE, rev |-> Greater(v.rev, d.src[k].rev), at |-> Greater(v.at, d.src[k].at)]

\* The state in which the observation of the move is recorded, and after it.
Moving(d, b, k, v, o, offer) ==
    /\ b.src = [d.src EXCEPT ![k] = RowOf(d, k, v, o)] /\ b.offer = offer
    /\ b.obs = d.obs /\ b.cursor = d.cursor
Moved(d, e, k, v, o, offer, x) ==
    /\ e.src = [d.src EXCEPT ![k] = RowOf(d, k, v, o)] /\ e.offer = offer
    /\ e.obs = Append(d.obs, x) /\ e.cursor = d.cursor
    /\ x \in Observation /\ x.offer = o /\ x.key = k /\ x.origin # "community"

LEMMA SoundHas ==
    ASSUME NEW d, Sound(d)
    PROVE  /\ d.src \in [Keys -> SourceRow] /\ d.offer \in [Offers -> OfferRow]
           /\ d.obs \in Seq(Observation) /\ d.cursor \in 0 .. MaxChanges
           /\ d = [src |-> d.src, offer |-> d.offer, obs |-> d.obs, cursor |-> d.cursor]
           /\ Acyclic(Into(d))
BY DEF Sound, Database

LEMMA RowOfIsARow ==
    ASSUME NEW d, Sound(d), NEW k \in Keys, NEW v \in ItemRead, v.rev > 0, NEW o \in Offers
    PROVE  LET r == RowOf(d, k, v, o)
           IN  /\ r \in SourceRow /\ r.rev > 0 /\ r # NoSource
               /\ r.offer = o /\ r.live /\ r.rev = Greater(v.rev, d.src[k].rev)
               /\ r.at = Greater(v.at, d.src[k].at)
<1>1. v.rev \in Nat /\ v.at \in Nat /\ d.src[k].rev \in Nat /\ d.src[k].at \in Nat
  BY SoundHas DEF ItemRead, SourceRow
<1> DEFINE rev == Greater(v.rev, d.src[k].rev)
           at  == Greater(v.at, d.src[k].at)
<1>2. rev \in Nat /\ at \in Nat /\ rev > 0
  BY <1>1 DEF Greater
<1> HIDE DEF rev, at
<1>3. RowOf(d, k, v, o) = [offer |-> o, live |-> TRUE, rev |-> rev, at |-> at]
  BY DEF RowOf, rev, at
<1> QED BY <1>2, <1>3 DEF SourceRow, NoSource, rev, at

LEMMA MovingIsSound ==
    ASSUME NEW d, Sound(d), NEW k \in Keys, NEW v, NEW o \in Offers, NEW offer,
           Joins(d, k, v, o, offer), NEW b, Moving(d, b, k, v, o, offer)
    PROVE  /\ b.src \in [Keys -> SourceRow] /\ b.offer \in [Offers -> OfferRow]
           /\ Acyclic(Into(b))
           /\ \A p \in Offers : Exists(b, p) <=> (Exists(d, p) \/ p = o)
<1>1. b.offer \in [Offers -> OfferRow] /\ b.offer = offer
  BY DEF Joins, Moving
<1>2. b.src \in [Keys -> SourceRow]
  <2>1. RowOf(d, k, v, o) \in SourceRow
    BY RowOfIsARow DEF Joins
  <2> QED BY <2>1, SoundHas DEF Moving
<1>3. \A p \in Offers : Exists(b, p) <=> (Exists(d, p) \/ p = o)
  BY <1>1 DEF Exists, Joins
<1>4. Acyclic(Into(b))
  <2>1. DOMAIN Into(d) = {x \in Offers : Exists(d, x)} /\ DOMAIN Into(b) = {x \in Offers : Exists(b, x)}
    BY DEF Into, Exists
  <2>2. \A x \in DOMAIN Into(b) : Into(b)[x] = offer[x].into
    BY <1>1 DEF Into
  <2>3. \A x \in DOMAIN Into(d) : Into(d)[x] = d.offer[x].into
    BY DEF Into
  <2>4. \A x \in Offers : Exists(d, x) => offer[x] = d.offer[x]
    BY DEF Joins
  <2>5. ~Exists(d, o) => offer[o].into = None
    BY DEF Joins
  <2>6. \A x \in DOMAIN Into(b) :
           IF x \in DOMAIN Into(d) THEN Into(b)[x] = Into(d)[x] ELSE Into(b)[x] = None
    BY <1>3, <2>1, <2>2, <2>3, <2>4, <2>5
  <2>7. None \notin DOMAIN Into(b) /\ DOMAIN Into(d) \subseteq DOMAIN Into(b)
    BY <1>3, <2>1, ImporterAssumption
  <2> QED BY <2>6, <2>7, SoundHas, NewRootsKeepAcyclic
<1> QED BY <1>1, <1>2, <1>3, <1>4

LEMMA MovedIsSound ==
    ASSUME NEW d, Sound(d), NEW k \in Keys, NEW v, NEW o \in Offers, NEW offer,
           Joins(d, k, v, o, offer), NEW e, NEW x, Moved(d, e, k, v, o, offer, x),
           e = [src |-> e.src, offer |-> e.offer, obs |-> e.obs, cursor |-> e.cursor]
    PROVE  Sound(e)
<1> DEFINE b == [e EXCEPT !.obs = d.obs]
<1>1. Moving(d, b, k, v, o, offer)
  BY DEF Moving, Moved
<1>2. b.src = e.src /\ b.offer = e.offer
  BY Zenon
<1> HIDE DEF b
<1>3. Into(e) = Into(b)
  BY <1>2 DEF Into
<1>4. /\ e.src \in [Keys -> SourceRow] /\ e.offer \in [Offers -> OfferRow] /\ Acyclic(Into(e))
      /\ \A p \in Offers : Exists(e, p) <=> (Exists(d, p) \/ p = o)
  <2>1. /\ b.src \in [Keys -> SourceRow] /\ b.offer \in [Offers -> OfferRow] /\ Acyclic(Into(b))
        /\ \A p \in Offers : Exists(b, p) <=> (Exists(d, p) \/ p = o)
    BY <1>1, MovingIsSound
  <2>2. \A p : Exists(e, p) <=> Exists(b, p)
    BY <1>2 DEF Exists
  <2> QED BY <1>2, <1>3, <2>1, <2>2
<1>5. e \in Database
  <2>1. e.obs \in Seq(Observation) /\ e.cursor \in 0 .. MaxChanges
    BY SoundHas DEF Moved
  <2> QED BY <1>4, <2>1 DEF Database
<1>6. ASSUME NEW p \in Offers, ~Exists(e, p) PROVE e.offer[p] = NoOffer
  BY <1>4, <1>6 DEF Sound, Moved, Joins
<1>7. ASSUME NEW l \in Keys
      PROVE  \/ e.src[l] = NoSource /\ ~Exists(e, l)
             \/ e.src[l].rev > 0 /\ e.src[l].offer \in Offers /\ Exists(e, e.src[l].offer)
  <2>1. l \in Offers
    BY ImporterAssumption
  <2>2. CASE l = k
    <3>1. e.src[k] = RowOf(d, k, v, o)
      BY SoundHas DEF Moved
    <3> QED BY <1>4, <2>2, <3>1, RowOfIsARow DEF Joins
  <2>3. CASE l # k
    <3>1. e.src[l] = d.src[l]
      BY <2>3, SoundHas DEF Moved
    <3>2. l = o => Exists(d, l)
      BY <2>3 DEF Joins
    <3> QED BY <1>4, <2>1, <3>1, <3>2 DEF Sound
  <2> QED BY <2>2, <2>3
<1> QED BY <1>4, <1>5, <1>6, <1>7 DEF Sound

LEMMA MovedGrows ==
    ASSUME NEW d, Sound(d), NEW k \in Keys, NEW v, NEW o \in Offers, NEW offer,
           Joins(d, k, v, o, offer), NEW e, NEW x, Moved(d, e, k, v, o, offer, x)
    PROVE  Grows(d, e, Keys)
<1>1. Prefix(d.obs, e.obs)
  BY SoundHas DEF Moved, Prefix
<1>2. e.src[k] # NoSource /\ e.offer = offer /\ \A l \in Keys \ {k} : e.src[l] = d.src[l]
  BY SoundHas, RowOfIsARow DEF Moved, Joins
<1>3. ASSUME NEW p \in Offers
      PROVE  \/ Exists(d, p) /\ \E st \in {d.offer[p].status, "disabled"} :
                                  e.offer[p] = [d.offer[p] EXCEPT !.status = st]
             \/ ~Exists(d, p) /\ ~Exists(e, p)
             \/ p \in Keys /\ ~Exists(d, p) /\ Exists(e, p) /\ e.offer[p].into = None
                /\ (p \in Keys => d.src[p] = NoSource /\ e.src[p] # NoSource)
  <2>1. CASE offer[p] = d.offer[p]
    <3>1. [d.offer[p] EXCEPT !.status = d.offer[p].status] = d.offer[p]
      BY SoundHas DEF OfferRow
    <3>2. Exists(e, p) <=> Exists(d, p)
      BY <1>2, <2>1 DEF Exists
    <3> QED BY <1>2, <2>1, <3>1, <3>2
  <2>2. CASE offer[p] # d.offer[p]
    <3>1. p = k /\ o = k /\ ~Exists(d, k) /\ d.src[k] = NoSource
          /\ offer[p].status = "active" /\ offer[p].into = None
      BY <2>2 DEF Joins
    <3>2. Exists(e, p)
      BY <1>2, <3>1 DEF Exists
    <3> QED BY <1>2, <3>1, <3>2
  <2> QED BY <2>1, <2>2
<1> QED BY <1>1, <1>2, <1>3 DEF Grows, Moved

LEMMA MovedAdvances ==
    ASSUME NEW d, Sound(d), NEW k \in Keys, NEW v, NEW o \in Offers, NEW offer,
           Joins(d, k, v, o, offer), NEW e, NEW x, Moved(d, e, k, v, o, offer, x)
    PROVE  Advances(d, e, k, v) /\ \A l \in Keys \ {k} : Stays(d, e, l)
<1>1. \A l \in Keys : Count(e.obs, l) = IF l = k THEN Count(d.obs, l) + 1 ELSE Count(d.obs, l)
  BY SoundHas, CountAppend DEF Moved
<1>2. e.src[k] = RowOf(d, k, v, o) /\ \A l \in Keys \ {k} : e.src[l] = d.src[l]
  BY SoundHas DEF Moved
<1>3. /\ e.src[k].live /\ e.src[k].offer = o /\ e.src[k].rev = Greater(v.rev, d.src[k].rev)
      /\ e.src[k].at = Greater(v.at, d.src[k].at)
  BY <1>2, RowOfIsARow DEF Joins
<1>4. \/ d.src[k] = NoSource
      \/ d.src[k].offer = o /\ d.src[k].live /\ (v.rev > d.src[k].rev \/ v.at > d.src[k].at)
  BY DEF Joins
<1> QED BY <1>1, <1>2, <1>3, <1>4 DEF Advances, Stays

LEMMA MovedUntouched ==
    ASSUME NEW d, Sound(d), Untouched(d), NEW k \in Keys, NEW v, NEW o \in Offers, NEW offer,
           Joins(d, k, v, o, offer), NEW e, NEW x, Moved(d, e, k, v, o, offer, x),
           LinksApart(e), ToldOnce(e.obs), offer[o].origin # "none" => offer[o].status = "active"
    PROVE  Untouched(e)
<1>1. \A p \in Offers : offer[p].into = None
  BY DEF Joins, Untouched
<1>2. ASSUME NEW p \in Offers PROVE HasSource(e, p) <=> HasSource(d, p) \/ p = o
  <2>1. (\E n \in DOMAIN e.obs : e.obs[n].offer = p /\ e.obs[n].origin = "community")
        <=> (\E n \in DOMAIN d.obs : d.obs[n].offer = p /\ d.obs[n].origin = "community")
    <3> DEFINE b == Len(d.obs)
    <3>1. /\ b \in Nat /\ DOMAIN d.obs = 1 .. b /\ DOMAIN e.obs = 1 .. b + 1
          /\ \A n \in 1 .. b : e.obs[n] = d.obs[n]
          /\ e.obs[b + 1] = x
      BY SoundHas DEF Moved
    <3> HIDE DEF b
    <3>2. \A n \in 1 .. b + 1 : n \in 1 .. b \/ n = b + 1
      BY <3>1
    <3>3. \A n \in 1 .. b : n \in 1 .. b + 1
      BY <3>1
    <3>4. x.origin # "community"
      BY DEF Moved
    <3> QED BY <3>1, <3>2, <3>3, <3>4
  <2>2. (\E l \in Keys : e.src[l].offer = p /\ e.src[l].live)
        <=> (\E l \in Keys : d.src[l].offer = p /\ d.src[l].live) \/ p = o
    <3>1. e.src[k] = RowOf(d, k, v, o) /\ \A l \in Keys \ {k} : e.src[l] = d.src[l]
      BY SoundHas DEF Moved
    <3>2. e.src[k].live /\ e.src[k].offer = o
      BY <3>1, RowOfIsARow DEF Joins
    <3>3. d.src[k].offer = p /\ d.src[k].live => p = o
      BY DEF Joins, NoSource
    <3> QED BY <3>1, <3>2, <3>3
  <2> QED BY <2>1, <2>2 DEF HasSource
<1>3. ShownAsSourced(e)
  <2>1. \A p \in Offers \ {o} : e.offer[p] = d.offer[p]
    BY DEF Moved, Joins
  <2>2. e.offer[o] = offer[o]
    BY DEF Moved
  <2>3. ShownAsSourced(d)
    BY DEF Untouched
  <2> QED BY <1>2, <2>1, <2>2, <2>3 DEF ShownAsSourced
<1> QED BY <1>1, <1>3 DEF Untouched, Moved

LEMMA GrowsStill ==
    ASSUME NEW d, Sound(d), NEW made
    PROVE  Grows(d, d, made)
<1>1. Prefix(d.obs, d.obs)
  BY SoundHas DEF Prefix
<1>2. \A o \in Offers : [d.offer[o] EXCEPT !.status = d.offer[o].status] = d.offer[o]
  BY SoundHas DEF OfferRow
<1> QED BY <1>1, <1>2 DEF Grows

LEMMA GrowsOn ==
    ASSUME NEW d, NEW e, NEW f, NEW made, Sound(d), Sound(e), Sound(f), Grows(d, e, made), Grows(e, f, made)
    PROVE  Grows(d, f, made)
<1>1. Prefix(d.obs, f.obs)
  <2>1. Len(d.obs) \in Nat /\ Len(e.obs) \in Nat /\ Len(f.obs) \in Nat
    BY SoundHas
  <2> QED BY <2>1 DEF Prefix, Grows
<1>2. \A k \in Keys : d.src[k] # NoSource => f.src[k] # NoSource
  BY DEF Grows
<1>3. ASSUME NEW o \in Offers
      PROVE  \/ Exists(d, o) /\ \E st \in {d.offer[o].status, "disabled"} :
                                  f.offer[o] = [d.offer[o] EXCEPT !.status = st]
             \/ ~Exists(d, o) /\ ~Exists(f, o)
             \/ o \in made /\ ~Exists(d, o) /\ Exists(f, o) /\ f.offer[o].into = None
                /\ (o \in Keys => d.src[o] = NoSource /\ f.src[o] # NoSource)
  <2>1. d.offer[o] \in OfferRow /\ e.offer[o] \in OfferRow
    BY SoundHas
  <2>2. CASE Exists(d, o)
    <3>1. PICK s1 \in {d.offer[o].status, "disabled"} : e.offer[o] = [d.offer[o] EXCEPT !.status = s1]
      BY <2>2 DEF Grows
    <3>2. Exists(e, o) /\ e.offer[o].status = s1
      BY <2>1, <2>2, <3>1 DEF Exists, OfferRow
    <3>3. PICK s2 \in {e.offer[o].status, "disabled"} : f.offer[o] = [e.offer[o] EXCEPT !.status = s2]
      BY <3>2 DEF Grows
    <3>4. f.offer[o] = [d.offer[o] EXCEPT !.status = s2]
      BY <2>1, <3>1, <3>3 DEF OfferRow
    <3> QED BY <2>2, <3>2, <3>4
  <2>3. CASE ~Exists(d, o) /\ ~Exists(e, o)
    BY <2>3 DEF Grows
  <2>4. CASE ~Exists(d, o) /\ Exists(e, o)
    <3>1. /\ o \in made /\ e.offer[o].into = None
          /\ o \in Keys => d.src[o] = NoSource /\ e.src[o] # NoSource
      BY <2>4 DEF Grows
    <3>2. PICK s2 \in {e.offer[o].status, "disabled"} : f.offer[o] = [e.offer[o] EXCEPT !.status = s2]
      BY <2>4 DEF Grows
    <3>3. f.offer[o].into = None /\ Exists(f, o)
      BY <2>1, <2>4, <3>1, <3>2 DEF OfferRow, Exists
    <3> QED BY <2>4, <3>1, <3>3, <1>2 DEF Grows
  <2> QED BY <2>2, <2>3, <2>4
<1> QED BY <1>1, <1>2, <1>3 DEF Grows

LEMMA RowMoves ==
    ASSUME NEW d, Sound(d), DropsOnRecord(d.obs), NEW k \in Keys, NEW v, NEW o \in Offers, NEW offer,
           Joins(d, k, v, o, offer), NEW b, Moving(d, b, k, v, o, offer),
           b = [src |-> b.src, offer |-> b.offer, obs |-> b.obs, cursor |-> b.cursor],
           NEW origin \in {"import", "import_refresh"}, NEW t
    PROVE  LET e == Record(b, Crawled(k, o, RootOf(b, o), v, origin, t), t)
           IN  \E x : /\ Moved(d, e, k, v, o, offer, x) /\ DropsOnRecord(e.obs)
                      /\ e = [src |-> e.src, offer |-> e.offer, obs |-> e.obs, cursor |-> e.cursor]
                      /\ ToldOnce(d.obs) /\ offer[o].into = None => ToldOnce(e.obs)
<1> DEFINE c == Crawled(k, o, RootOf(b, o), v, origin, t)
           e == Record(b, c, t)
<1>1. /\ b.offer \in [Offers -> OfferRow] /\ Acyclic(Into(b)) /\ b.offer = offer /\ b.obs = d.obs
      /\ Exists(b, o)
  <2>1. b.offer \in [Offers -> OfferRow] /\ Acyclic(Into(b)) /\ Exists(b, o)
    BY MovingIsSound
  <2> QED BY <2>1 DEF Moving
<1>2. RootOf(b, o) \in Offers
  BY <1>1, RootExists
<1>3. c \in Observation /\ c.reason = "none" /\ c.offer = o /\ c.key = k
      /\ c.root = RootOf(b, o) /\ c.origin = origin
  <2>1. v.says.price \in Nat /\ v.says.cur \in STRING /\ v.says.list \in Nat
    BY ImporterAssumption DEF Statement, Joins
  <2>2. v.rev \in Nat /\ v.at \in Nat
    BY DEF Joins, ItemRead
  <2> QED BY <1>2, <2>1, <2>2 DEF Observation, Crawled
<1> HIDE DEF c
<1>4. b.obs \in Seq(Observation) /\ DropsOnRecord(b.obs)
  BY <1>1, SoundHas
<1>5. PICK x \in Observation :
        /\ e = [b EXCEPT !.obs = Append(b.obs, x)]
        /\ x.offer = c.offer /\ x.root = c.root /\ x.key = c.key /\ x.price = c.price
        /\ x.cur = c.cur /\ x.at = c.at /\ x.origin = c.origin
        /\ x.told = Told(b, c, t)
        /\ DropsOnRecord(Append(b.obs, x))
  BY <1>3, <1>4, RecordAppends
<1> HIDE DEF e
<1>6. /\ e.src = b.src /\ e.offer = b.offer /\ e.obs = Append(b.obs, x) /\ e.cursor = b.cursor
      /\ e = [src |-> e.src, offer |-> e.offer, obs |-> e.obs, cursor |-> e.cursor]
  BY <1>5
<1>7. Moved(d, e, k, v, o, offer, x)
  BY <1>3, <1>5, <1>6 DEF Moved, Moving
<1>8. ASSUME ToldOnce(d.obs), offer[o].into = None PROVE ToldOnce(e.obs)
  <2>1. IsRoot(Into(b), o)
    BY <1>1, <1>8, ImporterAssumption DEF IsRoot, Into, Exists
  <2>2. c.root = o
    BY <1>3, <2>1, RootOfARoot
  <2>3. ToldOnce(Append(b.obs, x))
    BY <1>1, <1>4, <1>5, <1>8, <2>1, <2>2, TellsOnce
  <2> QED BY <1>6, <2>3
<1> QED BY <1>5, <1>6, <1>7, <1>8 DEF e, c

\* One part of an item that can be used is applied.
LEMMA PartApplied ==
    ASSUME NEW d, Sound(d), DropsOnRecord(d.obs), NEW k \in Keys, NEW v \in ItemRead,
           v.rev > 0, v.says \in Statements, ~v.gone, v.says.usable, NEW t \in Nat,
           NEW e, e = ImportPart(d, v, k, t)
    PROVE  Follows(d, e) /\ Outcome(d, e, k, v) /\ \A l \in Keys \ {k} : Stays(d, e, l)
<1> DEFINE s == d.src[k]
           src(o) == [d.src EXCEPT ![k] =
                       [offer |-> o, live |-> TRUE, rev |-> IF v.rev > s.rev THEN v.rev ELSE s.rev,
                        at |-> IF v.at > s.at THEN v.at ELSE s.at]]
           b(o) == [d EXCEPT !.src = src(o)]
           row == [NoOffer EXCEPT !.link = k[2], !.origin = "import", !.born = t,
                     !.status = "active", !.review = ReviewOf(v.item, v.says)]
           offers == [d.offer EXCEPT ![k] = row]
           c   == [b(k) EXCEPT !.offer = offers]
           origin == IF v.rev > s.rev THEN "import" ELSE "import_refresh"
           found == FindByUrl(d, k[2])
<1>1. /\ d.src \in [Keys -> SourceRow] /\ d.offer \in [Offers -> OfferRow] /\ d.obs \in Seq(Observation)
      /\ d = [src |-> d.src, offer |-> d.offer, obs |-> d.obs, cursor |-> d.cursor]
      /\ Acyclic(Into(d)) /\ k \in Offers /\ None \notin Offers
  BY SoundHas, ImporterAssumption
<1>2. ASSUME NEW o
      PROVE  /\ Moving(d, b(o), k, v, o, d.offer)
             /\ b(o) = [src |-> b(o).src, offer |-> b(o).offer, obs |-> b(o).obs, cursor |-> b(o).cursor]
  <2>1. src(o) = [d.src EXCEPT ![k] = RowOf(d, k, v, o)]
    BY DEF RowOf, Greater
  <2> HIDE DEF src
  <2>2. /\ b(o).src = src(o) /\ b(o).offer = d.offer /\ b(o).obs = d.obs /\ b(o).cursor = d.cursor
        /\ b(o) = [src |-> src(o), offer |-> d.offer, obs |-> d.obs, cursor |-> d.cursor]
    BY <1>1
  <2> HIDE DEF b
  <2> QED BY <2>1, <2>2 DEF Moving
<1>3. /\ Moving(d, c, k, v, k, offers)
      /\ c = [src |-> c.src, offer |-> c.offer, obs |-> c.obs, cursor |-> c.cursor]
  <2>1. src(k) = [d.src EXCEPT ![k] = RowOf(d, k, v, k)]
    BY DEF RowOf, Greater
  <2> HIDE DEF src, offers
  <2>2. /\ c.src = src(k) /\ c.offer = offers /\ c.obs = d.obs /\ c.cursor = d.cursor
        /\ c = [src |-> src(k), offer |-> offers, obs |-> d.obs, cursor |-> d.cursor]
    <3>1. b(k) = [src |-> src(k), offer |-> d.offer, obs |-> d.obs, cursor |-> d.cursor]
      BY <1>1
    <3> HIDE DEF b
    <3> QED BY <3>1
  <2> HIDE DEF c
  <2> QED BY <2>1, <2>2 DEF Moving
<1>4. /\ s # NoSource /\ ~(s.live /\ Advanced(s, v)) => e = d
      /\ s # NoSource /\ s.live /\ Advanced(s, v) =>
            e = Record(b(s.offer), Crawled(k, s.offer, RootOf(b(s.offer), s.offer), v, origin, t), t)
      /\ s = NoSource /\ found # None =>
            e = Record(b(found), Crawled(k, found, RootOf(b(found), found), v, origin, t), t)
      /\ s = NoSource /\ found = None =>
            e = Record(c, Crawled(k, k, RootOf(c, k), v, origin, t), t)
  BY Zenon DEF ImportPart
<1>5. row \in OfferRow
  <2>1. k[2] \in {l[2] : l \in Keys}
    OBVIOUS
  <2>2. ReviewOf(v.item, v.says) \in {"auto_approved", "pending"}
    BY DEF ReviewOf
  <2> QED BY <2>1, <2>2 DEF OfferRow, NoOffer
<1>6. row.status = "active" /\ row.into = None /\ row.origin = "import" /\ row.link = k[2]
  BY DEF NoOffer
<1>7. origin \in {"import", "import_refresh"}
  OBVIOUS
<1> HIDE DEF b, c, row, offers, origin, found, s
<1>8. CASE s # NoSource /\ ~(s.live /\ Advanced(s, v))
  <2>1. e = d
    BY <1>4, <1>8
  <2>2. Follows(d, e)
    BY <2>1, GrowsStill DEF Follows
  <2>3. v.rev \in Nat /\ s.rev \in Nat
    BY <1>1 DEF ItemRead, SourceRow, s
  <2>4. s.live => v.rev <= s.rev
    BY <1>8, <2>3 DEF Advanced
  <2> QED BY <1>8, <2>1, <2>2, <2>4 DEF Outcome, Stays, s
<1>9. ASSUME NEW o \in Offers, NEW f, NEW offer, Moving(d, f, k, v, o, offer), Joins(d, k, v, o, offer),
             f = [src |-> f.src, offer |-> f.offer, obs |-> f.obs, cursor |-> f.cursor],
             e = Record(f, Crawled(k, o, RootOf(f, o), v, origin, t), t),
             Untouched(d) => /\ offer[o].into = None
                             /\ offer[o].origin # "none" => offer[o].status = "active"
                             /\ \A p, q \in Offers :
                                  p # q /\ offer[p].status = "active" /\ offer[q].status = "active"
                                  => offer[p].link # offer[q].link
      PROVE  Follows(d, e) /\ Outcome(d, e, k, v) /\ \A l \in Keys \ {k} : Stays(d, e, l)
  <2>1. PICK x :
          /\ Moved(d, e, k, v, o, offer, x) /\ DropsOnRecord(e.obs)
          /\ e = [src |-> e.src, offer |-> e.offer, obs |-> e.obs, cursor |-> e.cursor]
          /\ ToldOnce(d.obs) /\ offer[o].into = None => ToldOnce(e.obs)
    BY <1>7, <1>9, RowMoves
  <2>2. Sound(e)
    BY <1>9, <2>1, MovedIsSound
  <2>3. Grows(d, e, Keys)
    BY <1>9, <2>1, MovedGrows
  <2>4. Advances(d, e, k, v) /\ \A l \in Keys \ {k} : Stays(d, e, l)
    BY <1>9, <2>1, MovedAdvances
  <2>5. Untouched(d) => Untouched(e)
    <3>1. Untouched(d) => LinksApart(e)
      BY <1>9, <2>1 DEF Moved, LinksApart
    <3>2. Untouched(d) => ToldOnce(d.obs)
      BY DEF Untouched
    <3> QED BY <1>9, <2>1, <3>1, <3>2, MovedUntouched
  <2>6. e.cursor = d.cursor
    BY <2>1 DEF Moved
  <2> QED BY <2>1, <2>2, <2>3, <2>4, <2>5, <2>6 DEF Follows, Outcome
<1>10. CASE s # NoSource /\ s.live /\ Advanced(s, v)
  <2>1. s.offer \in Offers /\ Exists(d, s.offer)
    BY <1>10 DEF Sound, s
  <2>2. Joins(d, k, v, s.offer, d.offer)
    BY <1>1, <1>10, <2>1 DEF Joins, Advanced, s
  <2>3. ASSUME Untouched(d), d.offer[s.offer].origin # "none" PROVE d.offer[s.offer].status = "active"
    <3>1. HasSource(d, s.offer)
      BY <1>10 DEF HasSource, s
    <3>2. d.offer[s.offer].origin \in {"none", "community", "import"}
      BY <1>1, <2>1 DEF OfferRow
    <3> QED BY <2>1, <2>3, <3>1, <3>2 DEF Untouched, ShownAsSourced
  <2>4. Untouched(d) => d.offer[s.offer].into = None /\ LinksApart(d)
    BY <2>1 DEF Untouched
  <2>5. e = Record(b(s.offer), Crawled(k, s.offer, RootOf(b(s.offer), s.offer), v, origin, t), t)
    BY <1>4, <1>10
  <2> QED BY <1>2, <1>9, <2>1, <2>2, <2>3, <2>4, <2>5 DEF LinksApart
<1>11. CASE s = NoSource /\ found # None
  <2>1. PICK o \in Offers : d.offer[o].status = "active" /\ found = RootOf(d, o)
    BY <1>1, <1>11, FindByUrlFinds DEF found
  <2>2. found \in Offers /\ Exists(d, found)
    BY <1>1, <2>1, RootExists DEF Exists
  <2>3. Joins(d, k, v, found, d.offer)
    BY <1>1, <1>11, <2>2 DEF Joins, s
  <2>4. ASSUME Untouched(d) PROVE d.offer[found].status = "active" /\ d.offer[found].into = None /\ LinksApart(d)
    <3>1. IsRoot(Into(d), o)
      BY <1>1, <2>1, <2>4 DEF IsRoot, Into, Untouched
    <3>2. found = o
      BY <2>1, <3>1, RootOfARoot
    <3> QED BY <2>1, <2>4, <3>2 DEF Untouched
  <2>5. e = Record(b(found), Crawled(k, found, RootOf(b(found), found), v, origin, t), t)
    BY <1>4, <1>11
  <2> QED BY <1>2, <1>9, <2>2, <2>3, <2>4, <2>5 DEF LinksApart
<1>12. CASE s = NoSource /\ found = None
  <2>1. offers[k] = row /\ offers \in [Offers -> OfferRow] /\ \A p \in Offers : p # k => offers[p] = d.offer[p]
    BY <1>1, <1>5 DEF offers
  <2>2. ~Exists(d, k)
    BY <1>12 DEF Sound, s, NoSource
  <2>3. Joins(d, k, v, k, offers)
    BY <1>6, <1>12, <2>1, <2>2 DEF Joins, s
  <2>4. \A p \in Offers : d.offer[p].status = "active" => d.offer[p].link # k[2]
    BY <1>1, <1>12, FindByUrlFinds DEF found
  <2>5. Untouched(d) => LinksApart(d)
    BY DEF Untouched
  <2>6. e = Record(c, Crawled(k, k, RootOf(c, k), v, origin, t), t)
    BY <1>4, <1>12
  <2>7. Untouched(d) => \A p, q \in Offers :
            p # q /\ offers[p].status = "active" /\ offers[q].status = "active"
            => offers[p].link # offers[q].link
    BY <1>6, <2>1, <2>4, <2>5 DEF LinksApart
  <2> QED BY <1>1, <1>3, <1>6, <1>9, <2>1, <2>3, <2>6, <2>7
<1> QED BY <1>8, <1>10, <1>11, <1>12

-----------------------------------------------------------------------------
(* An item is applied, or removed.                                         *)

LEMMA FollowsOn ==
    ASSUME NEW d, Sound(d), NEW e, Follows(d, e), NEW f, Follows(e, f)
    PROVE  Follows(d, f)
BY GrowsOn DEF Follows

LEMMA OutcomeCarries ==
    ASSUME NEW d, NEW e, NEW f, NEW k, NEW v
    PROVE  /\ Stays(d, e, k) /\ Stays(e, f, k) => Stays(d, f, k)
           /\ Stays(d, e, k) /\ Outcome(e, f, k, v) => Outcome(d, f, k, v)
           /\ Outcome(d, e, k, v) /\ Stays(e, f, k) => Outcome(d, f, k, v)
BY DEF Stays, Outcome, Advances, Withdraws

LEMMA ItemRemoved ==
    ASSUME NEW d, Sound(d), DropsOnRecord(d.obs), NEW i \in Items, NEW e, e = RemoveItem(d, i)
    PROVE  /\ Follows(d, e)
           /\ \A k \in Keys : IF k[1] = i THEN Withdraws(d, e, k) \/ (Stays(d, e, k) /\ ~d.src[k].live)
                              ELSE Stays(d, e, k)
<1> DEFINE rows == {k \in Keys : k[1] = i /\ d.src[k].live}
           src  == [k \in Keys |-> IF k \in rows THEN [d.src[k] EXCEPT !.live = FALSE] ELSE d.src[k]]
           gone == [d EXCEPT !.src = src]
           bare == {o \in {d.src[k].offer : k \in rows} :
                       d.offer[o].origin = "import" /\ ~HasSource(gone, o)}
           offer == [o \in Offers |->
                       IF o \in bare THEN [d.offer[o] EXCEPT !.status = "disabled"] ELSE d.offer[o]]
<1>1. /\ d.src \in [Keys -> SourceRow] /\ d.offer \in [Offers -> OfferRow] /\ d.obs \in Seq(Observation)
      /\ d = [src |-> d.src, offer |-> d.offer, obs |-> d.obs, cursor |-> d.cursor]
      /\ d.cursor \in 0 .. MaxChanges
  BY SoundHas
<1>2. e = [gone EXCEPT !.offer = offer]
  BY Zenon DEF RemoveItem
<1>3. /\ e.src = src /\ e.offer = offer /\ e.obs = d.obs /\ e.cursor = d.cursor
      /\ gone.src = src /\ gone.obs = d.obs
      /\ e = [src |-> src, offer |-> offer, obs |-> d.obs, cursor |-> d.cursor]
  <2> HIDE DEF src, offer
  <2>1. gone = [src |-> src, offer |-> d.offer, obs |-> d.obs, cursor |-> d.cursor]
    BY <1>1
  <2>2. gone.src = src /\ gone.obs = d.obs
    BY <2>1
  <2> HIDE DEF gone
  <2>3. e = [src |-> src, offer |-> offer, obs |-> d.obs, cursor |-> d.cursor]
    BY <1>2, <2>1
  <2> QED BY <2>2, <2>3
<1>4. \A o : HasSource(e, o) <=> HasSource(gone, o)
  <2> HIDE DEF src, gone, offer
  <2> QED BY <1>3 DEF HasSource
<1>5. /\ bare \subseteq Offers
      /\ \A o \in bare : Exists(d, o) /\ d.offer[o].origin = "import" /\ ~HasSource(gone, o)
  <2>1. \A k \in rows : d.src[k].offer \in Offers /\ Exists(d, d.src[k].offer)
    BY DEF Sound, NoSource
  <2> HIDE DEF rows, gone
  <2> QED BY <2>1
<1>6. \A k \in Keys : IF k \in rows THEN e.src[k] = [d.src[k] EXCEPT !.live = FALSE]
                      ELSE e.src[k] = d.src[k]
  <2> HIDE DEF rows, gone, offer
  <2> QED BY <1>3
<1>7. \A o \in Offers : IF o \in bare THEN e.offer[o] = [d.offer[o] EXCEPT !.status = "disabled"]
                        ELSE e.offer[o] = d.offer[o]
  <2> HIDE DEF rows, gone, bare
  <2> QED BY <1>3
<1>8. \A k \in Keys : IF k[1] = i THEN Withdraws(d, e, k) \/ (Stays(d, e, k) /\ ~d.src[k].live)
                      ELSE Stays(d, e, k)
  <2>1. \A k : Count(e.obs, k) = Count(d.obs, k)
    <3> HIDE DEF rows, src, gone, bare, offer
    <3> QED BY <1>3
  <2>2. \A k : k \in rows <=> k \in Keys /\ k[1] = i /\ d.src[k].live
    OBVIOUS
  <2> HIDE DEF rows, src, gone, bare, offer
  <2> QED BY <1>6, <2>1, <2>2 DEF Withdraws, Stays
<1>9. \A k \in Keys : d.src[k] \in SourceRow
  BY <1>1
<1>10. \A o \in Offers : d.offer[o] \in OfferRow
  BY <1>1
<1>11. src \in [Keys -> SourceRow] /\ offer \in [Offers -> OfferRow]
  <2>1. \A r \in SourceRow : [r EXCEPT !.live = FALSE] \in SourceRow
    BY DEF SourceRow
  <2>2. \A r \in OfferRow : [r EXCEPT !.status = "disabled"] \in OfferRow
    BY DEF OfferRow
  <2> HIDE DEF rows, bare
  <2> QED BY <1>9, <1>10, <2>1, <2>2
<1>12. \A o \in Offers : /\ Exists(e, o) <=> Exists(d, o)
                         /\ e.offer[o].into = d.offer[o].into /\ e.offer[o].origin = d.offer[o].origin
                         /\ e.offer[o].link = d.offer[o].link
  <2>1. \A r \in OfferRow : LET q == [r EXCEPT !.status = "disabled"]
                            IN  /\ q.status = "disabled" /\ q.into = r.into /\ q.origin = r.origin
                                /\ q.link = r.link
    BY DEF OfferRow
  <2> HIDE DEF rows, src, gone, bare, offer
  <2> QED BY <1>5, <1>7, <1>10, <2>1 DEF Exists
<1>13. \A k \in Keys : /\ e.src[k].offer = d.src[k].offer /\ e.src[k].rev = d.src[k].rev
                       /\ d.src[k] = NoSource <=> e.src[k] = NoSource
                       /\ e.src[k].live => d.src[k].live
  <2>1. \A r \in SourceRow : LET q == [r EXCEPT !.live = FALSE]
                             IN  q.offer = r.offer /\ q.rev = r.rev /\ ~q.live
    BY DEF SourceRow
  <2>2. \A k \in rows : d.src[k].rev > 0 /\ d.src[k].live
    BY DEF Sound, NoSource
  <2>3. ~NoSource.live /\ NoSource.rev = 0
    BY DEF NoSource
  <2> HIDE DEF rows, src, gone, bare, offer
  <2> SUFFICES ASSUME NEW k \in Keys
               PROVE  /\ e.src[k].offer = d.src[k].offer /\ e.src[k].rev = d.src[k].rev
                      /\ d.src[k] = NoSource <=> e.src[k] = NoSource
                      /\ e.src[k].live => d.src[k].live
    OBVIOUS
  <2>4. CASE k \in rows
    <3> DEFINE q == [d.src[k] EXCEPT !.live = FALSE]
    <3>1. e.src[k] = q
      BY <1>6, <2>4
    <3>2. q.offer = d.src[k].offer /\ q.rev = d.src[k].rev /\ ~q.live
      BY <1>9, <2>1
    <3> HIDE DEF q
    <3> QED BY <2>2, <2>3, <2>4, <3>1, <3>2
  <2> QED BY <1>6, <2>4
<1> HIDE DEF rows, src, gone, bare, offer
<1>14. Sound(e)
  <2>1. e \in Database
    BY <1>1, <1>3, <1>11 DEF Database
  <2>2. Into(e) = Into(d)
    <3>1. \A o \in Offers : e.offer[o].status # "absent" <=> d.offer[o].status # "absent"
      BY <1>12 DEF Exists
    <3> QED BY <1>12, <3>1 DEF Into
  <2>3. ASSUME NEW o \in Offers, ~Exists(e, o) PROVE e.offer[o] = NoOffer
    BY <1>5, <1>7, <1>12, <2>3 DEF Sound
  <2>4. ASSUME NEW k \in Keys
        PROVE  \/ e.src[k] = NoSource /\ ~Exists(e, k)
               \/ e.src[k].rev > 0 /\ e.src[k].offer \in Offers /\ Exists(e, e.src[k].offer)
    BY <1>12, <1>13, ImporterAssumption DEF Sound
  <2> QED BY <2>1, <2>2, <2>3, <2>4 DEF Sound
<1>15. Grows(d, e, Keys)
  <2>1. \A o \in Offers : [d.offer[o] EXCEPT !.status = d.offer[o].status] = d.offer[o]
    BY <1>10 DEF OfferRow
  <2>2. Prefix(d.obs, e.obs)
    BY <1>1, <1>3 DEF Prefix
  <2>3. \A o \in Offers :
          \/ Exists(d, o) /\ \E st \in {d.offer[o].status, "disabled"} :
                               e.offer[o] = [d.offer[o] EXCEPT !.status = st]
          \/ ~Exists(d, o) /\ ~Exists(e, o)
    BY <1>5, <1>7, <1>12, <2>1
  <2> QED BY <1>3, <1>13, <2>2, <2>3 DEF Grows
<1>16. ASSUME Untouched(d) PROVE Untouched(e)
  <2>1. LinksApart(e) /\ ToldOnce(e.obs) /\ \A o \in Offers : e.offer[o].into = None
    <3>1. \A o \in Offers : e.offer[o].status = "active" => d.offer[o].status = "active"
      BY <1>5, <1>7, <1>10 DEF OfferRow
    <3> QED BY <1>3, <1>12, <1>16, <3>1 DEF Untouched, LinksApart
  <2>2. ASSUME NEW o \in Offers, e.offer[o].origin = "community" PROVE e.offer[o].status = "active"
    <3>1. o \notin bare
      BY <1>5, <1>12, <2>2
    <3> QED BY <1>7, <1>12, <1>16, <2>2, <3>1 DEF Untouched, ShownAsSourced
  <2>3. ASSUME NEW o \in Offers, e.offer[o].origin = "import"
        PROVE  e.offer[o].status = "active" <=> HasSource(e, o)
    <3>1. d.offer[o].status = "active" <=> HasSource(d, o)
      BY <1>12, <1>16, <2>3 DEF Untouched, ShownAsSourced
    <3>2. CASE o \in bare
      <4>1. e.offer[o].status = "disabled"
        BY <1>7, <1>10, <3>2 DEF OfferRow
      <4> QED BY <1>4, <1>5, <3>2, <4>1
    <3>3. CASE o \notin bare /\ \E k \in rows : d.src[k].offer = o
      <4>1. HasSource(d, o)
        BY <3>3 DEF HasSource, rows
      <4>2. HasSource(e, o)
        BY <1>4, <1>12, <2>3, <3>3 DEF bare
      <4> QED BY <1>7, <3>1, <3>3, <4>1, <4>2
    <3>4. CASE o \notin bare /\ ~ \E k \in rows : d.src[k].offer = o
      <4>1. HasSource(e, o) <=> HasSource(d, o)
        BY <1>3, <1>6, <1>13, <3>4, ZenonT(30) DEF HasSource
      <4> QED BY <1>7, <3>1, <3>4, <4>1
    <3> QED BY <3>2, <3>3, <3>4
  <2> QED BY <2>1, <2>2, <2>3 DEF Untouched, ShownAsSourced
<1>17. DropsOnRecord(e.obs)
  BY <1>3
<1> QED BY <1>3, <1>8, <1>14, <1>15, <1>16, <1>17 DEF Follows

LEMMA CandidatesDiffer ==
    ASSUME NEW i \in Items
    PROVE  /\ Len(StatedLinks[i]) \in Nat
           /\ Candidates(i) \subseteq 1 .. Len(StatedLinks[i])
           /\ \A m, n \in Candidates(i) : m # n => Key(i, m) # Key(i, n)
           /\ \A k \in Keys : k[1] = i => \E n \in Candidates(i) : k = Key(i, n)
           /\ \A n \in Candidates(i) : Key(i, n) \in Keys /\ Key(i, n)[1] = i
<1>1. StatedLinks[i] \in Seq(STRING)
  BY ImporterAssumption
<1>2. Len(StatedLinks[i]) \in Nat /\ Candidates(i) \subseteq 1 .. Len(StatedLinks[i])
  BY <1>1 DEF Candidates
<1>3. ASSUME NEW m \in Candidates(i), NEW n \in Candidates(i), m < n
      PROVE  StatedLinks[i][m] # StatedLinks[i][n]
  BY <1>2, <1>3, SMTT(30) DEF Candidates
<1>4. ASSUME NEW m \in Candidates(i), NEW n \in Candidates(i), m # n PROVE Key(i, m) # Key(i, n)
  <2>1. m < n \/ n < m
    BY <1>2, <1>4
  <2>2. StatedLinks[i][m] # StatedLinks[i][n]
    BY <1>3, <2>1
  <2> QED BY <2>2 DEF Key
<1>5. \A k \in Keys : k[1] = i => \E n \in Candidates(i) : k = Key(i, n)
  BY KeysOfItems DEF KeysOf
<1>6. \A n \in Candidates(i) : Key(i, n) \in Keys /\ Key(i, n)[1] = i
  BY DEF Keys, KeysOf, Key
<1> QED BY <1>2, <1>4, <1>5, <1>6

LEMMA ItemApplied ==
    ASSUME NEW d, Sound(d), DropsOnRecord(d.obs), NEW v \in ItemRead, v.rev > 0, v.says \in Statements,
           NEW t \in Nat, NEW e, e = ImportItem(d, v, t)
    PROVE  /\ Follows(d, e)
           /\ \A k \in Keys : IF k[1] = v.item THEN Outcome(d, e, k, v) ELSE Stays(d, e, k)
<1>1. v.item \in Items /\ v.gone \in BOOLEAN
  BY DEF ItemRead
<1>2. CASE v.gone
  <2>1. e = RemoveItem(d, v.item)
    BY <1>2 DEF ImportItem
  <2> QED BY <1>1, <1>2, <2>1, ItemRemoved DEF Outcome
<1>3. CASE ~v.gone /\ ~v.says.usable
  <2>1. e = d
    BY <1>3 DEF ImportItem
  <2> QED BY <1>3, <2>1, GrowsStill DEF Follows, Outcome, Stays
<1>4. CASE ~v.gone /\ v.says.usable
  <2> DEFINE last == Len(StatedLinks[v.item])
             key(n) == Key(v.item, n)
             Cs == Candidates(v.item)
             Done(f, n) ==
               /\ Follows(d, f)
               /\ \A k \in Keys : IF \E m \in Cs : m <= n /\ k = key(m)
                                  THEN Outcome(d, f, k, v) ELSE Stays(d, f, k)
  <2>1. /\ last \in Nat /\ Cs \subseteq 1 .. last
        /\ \A m, n \in Cs : m # n => key(m) # key(n)
        /\ \A k \in Keys : k[1] = v.item => \E n \in Cs : k = key(n)
        /\ \A n \in Cs : key(n) \in Keys /\ key(n)[1] = v.item
    BY <1>1, CandidatesDiffer
  <2>2. PICK f :
          /\ f[0] = d /\ e = f[last]
          /\ \A n \in 1 .. last :
               f[n] = IF n \in Cs THEN ImportPart(f[n - 1], v, key(n), t) ELSE f[n - 1]
    <3>1. last \in Nat /\ last = Len(StatedLinks[v.item])
      BY <2>1
    <3> HIDE DEF last
    <3> QED BY <1>4, <3>1, ItemIsARun
  <2> HIDE DEF last, key, Cs
  <2> \A m \in Cs : m \in Nat /\ 1 <= m /\ m <= last
    BY <2>1
  <2> DEFINE T == {n \in 0 .. last : Done(f[n], n)}
  <2>3. 0 \in T
    <3>1. ~ \E m \in Cs : m <= 0
      BY <2>1
    <3>2. Follows(d, d) /\ \A k \in Keys : Stays(d, d, k)
      BY GrowsStill DEF Follows, Stays
    <3> QED BY <2>1, <2>2, <3>1, <3>2
  <2>4. ASSUME NEW n \in 0 .. last, n \in T, n < last PROVE n + 1 \in T
    <3> DEFINE g == f[n]
               h == f[n + 1]
    <3>1. Done(g, n)
      BY <2>4
    <3>2. h = IF n + 1 \in Cs THEN ImportPart(g, v, key(n + 1), t) ELSE g
      BY <2>1, <2>2, <2>4
    <3>3. Sound(g) /\ DropsOnRecord(g.obs)
      BY <3>1 DEF Follows
    <3> HIDE DEF g, h
    <3>4. CASE n + 1 \notin Cs
      <4>1. \A m \in Cs : m <= n + 1 <=> m <= n
        <5>1. ASSUME NEW m \in Cs, m <= n + 1, m # n + 1 PROVE m <= n
          BY <2>4, <5>1
        <5>2. \A m \in Cs : m # n + 1
          BY <3>4
        <5>3. \A m \in Cs : m <= n => m <= n + 1
          BY <2>4
        <5> QED BY <5>1, <5>2, <5>3
      <4>2. Done(h, n + 1)
        BY <3>1, <3>2, <3>4, <4>1
      <4> QED BY <2>1, <2>4, <4>2 DEF h
    <3>5. CASE n + 1 \in Cs
      <4>1. /\ Follows(g, h) /\ Outcome(g, h, key(n + 1), v)
            /\ \A l \in Keys \ {key(n + 1)} : Stays(g, h, l)
        BY <1>4, <2>1, <3>2, <3>3, <3>5, PartApplied
      <4>2. Follows(d, h)
        BY <3>1, <4>1, FollowsOn
      <4>3. \A m \in Cs : m <= n + 1 <=> (m <= n \/ m = n + 1)
        BY <2>1, <2>4
      <4>4. ~ \E m \in Cs : m <= n /\ key(n + 1) = key(m)
        BY <2>1, <2>4, <3>5
      <4>5. ASSUME NEW k \in Keys
            PROVE  IF \E m \in Cs : m <= n + 1 /\ k = key(m) THEN Outcome(d, h, k, v) ELSE Stays(d, h, k)
        <5>1. CASE k = key(n + 1)
          <6>1. Stays(d, g, k)
            BY <3>1, <4>4, <5>1
          <6> QED BY <3>5, <4>1, <4>3, <5>1, <6>1, OutcomeCarries
        <5>2. CASE k # key(n + 1)
          <6>1. Stays(g, h, k)
            BY <4>1, <5>2
          <6>2. (\E m \in Cs : m <= n + 1 /\ k = key(m)) <=> (\E m \in Cs : m <= n /\ k = key(m))
            BY <4>3, <5>2
          <6> QED BY <3>1, <6>1, <6>2, OutcomeCarries
        <5> QED BY <5>1, <5>2
      <4>6. Done(h, n + 1)
        BY <4>2, <4>5
      <4> QED BY <2>1, <2>4, <4>6 DEF h
    <3> QED BY <3>4, <3>5
  <2>5. Done(e, last)
    <3> HIDE DEF T
    <3>1. last \in T
      BY <2>1, <2>3, <2>4, UpTo
    <3> QED BY <2>2, <3>1 DEF T
  <2>6. \A k \in Keys : k[1] = v.item <=> \E m \in Cs : m <= last /\ k = key(m)
    BY <2>1
  <2> QED BY <2>5, <2>6
<1> QED BY <1>1, <1>2, <1>3, <1>4

\* A page: each item once, in the order of their changes.
OnePage(page) ==
    /\ page \subseteq ItemRead
    /\ \A v \in page : v.rev > 0 /\ v.says \in Statements /\ v.change > 0
    /\ \A v, w \in page : v # w => v.item # w.item /\ v.change # w.change

LEMMA PageApplied ==
    ASSUME NEW d, Sound(d), DropsOnRecord(d.obs), NEW page, OnePage(page), NEW t \in Nat,
           NEW e, e = ImportPage(d, page, t)
    PROVE  /\ Follows(d, e)
           /\ \A k \in Keys : \A v \in page : v.item = k[1] => Outcome(d, e, k, v)
           /\ \A k \in Keys : (\A v \in page : v.item # k[1]) => Stays(d, e, k)
<1> DEFINE Done(f, n) ==
             /\ Follows(d, f)
             /\ \A k \in Keys : \A v \in page :
                  v.item = k[1] => IF v.change <= n THEN Outcome(d, f, k, v) ELSE Stays(d, f, k)
             /\ \A k \in Keys : (\A v \in page : v.item # k[1]) => Stays(d, f, k)
<1>1. MaxChanges \in Nat
  BY ImporterAssumption
<1>2. PICK f :
        /\ f[0] = d /\ e = f[MaxChanges]
        /\ \A n \in 1 .. MaxChanges :
             f[n] = IF \E v \in page : v.change = n
                    THEN ImportItem(f[n - 1], CHOOSE v \in page : v.change = n, t)
                    ELSE f[n - 1]
  BY <1>1, PageIsARun
<1>3. \A v \in page : v \in ItemRead /\ v.change \in 1 .. MaxChanges
  <2>1. \A v \in page : v.change \in 0 .. MaxChanges /\ v.change > 0
    BY DEF OnePage, ItemRead
  <2> QED BY <1>1, <2>1 DEF OnePage
<1> DEFINE T == {n \in 0 .. MaxChanges : Done(f[n], n)}
<1>4. 0 \in T
  <2>1. \A v \in page : ~(v.change <= 0)
    BY <1>3
  <2>2. Follows(d, d) /\ \A k \in Keys : Stays(d, d, k)
    BY GrowsStill DEF Follows, Stays
  <2> QED BY <1>1, <1>2, <2>1, <2>2
<1>5. ASSUME NEW n \in 0 .. MaxChanges, n \in T, n < MaxChanges PROVE n + 1 \in T
  <2> DEFINE g == f[n]
             h == f[n + 1]
  <2>1. Done(g, n)
    BY <1>5
  <2>2. h = IF \E v \in page : v.change = n + 1
            THEN ImportItem(g, CHOOSE v \in page : v.change = n + 1, t) ELSE g
    BY <1>1, <1>2, <1>5
  <2>3. Sound(g) /\ DropsOnRecord(g.obs)
    BY <2>1 DEF Follows
  <2>4. \A v \in page : /\ v.change <= n + 1 <=> (v.change <= n \/ v.change = n + 1)
                        /\ v.change = n + 1 => ~(v.change <= n)
    <3>1. \A c \in 1 .. MaxChanges : /\ c <= n + 1 <=> (c <= n \/ c = n + 1)
                                     /\ c = n + 1 => ~(c <= n)
      BY <1>1, <1>5
    <3> QED BY <1>3, <3>1
  <2>5. n + 1 \in 0 .. MaxChanges
    BY <1>1, <1>5
  <2> HIDE DEF g, h
  <2>6. CASE ~ \E v \in page : v.change = n + 1
    <3>1. Done(h, n + 1)
      BY <2>1, <2>2, <2>4, <2>6
    <3> QED BY <2>5, <3>1 DEF h
  <2>7. CASE \E v \in page : v.change = n + 1
    <3>1. PICK w \in page : w.change = n + 1 /\ h = ImportItem(g, w, t)
      <4> DEFINE w == CHOOSE v \in page : v.change = n + 1
      <4>1. w \in page /\ w.change = n + 1
        BY <2>7
      <4>2. h = ImportItem(g, w, t)
        BY <2>2, <2>7
      <4> HIDE DEF w
      <4> QED BY <4>1, <4>2
    <3>2. /\ Follows(g, h)
          /\ \A k \in Keys : IF k[1] = w.item THEN Outcome(g, h, k, w) ELSE Stays(g, h, k)
      <4>1. w \in ItemRead /\ w.rev > 0 /\ w.says \in Statements
        BY <1>3 DEF OnePage
      <4> QED BY <2>3, <3>1, <4>1, ItemApplied
    <3>3. Follows(d, h)
      BY <2>1, <3>2, FollowsOn
    <3>4. ASSUME NEW k \in Keys, NEW v \in page, v.item = k[1]
          PROVE  IF v.change <= n + 1 THEN Outcome(d, h, k, v) ELSE Stays(d, h, k)
      <4>1. CASE v = w
        <5>1. Stays(d, g, k)
          BY <2>1, <2>4, <3>1, <3>4, <4>1
        <5>2. Outcome(g, h, k, v)
          BY <3>2, <3>4, <4>1
        <5> QED BY <2>4, <3>1, <4>1, <5>1, <5>2, OutcomeCarries
      <4>2. CASE v # w
        <5>1. v.item # w.item /\ v.change # n + 1
          BY <3>1, <4>2 DEF OnePage
        <5>2. Stays(g, h, k)
          BY <3>2, <3>4, <5>1
        <5> QED BY <2>1, <2>4, <3>4, <5>1, <5>2, OutcomeCarries
      <4> QED BY <4>1, <4>2
    <3>5. ASSUME NEW k \in Keys, \A v \in page : v.item # k[1] PROVE Stays(d, h, k)
      BY <2>1, <3>1, <3>2, <3>5, OutcomeCarries
    <3>6. Done(h, n + 1)
      BY <3>3, <3>4, <3>5
    <3> QED BY <2>5, <3>6 DEF h
  <2> QED BY <2>6, <2>7
<1>6. Done(e, MaxChanges)
  <2> HIDE DEF T
  <2>1. MaxChanges \in T
    BY <1>1, <1>4, <1>5, UpTo
  <2> QED BY <1>2, <2>1 DEF T
<1>7. \A v \in page : v.change <= MaxChanges
  BY <1>1, <1>3
<1> QED BY <1>6, <1>7

-----------------------------------------------------------------------------
(* A transaction commits over what has been committed since it read.       *)

LEMMA SourceColumns ==
    ASSUME NEW n \in [Keys -> SourceRow], NEW s \in [Keys -> SourceRow], NEW d \in [Keys -> SourceRow]
    PROVE  /\ Sources(n, s, d) \in [Keys -> SourceRow]
           /\ \A k \in Keys :
                LET r == Sources(n, s, d)[k]
                IN  /\ r.offer = Changed(n[k].offer, s[k].offer, d[k].offer)
                    /\ r.rev \in {n[k].rev, d[k].rev} /\ r.at \in {n[k].at, d[k].at}
                    /\ r.live = Changed(n[k].live, s[k].live, d[k].live)
                    /\ n[k] = s[k] => r = d[k]
                    /\ s[k] = d[k] => r = n[k]
<1> DEFINE bumped(k) == n[k].rev # s[k].rev \/ n[k].at # s[k].at
           row(k) == [offer |-> Changed(n[k].offer, s[k].offer, d[k].offer),
                      rev   |-> IF bumped(k) THEN n[k].rev ELSE d[k].rev,
                      at    |-> IF bumped(k) THEN n[k].at ELSE d[k].at,
                      live  |-> Changed(n[k].live, s[k].live, d[k].live)]
<1>1. Sources(n, s, d) = [k \in Keys |-> row(k)]
  BY DEF Sources
<1>2. ASSUME NEW k \in Keys
      PROVE  /\ row(k) \in SourceRow
             /\ row(k).offer = Changed(n[k].offer, s[k].offer, d[k].offer)
             /\ row(k).rev \in {n[k].rev, d[k].rev} /\ row(k).at \in {n[k].at, d[k].at}
             /\ row(k).live = Changed(n[k].live, s[k].live, d[k].live)
             /\ n[k] = s[k] => row(k) = d[k]
             /\ s[k] = d[k] => row(k) = n[k]
  <2>1. n[k] \in SourceRow /\ s[k] \in SourceRow /\ d[k] \in SourceRow
    OBVIOUS
  <2>2. row(k) \in SourceRow
    BY <2>1 DEF Changed, SourceRow
  <2>3. \A r, q \in SourceRow :
          r.offer = q.offer /\ r.rev = q.rev /\ r.at = q.at /\ r.live = q.live => r = q
    BY DEF SourceRow
  <2>4. CASE n[k] = s[k]
    <3>1. row(k).offer = d[k].offer /\ row(k).rev = d[k].rev /\ row(k).at = d[k].at /\ row(k).live = d[k].live
      BY <2>4 DEF Changed
    <3> HIDE DEF row
    <3>2. row(k) = d[k]
      BY <2>1, <2>2, <2>3, <3>1
    <3> QED BY <2>4, <3>1, <3>2 DEF Changed
  <2>5. CASE n[k] # s[k]
    <3>1. s[k] = d[k] => /\ row(k).offer = n[k].offer /\ row(k).rev = n[k].rev
                         /\ row(k).at = n[k].at /\ row(k).live = n[k].live
      BY DEF Changed
    <3>2. s[k] = d[k] => row(k) = n[k]
      <4> HIDE DEF row
      <4> QED BY <2>1, <2>2, <2>3, <3>1
    <3>3. row(k).offer = Changed(n[k].offer, s[k].offer, d[k].offer)
          /\ row(k).live = Changed(n[k].live, s[k].live, d[k].live)
      OBVIOUS
    <3>4. row(k).rev \in {n[k].rev, d[k].rev} /\ row(k).at \in {n[k].at, d[k].at}
      OBVIOUS
    <3> HIDE DEF row
    <3> QED BY <2>2, <2>5, <3>2, <3>3, <3>4
  <2> HIDE DEF row
  <2> QED BY <2>2, <2>4, <2>5
<1> HIDE DEF row
<1>3. Sources(n, s, d) \in [Keys -> SourceRow] /\ \A k \in Keys : Sources(n, s, d)[k] = row(k)
  BY <1>1, <1>2
<1> QED BY <1>2, <1>3

LEMMA OfferColumns ==
    ASSUME NEW n \in [Offers -> OfferRow], NEW s \in [Offers -> OfferRow], NEW d \in [Offers -> OfferRow]
    PROVE  /\ Columns(n, s, d) \in [Offers -> OfferRow]
           /\ \A o \in Offers :
                LET r == Columns(n, s, d)[o]
                IN  /\ r.status = Changed(n[o].status, s[o].status, d[o].status)
                    /\ r.into = Changed(n[o].into, s[o].into, d[o].into)
                    /\ n[o] = s[o] => r = d[o]
                    /\ s[o] = d[o] => r = n[o]
<1>1. \A r, q \in OfferRow :
        /\ r.link = q.link /\ r.origin = q.origin /\ r.status = q.status /\ r.into = q.into
        /\ r.born = q.born /\ r.by = q.by /\ r.review = q.review
        => r = q
  BY DEF OfferRow
<1>2. Columns(n, s, d) \in [Offers -> OfferRow]
  <2>1. ASSUME NEW a \in OfferRow, NEW b \in OfferRow, NEW c \in OfferRow
        PROVE  [x \in DOMAIN c |-> Changed(a[x], b[x], c[x])] \in OfferRow
    <3> DEFINE row == [x \in DOMAIN c |-> Changed(a[x], b[x], c[x])]
               whole == [link |-> row.link, origin |-> row.origin, status |-> row.status, into |-> row.into,
                         born |-> row.born, by |-> row.by, review |-> row.review]
    <3>1. row = whole
      BY DEF OfferRow
    <3>2. /\ row.link = Changed(a.link, b.link, c.link) /\ row.origin = Changed(a.origin, b.origin, c.origin)
          /\ row.status = Changed(a.status, b.status, c.status) /\ row.into = Changed(a.into, b.into, c.into)
          /\ row.born = Changed(a.born, b.born, c.born) /\ row.by = Changed(a.by, b.by, c.by)
          /\ row.review = Changed(a.review, b.review, c.review)
      BY DEF OfferRow
    <3> HIDE DEF row
    <3>3. whole \in OfferRow
      BY <3>2 DEF OfferRow, Changed
    <3> HIDE DEF whole
    <3> QED BY <3>1, <3>3 DEF row
  <2>2. DOMAIN d = Offers /\ \A o \in Offers : n[o] \in OfferRow /\ s[o] \in OfferRow /\ d[o] \in OfferRow
    OBVIOUS
  <2> QED BY <2>1, <2>2 DEF Columns
<1>3. ASSUME NEW o \in Offers
      PROVE  LET r == Columns(n, s, d)[o]
             IN  /\ r.status = Changed(n[o].status, s[o].status, d[o].status)
                 /\ r.into = Changed(n[o].into, s[o].into, d[o].into)
                 /\ r.link = Changed(n[o].link, s[o].link, d[o].link)
                 /\ r.origin = Changed(n[o].origin, s[o].origin, d[o].origin)
                 /\ r.born = Changed(n[o].born, s[o].born, d[o].born)
                 /\ r.by = Changed(n[o].by, s[o].by, d[o].by)
                 /\ r.review = Changed(n[o].review, s[o].review, d[o].review)
  BY DEF Columns, OfferRow
<1>4. ASSUME NEW o \in Offers
      PROVE  /\ n[o] = s[o] => Columns(n, s, d)[o] = d[o]
             /\ s[o] = d[o] => Columns(n, s, d)[o] = n[o]
  <2> Columns(n, s, d)[o] \in OfferRow /\ n[o] \in OfferRow /\ d[o] \in OfferRow
    BY <1>2
  <2> QED BY <1>1, <1>3 DEF Changed
<1> QED BY <1>2, <1>3, <1>4

\* What a transaction added to the history, after what others have added.
Appended(h, s, n) == h \o SubSeq(n, Len(s) + 1, Len(n))

LEMMA AppendedIs ==
    ASSUME NEW h \in Seq(Observation), NEW s \in Seq(Observation), NEW n \in Seq(Observation),
           Prefix(s, h), Prefix(s, n), NEW g, g = Appended(h, s, n)
    PROVE  /\ g \in Seq(Observation) /\ Len(h) \in Nat /\ Len(s) \in Nat /\ Len(n) \in Nat
           /\ Len(s) <= Len(h) /\ Len(s) <= Len(n) /\ Len(g) = Len(h) + (Len(n) - Len(s))
           /\ \A i \in 1 .. Len(h) : g[i] = h[i]
           /\ \A i \in 1 .. Len(s) : n[i] = s[i] /\ h[i] = s[i]
           /\ \A i \in Len(s) + 1 .. Len(n) : g[i + (Len(h) - Len(s))] = n[i]
<1> DEFINE a == Len(h)
           b == Len(s)
           c == Len(n)
           q == SubSeq(n, b + 1, c)
<1>1. a \in Nat /\ b \in Nat /\ c \in Nat /\ b <= a /\ b <= c
  BY DEF Prefix
<1>2. q \in Seq(Observation) /\ Len(q) = c - b /\ \A i \in 1 .. c - b : q[i] = n[b + i]
  BY <1>1
<1>3. g = h \o q
  BY DEF Appended
<1>4. (\A i \in 1 .. b : n[i] = s[i] /\ h[i] = s[i])
  BY DEF Prefix
<1> HIDE DEF q, b, c
<1>5. /\ g \in Seq(Observation) /\ Len(g) = a + (c - b)
      /\ \A i \in 1 .. a : g[i] = h[i]
      /\ \A i \in 1 .. c - b : g[a + i] = q[i]
  <2>1. /\ h \o q \in Seq(Observation) /\ Len(h \o q) = Len(h) + Len(q)
        /\ \A i \in 1 .. Len(h) : (h \o q)[i] = h[i]
        /\ \A i \in 1 .. Len(q) : (h \o q)[Len(h) + i] = q[i]
    BY <1>2, ConcatProperties
  <2> QED BY <1>2, <1>3, <2>1
<1> HIDE DEF a
<1>6. ASSUME NEW i \in b + 1 .. c PROVE g[i + (a - b)] = n[i]
  <2>1. i - b \in 1 .. c - b /\ a + (i - b) = i + (a - b) /\ b + (i - b) = i
    BY <1>1
  <2> QED BY <1>2, <1>5, <2>1
<1> QED BY <1>1, <1>4, <1>5, <1>6 DEF a, b, c

LEMMA AppendedCarriesOn ==
    ASSUME NEW h \in Seq(Observation), NEW s \in Seq(Observation), NEW n \in Seq(Observation),
           Prefix(s, h), Prefix(s, n)
    PROVE  Appended(h, s, n) \in Seq(Observation) /\ Prefix(h, Appended(h, s, n))
<1> DEFINE g == Appended(h, s, n)
<1>1. /\ g \in Seq(Observation) /\ Len(h) \in Nat /\ Len(s) \in Nat /\ Len(n) \in Nat
      /\ Len(s) <= Len(n) /\ Len(g) = Len(h) + (Len(n) - Len(s))
      /\ \A i \in 1 .. Len(h) : g[i] = h[i]
  BY AppendedIs
<1> HIDE DEF g
<1>2. g \in Seq(Observation) /\ Prefix(h, g)
  BY <1>1 DEF Prefix
<1> QED BY <1>2 DEF g

\* A transaction that saw everything leaves what it computed.
LEMMA AppendedToItself ==
    ASSUME NEW s \in Seq(Observation), NEW n \in Seq(Observation), Prefix(s, n)
    PROVE  Appended(s, s, n) = n
<1> DEFINE g == Appended(s, s, n)
<1>1. Prefix(s, s)
  BY DEF Prefix
<1>2. /\ g \in Seq(Observation) /\ Len(s) \in Nat /\ Len(n) \in Nat
      /\ Len(s) <= Len(n) /\ Len(g) = Len(s) + (Len(n) - Len(s))
      /\ \A i \in 1 .. Len(s) : g[i] = s[i] /\ n[i] = s[i]
      /\ \A i \in Len(s) + 1 .. Len(n) : g[i + (Len(s) - Len(s))] = n[i]
  BY <1>1, AppendedIs
<1> HIDE DEF g
<1>3. Len(g) = Len(n)
  BY <1>2
<1>4. ASSUME NEW i \in 1 .. Len(n) PROVE g[i] = n[i]
  <2>1. CASE i <= Len(s)
    BY <1>2, <2>1
  <2>2. CASE i > Len(s)
    <3>1. i \in Len(s) + 1 .. Len(n) /\ i + (Len(s) - Len(s)) = i
      BY <1>2, <2>2
    <3> QED BY <1>2, <3>1
  <2> QED BY <1>2, <2>1, <2>2
<1>5. g = n
  BY <1>2, <1>3, <1>4
<1> QED BY <1>5 DEF g

LEMMA AppendedDrops ==
    ASSUME NEW h \in Seq(Observation), NEW s \in Seq(Observation), NEW n \in Seq(Observation),
           Prefix(s, h), Prefix(s, n), DropsOnRecord(h), DropsOnRecord(n)
    PROVE  DropsOnRecord(Appended(h, s, n))
<1> DEFINE g == Appended(h, s, n)
           a == Len(h)
           b == Len(s)
           c == Len(n)
           To(i) == IF i <= b THEN i ELSE i + (a - b)
<1>1. /\ a \in Nat /\ b \in Nat /\ c \in Nat /\ b <= a /\ b <= c /\ Len(g) = a + (c - b)
      /\ \A i \in 1 .. a : g[i] = h[i]
      /\ \A i \in 1 .. b : n[i] = s[i] /\ h[i] = s[i]
      /\ \A i \in b + 1 .. c : g[i + (a - b)] = n[i]
      /\ DOMAIN g = 1 .. a + (c - b) /\ DOMAIN h = 1 .. a /\ DOMAIN n = 1 .. c
  BY AppendedIs
<1> HIDE DEF g, a, b, c
<1>2. \A i \in 1 .. c : To(i) \in 1 .. a + (c - b) /\ g[To(i)] = n[i]
  <2> SUFFICES ASSUME NEW i \in 1 .. c PROVE To(i) \in 1 .. a + (c - b) /\ g[To(i)] = n[i]
    OBVIOUS
  <2>1. CASE i <= b
    <3>1. i \in 1 .. a /\ i \in 1 .. b /\ i \in 1 .. a + (c - b)
      BY <1>1, <2>1
    <3> QED BY <1>1, <2>1, <3>1
  <2>2. CASE i > b
    <3>1. i \in b + 1 .. c /\ i + (a - b) \in 1 .. a + (c - b) /\ ~(i <= b)
      BY <1>1, <2>2
    <3> QED BY <1>1, <3>1
  <2> QED BY <1>1, <2>1, <2>2
<1>3. \A i, j \in 1 .. c : i > j => To(i) > To(j)
  BY <1>1
<1>4. ASSUME NEW x \in 1 .. a, g[x].reason = "price_drop"
      PROVE  \E i, j \in DOMAIN g :
               /\ g[i].offer = g[x].offer /\ g[j].offer = g[x].offer
               /\ g[i].cur = g[j].cur /\ g[i].price > g[j].price /\ Newer(g, j, i)
  <2>1. PICK i \in 1 .. a, j \in 1 .. a :
          /\ h[i].offer = h[x].offer /\ h[j].offer = h[x].offer
          /\ h[i].cur = h[j].cur /\ h[i].price > h[j].price /\ Newer(h, j, i)
    BY <1>1, <1>4 DEF DropsOnRecord, DropOnRecord
  <2>2. i \in DOMAIN g /\ j \in DOMAIN g
    BY <1>1
  <2>3. Newer(g, j, i)
    BY <1>1, <2>1 DEF Newer
  <2> QED BY <1>1, <2>1, <2>2, <2>3
<1>5. ASSUME NEW y \in 1 .. c, n[y].reason = "price_drop"
      PROVE  \E i, j \in DOMAIN g :
               /\ g[i].offer = g[To(y)].offer /\ g[j].offer = g[To(y)].offer
               /\ g[i].cur = g[j].cur /\ g[i].price > g[j].price /\ Newer(g, j, i)
  <2>1. PICK i \in 1 .. c, j \in 1 .. c :
          /\ n[i].offer = n[y].offer /\ n[j].offer = n[y].offer
          /\ n[i].cur = n[j].cur /\ n[i].price > n[j].price /\ Newer(n, j, i)
    BY <1>1, <1>5 DEF DropsOnRecord, DropOnRecord
  <2>2. Newer(g, To(j), To(i))
    <3> HIDE DEF To
    <3> QED BY <1>2, <1>3, <2>1 DEF Newer
  <2> HIDE DEF To
  <2> QED BY <1>1, <1>2, <2>1, <2>2
<1>6. ASSUME NEW x \in DOMAIN g PROVE x \in 1 .. a \/ \E y \in 1 .. c : x = To(y)
  <2>1. CASE x > a
    <3>1. x - (a - b) \in 1 .. c /\ To(x - (a - b)) = x
      BY <1>1, <2>1
    <3> QED BY <3>1
  <2> QED BY <1>1, <2>1
<1>7. DropsOnRecord(g)
  <2> HIDE DEF To
  <2> SUFFICES ASSUME NEW x \in DOMAIN g, g[x].reason = "price_drop"
               PROVE  \E i, j \in DOMAIN g :
                        /\ g[i].offer = g[x].offer /\ g[j].offer = g[x].offer
                        /\ g[i].cur = g[j].cur /\ g[i].price > g[j].price /\ Newer(g, j, i)
    BY DEF DropsOnRecord, DropOnRecord
  <2>1. CASE x \in 1 .. a
    BY <1>4, <2>1
  <2>2. ASSUME NEW y \in 1 .. c, x = To(y) PROVE n[y].reason = "price_drop"
    BY <1>2, <2>2
  <2> QED BY <1>5, <1>6, <2>1, <2>2
<1> QED BY <1>7 DEF g

LEMMA AppendedCount ==
    ASSUME NEW h \in Seq(Observation), NEW s \in Seq(Observation), NEW n \in Seq(Observation),
           Prefix(s, h), Prefix(s, n), NEW k
    PROVE  /\ Count(h, k) \in Nat /\ Count(s, k) \in Nat /\ Count(n, k) \in Nat
           /\ Count(s, k) <= Count(n, k)
           /\ Count(Appended(h, s, n), k) = Count(h, k) + (Count(n, k) - Count(s, k))
<1> DEFINE g == Appended(h, s, n)
           a == Len(h)
           b == Len(s)
           c == Len(n)
           l == Len(g)
           At(q) == {i \in DOMAIN q : q[i].key = k}
           New == {i \in b + 1 .. c : n[i].key = k}
           Put == {i \in a + 1 .. l : g[i].key = k}
           f == [i \in New |-> i + (a - b)]
<1>1. /\ a \in Nat /\ b \in Nat /\ c \in Nat /\ b <= a /\ b <= c /\ l = a + (c - b)
      /\ \A i \in 1 .. a : g[i] = h[i]
      /\ \A i \in 1 .. b : n[i] = s[i] /\ h[i] = s[i]
      /\ \A i \in b + 1 .. c : g[i + (a - b)] = n[i]
      /\ DOMAIN g = 1 .. l /\ DOMAIN h = 1 .. a /\ DOMAIN n = 1 .. c /\ DOMAIN s = 1 .. b
  <2> HIDE DEF g
  <2>1. /\ g \in Seq(Observation) /\ Len(h) \in Nat /\ Len(s) \in Nat /\ Len(n) \in Nat
        /\ Len(s) <= Len(h) /\ Len(s) <= Len(n) /\ Len(g) = Len(h) + (Len(n) - Len(s))
        /\ \A i \in 1 .. Len(h) : g[i] = h[i]
        /\ \A i \in 1 .. Len(s) : n[i] = s[i] /\ h[i] = s[i]
        /\ \A i \in Len(s) + 1 .. Len(n) : g[i + (Len(h) - Len(s))] = n[i]
    BY AppendedIs DEF g
  <2>2. DOMAIN g = 1 .. l /\ DOMAIN h = 1 .. a /\ DOMAIN n = 1 .. c /\ DOMAIN s = 1 .. b
    BY <2>1
  <2> QED BY <2>1, <2>2
<1> HIDE DEF g, a, b, c, l
<1>2. \A i \in 1 .. l : i \in 1 .. a \/ i \in a + 1 .. l
  BY <1>1
<1>3. \A i \in 1 .. c : i \in 1 .. b \/ i \in b + 1 .. c
  BY <1>1
<1>4. 1 .. a \subseteq 1 .. l /\ 1 .. b \subseteq 1 .. c
      /\ (1 .. a) \cap (a + 1 .. l) = {} /\ (1 .. b) \cap (b + 1 .. c) = {}
      /\ a + 1 .. l \subseteq 1 .. l /\ b + 1 .. c \subseteq 1 .. c
  BY <1>1
<1>5. At(g) = At(h) \cup Put /\ At(h) \cap Put = {}
  BY <1>1, <1>2, <1>4
<1>6. At(n) = At(s) \cup New /\ At(s) \cap New = {}
  BY <1>1, <1>3, <1>4
<1>7. IsFiniteSet(At(h)) /\ IsFiniteSet(At(s)) /\ IsFiniteSet(New)
  <2>1. IsFiniteSet(1 .. a) /\ IsFiniteSet(1 .. b) /\ IsFiniteSet(1 .. c)
    BY <1>1, FS_Interval
  <2>2. At(h) \in SUBSET (1 .. a) /\ At(s) \in SUBSET (1 .. b) /\ New \in SUBSET (1 .. c)
    BY <1>1, <1>4
  <2> HIDE DEF At, New
  <2> QED BY <2>1, <2>2, FS_Subset
<1>8. f \in Bijection(New, Put)
  <2>1. \A i \in New : i + (a - b) \in Put
    <3> SUFFICES ASSUME NEW i \in b + 1 .. c, n[i].key = k PROVE i + (a - b) \in Put
      OBVIOUS
    <3>1. i + (a - b) \in a + 1 .. l
      BY <1>1
    <3> QED BY <1>1, <3>1
  <2>2. \A i \in Put : \E j \in New : i = j + (a - b)
    <3> SUFFICES ASSUME NEW i \in a + 1 .. l, g[i].key = k PROVE \E j \in New : i = j + (a - b)
      OBVIOUS
    <3>1. i - (a - b) \in b + 1 .. c /\ (i - (a - b)) + (a - b) = i
      BY <1>1
    <3> QED BY <1>1, <3>1
  <2>3. \A i, j \in New : i + (a - b) = j + (a - b) => i = j
    BY <1>1
  <2>4. f \in [New -> Put] /\ \A i \in New : f[i] = i + (a - b)
    BY <2>1
  <2> HIDE DEF f, New, Put
  <2>5. \A i, j \in New : f[i] = f[j] => i = j
    BY <2>3, <2>4
  <2>6. \A i \in Put : \E j \in New : f[j] = i
    BY <2>2, <2>4
  <2> QED BY <2>4, <2>5, <2>6, Fun_IsBij
<1> HIDE DEF At, New, Put, f
<1>9. IsFiniteSet(Put) /\ Cardinality(Put) = Cardinality(New)
  <2>1. ExistsBijection(New, Put)
    BY <1>8, Fun_ExistsBij
  <2> QED BY <1>7, <2>1, FS_Bijection
<1>10. Cardinality(At(g)) = Cardinality(At(h)) + Cardinality(Put)
  <2>1. Cardinality(At(g)) = Cardinality(At(h)) + Cardinality(Put) - Cardinality({})
    BY <1>5, <1>7, <1>9, FS_Union
  <2> QED BY <1>7, <1>9, <2>1, FS_EmptySet, FS_CardinalityType
<1>11. Cardinality(At(n)) = Cardinality(At(s)) + Cardinality(New)
  <2>1. Cardinality(At(n)) = Cardinality(At(s)) + Cardinality(New) - Cardinality({})
    BY <1>6, <1>7, FS_Union
  <2> QED BY <1>7, <2>1, FS_EmptySet, FS_CardinalityType
<1>12. Cardinality(At(h)) \in Nat /\ Cardinality(At(s)) \in Nat /\ Cardinality(New) \in Nat
  BY <1>7, FS_CardinalityType
<1> QED BY <1>9, <1>10, <1>11, <1>12 DEF Count, At, g

\* A transaction read s, computed n, and commits over d.
KeepsRows(s, n) ==
    \A k \in Keys :
        /\ s.src[k] # NoSource => /\ n.src[k].offer = s.src[k].offer
                                  /\ n.src[k].live => s.src[k].live
        /\ s.src[k] = NoSource /\ n.src[k] # NoSource => n.src[k].live
Commits(n, s, d) ==
    /\ Sound(s) /\ Sound(n) /\ Sound(d) /\ Since(s, d)
    /\ DropsOnRecord(n.obs) /\ DropsOnRecord(d.obs)
    /\ Grows(s, n, Offers) /\ KeepsRows(s, n)
    /\ \A o \in Offers : ~Exists(s, o) /\ Exists(n, o) => ~Exists(d, o)
    /\ \A k \in Keys : s.src[k] = NoSource /\ n.src[k] # NoSource => d.src[k] = NoSource

LEMMA OverHas ==
    ASSUME NEW n, NEW s, NEW d, Commits(n, s, d), NEW e, e = Over(n, s, d)
    PROVE  /\ e.src = Sources(n.src, s.src, d.src) /\ e.offer = Columns(n.offer, s.offer, d.offer)
           /\ e.obs = Appended(d.obs, s.obs, n.obs) /\ e.cursor = Changed(n.cursor, s.cursor, d.cursor)
           /\ n.src \in [Keys -> SourceRow] /\ n.offer \in [Offers -> OfferRow] /\ n.obs \in Seq(Observation)
           /\ s.src \in [Keys -> SourceRow] /\ s.offer \in [Offers -> OfferRow] /\ s.obs \in Seq(Observation)
           /\ d.src \in [Keys -> SourceRow] /\ d.offer \in [Offers -> OfferRow] /\ d.obs \in Seq(Observation)
           /\ Prefix(s.obs, d.obs) /\ Prefix(s.obs, n.obs)
           /\ e \in Database /\ DropsOnRecord(e.obs) /\ Prefix(d.obs, e.obs)
<1>1. /\ n.src \in [Keys -> SourceRow] /\ n.offer \in [Offers -> OfferRow] /\ n.obs \in Seq(Observation)
      /\ n.cursor \in 0 .. MaxChanges
  BY SoundHas DEF Commits
<1>2. s.src \in [Keys -> SourceRow] /\ s.offer \in [Offers -> OfferRow] /\ s.obs \in Seq(Observation)
  BY SoundHas DEF Commits
<1>3. /\ d.src \in [Keys -> SourceRow] /\ d.offer \in [Offers -> OfferRow] /\ d.obs \in Seq(Observation)
      /\ d.cursor \in 0 .. MaxChanges
  BY SoundHas DEF Commits
<1>4. Prefix(s.obs, d.obs) /\ Prefix(s.obs, n.obs)
  BY DEF Commits, Since, Grows
<1> DEFINE src == Sources(n.src, s.src, d.src)
           offer == Columns(n.offer, s.offer, d.offer)
           obs == Appended(d.obs, s.obs, n.obs)
           cursor == Changed(n.cursor, s.cursor, d.cursor)
<1>5. e = [src |-> src, offer |-> offer, obs |-> obs, cursor |-> cursor]
  BY DEF Over, Appended
<1>6. src \in [Keys -> SourceRow] /\ offer \in [Offers -> OfferRow]
  BY <1>1, <1>2, <1>3, SourceColumns, OfferColumns
<1>7. obs \in Seq(Observation) /\ Prefix(d.obs, obs)
  BY <1>1, <1>2, <1>3, <1>4, AppendedCarriesOn
<1>8. DropsOnRecord(obs)
  BY <1>1, <1>2, <1>3, <1>4, AppendedDrops DEF Commits
<1>9. cursor \in 0 .. MaxChanges
  BY <1>1, <1>3 DEF Changed
<1> HIDE DEF src, offer, obs, cursor
<1>10. e \in Database
  BY <1>5, <1>6, <1>7, <1>9 DEF Database
<1> QED BY <1>1, <1>2, <1>3, <1>4, <1>5, <1>7, <1>8, <1>10 DEF src, offer, obs, cursor

\* The rows after the commit: what the transaction made or changed, and what
\* others have made of the rest.
LEMMA OverRows ==
    ASSUME NEW n, NEW s, NEW d, Commits(n, s, d), NEW e, e = Over(n, s, d), NEW k \in Keys
    PROVE  /\ n.src[k] = s.src[k] => e.src[k] = d.src[k]
           /\ s.src[k] = d.src[k] => e.src[k] = n.src[k]
           /\ e.src[k] = NoSource <=> (n.src[k] = NoSource /\ d.src[k] = NoSource)
           /\ d.src[k] # NoSource => e.src[k].offer = d.src[k].offer /\ (e.src[k].live => d.src[k].live)
           /\ e.src[k].rev \in {n.src[k].rev, d.src[k].rev}
           /\ e.src[k].at \in {n.src[k].at, d.src[k].at}
<1>1. /\ n.src[k] \in SourceRow /\ s.src[k] \in SourceRow /\ d.src[k] \in SourceRow
      /\ e.src = Sources(n.src, s.src, d.src)
  BY OverHas
<1>2. /\ e.src[k].offer = Changed(n.src[k].offer, s.src[k].offer, d.src[k].offer)
      /\ e.src[k].rev \in {n.src[k].rev, d.src[k].rev} /\ e.src[k].at \in {n.src[k].at, d.src[k].at}
      /\ e.src[k].live = Changed(n.src[k].live, s.src[k].live, d.src[k].live)
      /\ n.src[k] = s.src[k] => e.src[k] = d.src[k]
      /\ s.src[k] = d.src[k] => e.src[k] = n.src[k]
  <2>1. n.src \in [Keys -> SourceRow] /\ s.src \in [Keys -> SourceRow] /\ d.src \in [Keys -> SourceRow]
    BY OverHas
  <2> QED BY <1>1, <2>1, SourceColumns, SMTT(30)
<1>3. /\ s.src[k] # NoSource => d.src[k] # NoSource /\ d.src[k].offer = s.src[k].offer
      /\ s.src[k] # NoSource => n.src[k] # NoSource /\ n.src[k].offer = s.src[k].offer
                                /\ (n.src[k].live => s.src[k].live)
      /\ s.src[k] = NoSource /\ n.src[k] # NoSource => d.src[k] = NoSource /\ n.src[k].live
  BY DEF Commits, Since, KeepsRows, Grows
<1>4. \A x \in {n, s, d} : x.src[k] # NoSource => x.src[k].rev > 0
  BY DEF Commits, Sound
<1>5. NoSource.rev = 0 /\ ~NoSource.live
  BY DEF NoSource
<1>6. /\ d.src[k] # NoSource => e.src[k].offer = d.src[k].offer /\ (e.src[k].live => d.src[k].live)
      /\ d.src[k] # NoSource => e.src[k].rev > 0
  <2>1. CASE s.src[k] # NoSource
    <3>1. n.src[k].rev > 0 /\ (d.src[k] # NoSource => d.src[k].rev > 0)
      BY <1>3, <1>4, <2>1
    <3>2. e.src[k].live => d.src[k].live
      BY <1>1, <1>2, <1>3, <2>1 DEF Changed, SourceRow
    <3> QED BY <1>2, <1>3, <2>1, <3>1, <3>2 DEF Changed
  <2>2. CASE s.src[k] = NoSource /\ d.src[k] # NoSource
    BY <1>2, <1>3, <1>4, <2>2
  <2> QED BY <2>1, <2>2
<1>7. e.src[k] = NoSource <=> (n.src[k] = NoSource /\ d.src[k] = NoSource)
  <2>1. CASE d.src[k] # NoSource
    BY <1>5, <1>6, <2>1
  <2>2. CASE d.src[k] = NoSource
    <3>1. s.src[k] = NoSource
      BY <1>3, <2>2
    <3> QED BY <1>2, <2>2, <3>1
  <2> QED BY <2>1, <2>2
<1>8. e.src[k].rev \in {n.src[k].rev, d.src[k].rev} /\ e.src[k].at \in {n.src[k].at, d.src[k].at}
  BY <1>2
<1> QED BY <1>2, <1>6, <1>7, <1>8

LEMMA OverOffers ==
    ASSUME NEW n, NEW s, NEW d, Commits(n, s, d), NEW e, e = Over(n, s, d), NEW o \in Offers
    PROVE  /\ Exists(e, o) <=> Exists(d, o) \/ (~Exists(s, o) /\ Exists(n, o))
           /\ Exists(d, o) => e.offer[o].into = d.offer[o].into
           /\ ~Exists(d, o) => e.offer[o] = n.offer[o]
           /\ ~Exists(d, o) /\ Exists(n, o) => e.offer[o].into = None
<1>1. /\ n.offer[o] \in OfferRow /\ s.offer[o] \in OfferRow /\ d.offer[o] \in OfferRow
      /\ e.offer = Columns(n.offer, s.offer, d.offer)
  BY OverHas
<1>2. /\ e.offer[o].status = Changed(n.offer[o].status, s.offer[o].status, d.offer[o].status)
      /\ e.offer[o].into = Changed(n.offer[o].into, s.offer[o].into, d.offer[o].into)
      /\ n.offer[o] = s.offer[o] => e.offer[o] = d.offer[o]
      /\ s.offer[o] = d.offer[o] => e.offer[o] = n.offer[o]
  <2>1. n.offer \in [Offers -> OfferRow] /\ s.offer \in [Offers -> OfferRow] /\ d.offer \in [Offers -> OfferRow]
    BY OverHas
  <2> QED BY <1>1, <2>1, OfferColumns
<1>3. /\ Exists(s, o) => Exists(d, o)
      /\ ~Exists(s, o) /\ Exists(n, o) => ~Exists(d, o)
      /\ \A x \in {n, s, d} : ~Exists(x, o) => x.offer[o] = NoOffer
      /\ \/ Exists(s, o) /\ \E st \in {s.offer[o].status, "disabled"} :
                              n.offer[o] = [s.offer[o] EXCEPT !.status = st]
         \/ ~Exists(s, o) /\ ~Exists(n, o)
         \/ ~Exists(s, o) /\ Exists(n, o) /\ n.offer[o].into = None
  BY DEF Commits, Since, Grows, Sound
<1>4. CASE Exists(s, o)
  <2>1. PICK st \in {s.offer[o].status, "disabled"} : n.offer[o] = [s.offer[o] EXCEPT !.status = st]
    BY <1>3, <1>4
  <2>2. n.offer[o].into = s.offer[o].into /\ n.offer[o].status \in {s.offer[o].status, "disabled"}
    BY <1>1, <2>1 DEF OfferRow
  <2> QED BY <1>2, <1>3, <1>4, <2>2 DEF Changed, Exists
<1>5. CASE ~Exists(s, o) /\ ~Exists(n, o)
  <2>1. e.offer[o] = d.offer[o]
    BY <1>2, <1>3, <1>5
  <2> QED BY <1>3, <1>5, <2>1 DEF Exists
<1>6. CASE ~Exists(s, o) /\ Exists(n, o)
  <2>1. ~Exists(d, o) /\ e.offer[o] = n.offer[o] /\ n.offer[o].into = None
    BY <1>2, <1>3, <1>6
  <2> QED BY <1>6, <2>1 DEF Exists
<1> QED BY <1>4, <1>5, <1>6

LEMMA OverIsSound ==
    ASSUME NEW n, NEW s, NEW d, Commits(n, s, d), NEW e, e = Over(n, s, d)
    PROVE  Sound(e)
<1>1. e \in Database /\ e.src \in [Keys -> SourceRow]
  BY OverHas DEF Database
<1>2. Acyclic(Into(e))
  <2>1. DOMAIN Into(d) = {x \in Offers : Exists(d, x)} /\ DOMAIN Into(e) = {x \in Offers : Exists(e, x)}
    BY DEF Into, Exists
  <2>2. \A x \in DOMAIN Into(e) : Into(e)[x] = e.offer[x].into
    BY DEF Into
  <2>3. \A x \in DOMAIN Into(d) : Into(d)[x] = d.offer[x].into
    BY DEF Into
  <2>4. \A x \in Offers : /\ Exists(d, x) => Exists(e, x) /\ e.offer[x].into = d.offer[x].into
                          /\ ~Exists(d, x) /\ Exists(e, x) => e.offer[x].into = None
    BY OverOffers
  <2>5. \A x \in DOMAIN Into(e) :
           IF x \in DOMAIN Into(d) THEN Into(e)[x] = Into(d)[x] ELSE Into(e)[x] = None
    BY <2>1, <2>2, <2>3, <2>4
  <2>6. None \notin DOMAIN Into(e) /\ DOMAIN Into(d) \subseteq DOMAIN Into(e)
    BY <2>1, <2>4, ImporterAssumption
  <2>7. Acyclic(Into(d))
    BY DEF Commits, Sound
  <2> QED BY <2>5, <2>6, <2>7, NewRootsKeepAcyclic
<1>3. ASSUME NEW o \in Offers, ~Exists(e, o) PROVE e.offer[o] = NoOffer
  <2>1. ~Exists(d, o) /\ ~(~Exists(s, o) /\ Exists(n, o)) /\ e.offer[o] = n.offer[o]
    BY <1>3, OverOffers
  <2>2. Exists(s, o) => Exists(d, o)
    BY DEF Commits, Since
  <2> QED BY <2>1, <2>2 DEF Commits, Sound
<1>4. ASSUME NEW k \in Keys
      PROVE  \/ e.src[k] = NoSource /\ ~Exists(e, k)
             \/ e.src[k].rev > 0 /\ e.src[k].offer \in Offers /\ Exists(e, e.src[k].offer)
  <2>1. k \in Offers
    BY ImporterAssumption
  <2>2. CASE d.src[k] # NoSource
    <3>1. d.src[k].rev > 0 /\ d.src[k].offer \in Offers /\ Exists(d, d.src[k].offer)
      BY <2>2 DEF Commits, Sound
    <3>2. n.src[k] # NoSource => n.src[k].rev > 0
      BY DEF Commits, Sound
    <3>3. e.src[k].offer = d.src[k].offer
      BY <2>2, OverRows
    <3>4. e.src[k].rev > 0
      <4>1. n.src[k] = NoSource => e.src[k] = d.src[k]
        <5>1. s.src[k] # NoSource => n.src[k] # NoSource
          BY DEF Commits, Grows
        <5> QED BY <5>1, OverRows
      <4>2. e.src[k].rev \in {n.src[k].rev, d.src[k].rev}
        BY OverRows
      <4> QED BY <3>1, <3>2, <4>1, <4>2
    <3> QED BY <3>1, <3>3, <3>4, OverOffers
  <2>3. CASE d.src[k] = NoSource
    <3>1. s.src[k] = NoSource /\ e.src[k] = n.src[k]
      <4>1. s.src[k] = NoSource
        BY <2>3 DEF Commits, Since
      <4> QED BY <2>3, <4>1, OverRows
    <3>2. CASE n.src[k] = NoSource
      <4>1. ~Exists(d, k) /\ ~Exists(n, k)
        BY <2>3, <3>2 DEF Commits, Sound, NoSource
      <4> QED BY <2>1, <3>1, <3>2, <4>1, OverOffers
    <3>3. CASE n.src[k] # NoSource
      <4>1. n.src[k].rev > 0 /\ n.src[k].offer \in Offers /\ Exists(n, n.src[k].offer)
        BY <3>3 DEF Commits, Sound
      <4>2. \A o \in Offers : Exists(n, o) => Exists(e, o)
        <5>1. \A o \in Offers : Exists(s, o) => Exists(d, o)
          BY DEF Commits, Since
        <5> QED BY <5>1, OverOffers
      <4> QED BY <3>1, <4>1, <4>2
    <3> QED BY <3>2, <3>3
  <2> QED BY <2>2, <2>3
<1> QED BY <1>1, <1>2, <1>3, <1>4 DEF Sound

LEMMA OverSeesAll ==
    ASSUME NEW n, NEW d, Commits(n, d, d)
    PROVE  Over(n, d, d) = n
<1> DEFINE e == Over(n, d, d)
<1>1. /\ e.src = Sources(n.src, d.src, d.src) /\ e.offer = Columns(n.offer, d.offer, d.offer)
      /\ e.obs = Appended(d.obs, d.obs, n.obs) /\ e.cursor = Changed(n.cursor, d.cursor, d.cursor)
      /\ n.src \in [Keys -> SourceRow] /\ n.offer \in [Offers -> OfferRow] /\ n.obs \in Seq(Observation)
      /\ d.src \in [Keys -> SourceRow] /\ d.offer \in [Offers -> OfferRow] /\ d.obs \in Seq(Observation)
      /\ Prefix(d.obs, n.obs) /\ e \in Database
  BY OverHas
<1>2. e.cursor = n.cursor
  BY <1>1 DEF Changed
<1>3. e.src = n.src
  <2>1. e.src \in [Keys -> SourceRow] /\ \A k \in Keys : e.src[k] = n.src[k]
    BY <1>1, SourceColumns
  <2> HIDE DEF e
  <2> QED BY <1>1, <2>1
<1>4. e.offer = n.offer
  <2>1. e.offer \in [Offers -> OfferRow] /\ \A o \in Offers : e.offer[o] = n.offer[o]
    BY <1>1, OfferColumns
  <2> HIDE DEF e
  <2> QED BY <1>1, <2>1
<1>5. e.obs = n.obs
  BY <1>1, AppendedToItself
<1>6. n \in Database
  BY DEF Commits, Sound
<1> HIDE DEF e
<1>7. e = n
  BY <1>1, <1>2, <1>3, <1>4, <1>5, <1>6 DEF Database
<1> QED BY <1>7 DEF e

LEMMA SinceOver ==
    ASSUME NEW n, NEW s, NEW d, Commits(n, s, d), NEW x, Since(x, d),
           x.obs \in Seq(Observation)
    PROVE  Since(x, Over(n, s, d))
<1> DEFINE e == Over(n, s, d)
<1>1. d.obs \in Seq(Observation) /\ Prefix(d.obs, e.obs) /\ e.obs \in Seq(Observation)
  BY OverHas DEF Database
<1>2. \A k \in Keys : d.src[k] # NoSource => e.src[k] # NoSource /\ e.src[k].offer = d.src[k].offer
  BY OverRows
<1>3. \A o \in Offers : Exists(d, o) => Exists(e, o)
  BY OverOffers
<1> HIDE DEF e
<1>4. Prefix(x.obs, e.obs)
  BY <1>1 DEF Since, Prefix
<1>5. Since(x, e)
  BY <1>2, <1>3, <1>4 DEF Since
<1> QED BY <1>5 DEF e

LEMMA OverCount ==
    ASSUME NEW n, NEW s, NEW d, Commits(n, s, d), NEW k
    PROVE  /\ Count(Over(n, s, d).obs, k) = Count(d.obs, k) + (Count(n.obs, k) - Count(s.obs, k))
           /\ Count(d.obs, k) \in Nat /\ Count(s.obs, k) \in Nat /\ Count(n.obs, k) \in Nat
           /\ Count(s.obs, k) <= Count(n.obs, k)
<1>1. /\ Over(n, s, d).obs = Appended(d.obs, s.obs, n.obs) /\ n.obs \in Seq(Observation)
      /\ s.obs \in Seq(Observation) /\ d.obs \in Seq(Observation)
      /\ Prefix(s.obs, d.obs) /\ Prefix(s.obs, n.obs)
  BY OverHas
<1> QED BY <1>1, AppendedCount

\* What is computed from a page, the cursor moved.
PageAndCursor(s, page, t, c) == [ImportPage(s, page, t) EXCEPT !.cursor = c]

\* A page applied to what was seen commits over what is there now.
LEMMA PageCommits ==
    ASSUME NEW s, Sound(s), DropsOnRecord(s.obs), NEW d, Sound(d), DropsOnRecord(d.obs), Since(s, d),
           NEW page, OnePage(page), NEW t \in Nat, NEW c \in 0 .. MaxChanges,
           NEW n, n = PageAndCursor(s, page, t, c),
           \A k \in Keys : s.src[k] = NoSource /\ n.src[k] # NoSource => d.src[k] = NoSource
    PROVE  /\ Commits(n, s, d) /\ n.cursor = c
           /\ \A k \in Keys : \A v \in page : v.item = k[1] => Outcome(s, n, k, v)
           /\ \A k \in Keys : (\A v \in page : v.item # k[1]) => Stays(s, n, k)
           /\ Untouched(s) => Untouched(n)
           /\ \A o \in Offers \ Keys : Exists(n, o) => Exists(s, o)
<1> DEFINE e == ImportPage(s, page, t)
<1>1. /\ Follows(s, e)
      /\ \A k \in Keys : \A v \in page : v.item = k[1] => Outcome(s, e, k, v)
      /\ \A k \in Keys : (\A v \in page : v.item # k[1]) => Stays(s, e, k)
  BY PageApplied
<1>2. n = [e EXCEPT !.cursor = c]
  BY DEF PageAndCursor
<1> HIDE DEF e
<1>3. Sound(e) /\ DropsOnRecord(e.obs) /\ Grows(s, e, Keys) /\ (Untouched(s) => Untouched(e))
  BY <1>1 DEF Follows
<1>4. /\ n.src = e.src /\ n.offer = e.offer /\ n.obs = e.obs /\ n.cursor = c
      /\ n = [src |-> e.src, offer |-> e.offer, obs |-> e.obs, cursor |-> c]
  BY <1>2, <1>3, SoundHas
<1>5. Sound(n)
  <2>1. n \in Database
    BY <1>3, <1>4, SoundHas DEF Database
  <2>2. Into(n) = Into(e) /\ \A o : Exists(n, o) <=> Exists(e, o)
    BY <1>4 DEF Into, Exists
  <2> QED BY <1>3, <1>4, <2>1, <2>2 DEF Sound
<1>6. \A o \in Offers : Exists(n, o) <=> Exists(e, o)
  BY <1>4 DEF Exists
<1>7. Grows(s, n, Keys) /\ Grows(s, n, Offers)
  BY <1>3, <1>4, <1>6, ImporterAssumption DEF Grows
<1>8. \A k \in Keys : \A v : (Outcome(s, e, k, v) => Outcome(s, n, k, v)) /\ (Stays(s, e, k) => Stays(s, n, k))
  BY <1>4 DEF Outcome, Stays, Advances, Withdraws
<1>9. KeepsRows(s, n)
  <2> SUFFICES ASSUME NEW k \in Keys
               PROVE  /\ s.src[k] # NoSource => /\ n.src[k].offer = s.src[k].offer
                                                /\ n.src[k].live => s.src[k].live
                      /\ s.src[k] = NoSource /\ n.src[k] # NoSource => n.src[k].live
    BY DEF KeepsRows
  <2>1. CASE n.src[k] = s.src[k]
    BY <2>1
  <2>2. CASE \E v : Advances(s, n, k, v)
    BY <2>2 DEF Advances
  <2>3. CASE Withdraws(s, n, k)
    <3>1. s.src[k] \in SourceRow
      BY SoundHas
    <3>2. n.src[k].offer = s.src[k].offer /\ s.src[k] # NoSource /\ s.src[k].live
      BY <2>3, <3>1 DEF Withdraws, SourceRow, NoSource
    <3> QED BY <3>2
  <2>4. n.src[k] = s.src[k] \/ Withdraws(s, n, k) \/ \E v : Advances(s, n, k, v)
    BY <1>1, <1>8 DEF Outcome, Stays
  <2> QED BY <2>1, <2>2, <2>3, <2>4
<1>10. ASSUME NEW o \in Offers, ~Exists(s, o), Exists(n, o) PROVE o \in Keys /\ ~Exists(d, o)
  <2>1. o \in Keys /\ s.src[o] = NoSource /\ n.src[o] # NoSource
    BY <1>7, <1>10 DEF Grows
  <2>2. d.src[o] = NoSource
    BY <2>1
  <2>3. ~(NoSource.rev > 0)
    BY DEF NoSource
  <2>4. \/ d.src[o] = NoSource /\ ~Exists(d, o)
        \/ d.src[o].rev > 0
    BY <2>1 DEF Sound
  <2> QED BY <2>1, <2>2, <2>3, <2>4
<1>11. Commits(n, s, d)
  BY <1>3, <1>4, <1>5, <1>7, <1>9, <1>10 DEF Commits
<1>12. Untouched(s) => Untouched(n)
  <2>1. \A o : HasSource(n, o) <=> HasSource(e, o)
    BY <1>4 DEF HasSource
  <2> QED BY <1>3, <1>4, <2>1 DEF Untouched, LinksApart, ShownAsSourced
<1> QED BY <1>1, <1>4, <1>8, <1>10, <1>11, <1>12

-----------------------------------------------------------------------------
(* Every step keeps the invariant: what Sources does.                      *)

LEMMA ChangesSoFar ==
    ASSUME TypeOK
    PROVE  LastChange \in 0 .. MaxChanges /\ \A i \in Items : feed[i].change <= LastChange
<1> DEFINE S == {0} \cup {feed[i].change : i \in Items}
<1>1. \A i \in Items : feed[i].change \in 0 .. MaxChanges
  BY DEF TypeOK, Published
<1>2. MaxChanges \in Nat
  BY ImporterAssumption
<1>3. S \in SUBSET Nat /\ S # {} /\ \A n \in S : n <= MaxChanges
  BY <1>1, <1>2
<1>4. PICK m \in S : \A n \in S : n <= m
  <2> HIDE DEF S
  <2> QED BY <1>2, <1>3, SomeGreatest
<1>5. m \in 0 .. MaxChanges /\ (\A i \in Items : feed[i].change <= m)
      /\ (m = 0 \/ \E i \in Items : feed[i].change = m)
  BY <1>1, <1>2, <1>4
<1> HIDE DEF S
<1> QED BY <1>5 DEF LastChange

\* Sources publishes, fetches again or takes down one item.
FeedMoves ==
    /\ feed' \in [Items -> Published]
    /\ \A i \in Items :
         /\ feed'[i].rev >= feed[i].rev /\ feed'[i].at >= feed[i].at /\ feed'[i].at <= now
         /\ feed'[i].rev > 0 => feed'[i].says \in Statements /\ feed'[i].change > 0
         /\ feed'[i].rev = 0 => feed'[i] = Unpublished
         /\ \/ /\ feed'[i].change = feed[i].change /\ feed'[i].rev = feed[i].rev
               /\ feed'[i].gone = feed[i].gone /\ feed'[i].says = feed[i].says
            \/ \A j \in Items : /\ feed[j].change < feed'[i].change
                                /\ j # i => feed'[j].change = feed[j].change
    /\ UNCHANGED <<now, db, job, requests, faults, raced, inTurn, touched, lost>>

LEMMA FeedActionsMove ==
    ASSUME TypeOK, FeedInOrder(feed, now),
           \E i \in Items : FetchAgain(i) \/ TakeDown(i) \/ \E s \in Statements : Publish(i, s)
    PROVE  FeedMoves
<1>1. /\ LastChange \in 0 .. MaxChanges /\ (\A i \in Items : feed[i].change <= LastChange)
      /\ MaxChanges \in Nat /\ now \in Nat
  BY ChangesSoFar, ImporterAssumption DEF TypeOK
<1>2. feed \in [Items -> Published]
  BY DEF TypeOK
<1>3. \A j \in Items : feed[j] \in Published /\ feed[j].change \in Nat /\ feed[j].rev \in Nat /\ feed[j].at \in Nat
  BY <1>1, <1>2 DEF Published
<1>4. \A j \in Items : /\ feed[j].at <= now
                       /\ feed[j].rev > 0 => feed[j].says \in Statements /\ feed[j].change > 0
                       /\ feed[j].rev = 0 => feed[j] = Unpublished
  BY <1>3 DEF FeedInOrder
<1>5. PICK i \in Items : FetchAgain(i) \/ TakeDown(i) \/ \E s \in Statements : Publish(i, s)
  OBVIOUS
<1> DEFINE Next1(r) ==
             /\ feed' = [feed EXCEPT ![i] = r]
             /\ r.rev >= feed[i].rev /\ r.at >= feed[i].at /\ r.at <= now
             /\ r.rev > 0 /\ r.says \in Statements /\ r.change > 0
             /\ \/ /\ r.change = feed[i].change /\ r.rev = feed[i].rev
                   /\ r.gone = feed[i].gone /\ r.says = feed[i].says
                \/ r.change = LastChange + 1
<1>6. \E r \in Published : Next1(r)
  <2> DEFINE f == feed[i]
  <2>0. /\ f \in Published /\ f.change \in Nat /\ f.rev \in Nat /\ f.at \in Nat /\ f.at <= now
        /\ f.rev > 0 => f.says \in Statements /\ f.change > 0
        /\ f = [rev |-> f.rev, at |-> f.at, change |-> f.change, gone |-> f.gone, says |-> f.says]
    BY <1>3, <1>4 DEF Published
  <2>1. CASE FetchAgain(i)
    <3> DEFINE r == [rev |-> f.rev, at |-> now, change |-> f.change, gone |-> f.gone, says |-> f.says]
    <3>1. f.rev > 0 /\ [f EXCEPT !.at = now] = r
      BY <2>0, <2>1 DEF FetchAgain
    <3>2. feed' = [feed EXCEPT ![i] = r]
      <4> HIDE DEF r
      <4> QED BY <1>2, <2>1, <3>1 DEF FetchAgain
    <3>3. /\ r \in Published /\ r.rev = f.rev /\ r.at = now /\ r.change = f.change
          /\ r.gone = f.gone /\ r.says = f.says
      BY <1>1, <2>0 DEF Published
    <3> HIDE DEF r
    <3>4. Next1(r)
      BY <1>1, <2>0, <3>1, <3>2, <3>3
    <3> QED BY <3>3, <3>4
  <2>2. CASE TakeDown(i)
    <3> DEFINE r == [rev |-> f.rev, at |-> f.at, change |-> LastChange + 1, gone |-> TRUE, says |-> f.says]
    <3>1. f.rev > 0 /\ LastChange < MaxChanges
      BY <2>2 DEF TakeDown
    <3>2. feed' = [feed EXCEPT ![i] = r]
      <4>1. feed' = [feed EXCEPT ![i].gone = TRUE, ![i].change = LastChange + 1]
        BY <2>2 DEF TakeDown
      <4>2. \A j \in Items : feed'[j] = IF j = i THEN [f EXCEPT !.gone = TRUE, !.change = LastChange + 1]
                                        ELSE feed[j]
        BY <1>2, <4>1
      <4>3. [f EXCEPT !.gone = TRUE, !.change = LastChange + 1] = r
        <5> DEFINE yes == TRUE
                   g == [rev |-> f.rev, at |-> f.at, change |-> f.change, gone |-> yes, says |-> f.says]
                   q == [rev |-> f.rev, at |-> f.at, change |-> LastChange + 1, gone |-> yes, says |-> f.says]
        <5> HIDE DEF yes
        <5>1. [f EXCEPT !.gone = yes] = g
          <6> HIDE DEF f
          <6> QED BY <2>0
        <5>2. [g EXCEPT !.change = LastChange + 1] = q
          <6> HIDE DEF f
          <6> QED OBVIOUS
        <5>3. [f EXCEPT !.gone = yes, !.change = LastChange + 1]
                = [[f EXCEPT !.gone = yes] EXCEPT !.change = LastChange + 1]
          <6> HIDE DEF f, r, g
          <6> QED OBVIOUS
        <5> HIDE DEF g, f
        <5>4. [f EXCEPT !.gone = yes, !.change = LastChange + 1] = q
          <6> HIDE DEF q
          <6> QED BY <5>1, <5>2, <5>3
        <5> QED BY <5>4 DEF yes, r, q
      <4>4. feed' = [j \in Items |-> feed'[j]]
        BY <1>2, <4>1
      <4> HIDE DEF r
      <4> QED BY <1>2, <4>2, <4>3, <4>4
    <3>3. /\ r \in Published /\ r.rev = f.rev /\ r.at = f.at /\ r.change = LastChange + 1
          /\ r.says = f.says
      BY <1>1, <2>0, <3>1 DEF Published
    <3> HIDE DEF r
    <3>4. Next1(r)
      BY <1>1, <2>0, <3>1, <3>2, <3>3
    <3> QED BY <3>3, <3>4
  <2>3. CASE \E s \in Statements : Publish(i, s)
    <3>0. PICK s \in Statements : Publish(i, s)
      BY <2>3
    <3> DEFINE r == [rev |-> f.rev + 1, at |-> now, change |-> LastChange + 1, gone |-> FALSE, says |-> s]
    <3>1. LastChange < MaxChanges
      BY <3>0 DEF Publish
    <3>2. feed' = [feed EXCEPT ![i] = r]
      BY <1>2, <3>0 DEF Publish
    <3>3. /\ r \in Published /\ r.rev = f.rev + 1 /\ r.at = now /\ r.change = LastChange + 1
          /\ r.says = s
      BY <1>1, <2>0, <3>1 DEF Published
    <3> HIDE DEF r
    <3>4. Next1(r)
      BY <1>1, <2>0, <3>0, <3>1, <3>2, <3>3
    <3> QED BY <3>3, <3>4
  <2> QED BY <1>5, <2>1, <2>2, <2>3
<1>61. PICK r \in Published : Next1(r)
  BY <1>6
<1>7. UNCHANGED <<now, db, job, requests, faults, raced, inTurn, touched, lost>>
  BY <1>5 DEF FetchAgain, TakeDown, Publish
<1>8. feed' \in [Items -> Published] /\ feed'[i] = r /\ \A j \in Items : j # i => feed'[j] = feed[j]
  BY <1>2, <1>61
<1>9. \A j \in Items : r.change = LastChange + 1 => feed[j].change < r.change
  BY <1>1, <1>3
<1> QED BY <1>3, <1>4, <1>61, <1>7, <1>8, <1>9 DEF FeedMoves

LEMMA FeedKeepsFacts ==
    ASSUME TypeOK, FeedInOrder(feed, now), FeedMoves
    PROVE  /\ FeedInOrder(feed', now)
           /\ \A d \in Database : Behind(d, feed) => Behind(d, feed')
           /\ \A v \in ItemRead : WasPublished(v, feed) => WasPublished(v, feed')
<1>1. /\ \A i \in Items : /\ feed[i].change \in Nat /\ feed[i].rev \in Nat /\ feed[i].at \in Nat
                          /\ feed'[i].change \in Nat /\ feed'[i].rev \in Nat /\ feed'[i].at \in Nat
      /\ now \in Nat
  BY ImporterAssumption DEF TypeOK, FeedMoves, Published
<1>2. \A i \in Items :
         /\ feed'[i].rev >= feed[i].rev /\ feed'[i].at >= feed[i].at /\ feed'[i].at <= now
         /\ feed'[i].rev > 0 => feed'[i].says \in Statements /\ feed'[i].change > 0
         /\ feed'[i].rev = 0 => feed'[i] = Unpublished
  BY DEF FeedMoves
<1>3. \A i \in Items :
        \/ /\ feed'[i].change = feed[i].change /\ feed'[i].rev = feed[i].rev
           /\ feed'[i].gone = feed[i].gone /\ feed'[i].says = feed[i].says
        \/ \A j \in Items : /\ feed[j].change < feed'[i].change
                            /\ j # i => feed'[j].change = feed[j].change
  BY DEF FeedMoves
<1>4. FeedInOrder(feed', now)
  <2>1. ASSUME NEW i \in Items, NEW j \in Items, i # j, feed'[i].change > 0
        PROVE  feed'[i].change # feed'[j].change
    <3>1. feed[i].change > 0 => feed[i].change # feed[j].change
      BY <2>1 DEF FeedInOrder
    <3> QED BY <1>1, <1>3, <2>1, <3>1
  <2>2. ASSUME NEW i \in Items
        PROVE  /\ feed'[i].at <= now
               /\ IF feed'[i].rev = 0 THEN feed'[i] = Unpublished
                  ELSE feed'[i].change > 0 /\ feed'[i].says \in Statements
    BY <1>1, <1>2, <2>2
  <2> QED BY <2>1, <2>2 DEF FeedInOrder
<1>5. ASSUME NEW d \in Database, Behind(d, feed) PROVE Behind(d, feed')
  <2>1. \A k \in Keys : d.src[k].rev \in Nat /\ d.src[k].at \in Nat
    BY DEF Database, SourceRow
  <2>2. ASSUME NEW i \in Items, NEW k \in KeysOf(i)
        PROVE  /\ d.src[k].rev <= feed'[i].rev /\ d.src[k].at <= feed'[i].at
               /\ feed'[i].rev = 0 => d.src[k] = NoSource
    <3>1. /\ d.src[k].rev <= feed[i].rev /\ d.src[k].at <= feed[i].at
          /\ feed[i].rev = 0 => d.src[k] = NoSource
      BY <1>5 DEF Behind
    <3>2. k \in Keys
      BY KeysOfItems
    <3> QED BY <1>1, <1>2, <2>1, <3>1, <3>2
  <2> QED BY <2>2 DEF Behind
<1>6. ASSUME NEW v \in ItemRead, WasPublished(v, feed) PROVE WasPublished(v, feed')
  <2>1. v.item \in Items /\ v.rev \in Nat /\ v.at \in Nat /\ v.change \in Nat
    BY DEF ItemRead
  <2> DEFINE i == v.item
  <2>2. /\ v.rev > 0 /\ v.change > 0 /\ v.says \in Statements
        /\ v.rev <= feed[i].rev /\ v.at <= feed[i].at /\ v.change <= feed[i].change
        /\ v.change = feed[i].change =>
             v.rev = feed[i].rev /\ v.gone = feed[i].gone /\ v.says = feed[i].says
    BY <1>6 DEF WasPublished
  <2>3. /\ feed'[i].rev >= feed[i].rev /\ feed'[i].at >= feed[i].at
        /\ \/ /\ feed'[i].change = feed[i].change /\ feed'[i].rev = feed[i].rev
              /\ feed'[i].gone = feed[i].gone /\ feed'[i].says = feed[i].says
           \/ feed[i].change < feed'[i].change
    BY <1>2, <1>3, <2>1
  <2>4. /\ v.rev <= feed'[i].rev /\ v.at <= feed'[i].at /\ v.change <= feed'[i].change
        /\ v.change = feed'[i].change =>
             v.rev = feed'[i].rev /\ v.gone = feed'[i].gone /\ v.says = feed'[i].says
    <3> HIDE DEF i
    <3>1. i \in Items
      BY <2>1 DEF i
    <3> QED BY <1>1, <2>1, <2>2, <2>3, <3>1
  <2> QED BY <2>2, <2>4 DEF WasPublished
<1> QED BY <1>4, <1>5, <1>6

LEMMA FeedKeeps ==
    ASSUME IInv, FeedMoves
    PROVE  IInv'
<1>1. /\ now' = now /\ db' = db /\ job' = job /\ requests' = requests /\ faults' = faults
      /\ raced' = raced /\ inTurn' = inTurn /\ touched' = touched /\ lost' = lost
      /\ feed' \in [Items -> Published]
  BY DEF FeedMoves
<1>2. TypeOK /\ FeedInOrder(feed, now) /\ JobsInHand(job, db, feed) /\ CursorNeverSkips
      /\ Sound(db) /\ Behind(db, feed) /\ CursorInFeed(db.cursor, feed)
  BY DEF IInv
<1>3. TypeOK'
  BY <1>1, <1>2 DEF TypeOK
<1>4. /\ FeedInOrder(feed', now)
      /\ \A d \in Database : Behind(d, feed) => Behind(d, feed')
      /\ \A v \in ItemRead : WasPublished(v, feed) => WasPublished(v, feed')
  BY <1>2, FeedKeepsFacts
<1>5. \A i \in Items :
        /\ feed[i].change \in Nat /\ feed'[i].change \in Nat
        /\ feed[i].change <= feed'[i].change
        /\ \/ /\ feed'[i].change = feed[i].change /\ feed'[i].rev = feed[i].rev
              /\ feed'[i].gone = feed[i].gone /\ feed'[i].says = feed[i].says
           \/ \A j \in Items : feed[j].change < feed'[i].change
  <2>1. \A i \in Items : feed[i].change \in Nat /\ feed'[i].change \in Nat
    BY <1>1, <1>2, ImporterAssumption DEF TypeOK, Published
  <2>2. \A i \in Items :
        \/ /\ feed'[i].change = feed[i].change /\ feed'[i].rev = feed[i].rev
           /\ feed'[i].gone = feed[i].gone /\ feed'[i].says = feed[i].says
        \/ \A j \in Items : feed[j].change < feed'[i].change
    BY DEF FeedMoves
  <2> QED BY <2>1, <2>2
<1>6. db \in Database /\ db.cursor \in Nat
  BY <1>2, ImporterAssumption DEF TypeOK, Database
<1>7. JobsInHand(job, db, feed')
  <2>1. ASSUME NEW p \in {"pull", "refresh", "person"}
        PROVE  Seen(job[p], db, feed') /\ PageInHand(job[p], feed')
    <3>1. Seen(job[p], db, feed) /\ PageInHand(job[p], feed) /\ job[p].page \in SUBSET ItemRead
      BY <1>2 DEF JobsInHand, TypeOK, Job
    <3> QED BY <1>4, <3>1 DEF Seen, PageInHand
  <2>2. Pulling(job["pull"], db, feed')
    <3> DEFINE j == job["pull"]
    <3>1. Pulling(j, db, feed) /\ j.upTo \in Nat
      BY <1>2, ImporterAssumption DEF JobsInHand, TypeOK, Job
    <3> HIDE DEF j
    <3> SUFFICES ASSUME j.op # "idle" PROVE Pulling(j, db, feed')
      BY DEF Pulling, j
    <3>2. PICK x \in Items : j.upTo <= feed[x].change
      BY <3>1 DEF Pulling
    <3>3. j.upTo <= feed'[x].change
      BY <1>5, <3>1, <3>2
    <3>4. \A i \in Items : feed'[i].change <= j.upTo => feed'[i].change = feed[i].change
      BY <1>5, <3>1, <3>2
    <3> QED BY <3>1, <3>3, <3>4 DEF Pulling
  <2> QED BY <1>2, <2>1, <2>2 DEF JobsInHand
<1>8. CursorInFeed(db.cursor, feed')
  <2> SUFFICES ASSUME db.cursor > 0 PROVE \E i \in Items : db.cursor <= feed'[i].change
    BY DEF CursorInFeed
  <2>1. PICK i \in Items : db.cursor <= feed[i].change
    BY <1>2 DEF CursorInFeed
  <2> QED BY <1>5, <1>6, <2>1
<1>9. CursorNeverSkips'
  <2> SUFFICES ASSUME NEW i \in Items,
                      inTurn, feed'[i].rev > 0, feed'[i].change <= db.cursor, feed'[i].says.usable,
                      ~ \E v \in lost : v.item = i /\ v.change = feed'[i].change
               PROVE  Current(i)'
    BY <1>1 DEF CursorNeverSkips
  <2>1. feed'[i].change > 0
    <3>1. /\ IF feed'[i].rev = 0 THEN feed'[i] = Unpublished ELSE feed'[i].change > 0
      BY <1>4 DEF FeedInOrder
    <3>2. feed'[i].rev # 0
      OBVIOUS
    <3> QED BY <3>1, <3>2
  <2>2. feed'[i].change = feed[i].change /\ feed'[i].rev = feed[i].rev
        /\ feed'[i].gone = feed[i].gone /\ feed'[i].says = feed[i].says
    <3>1. PICK x \in Items : db.cursor <= feed[x].change
      <4>1. db.cursor > 0
        BY <1>5, <1>6, <2>1
      <4> QED BY <1>2, <4>1 DEF CursorInFeed
    <3> QED BY <1>5, <1>6, <3>1
  <2>3. Current(i)
    BY <1>2, <2>2 DEF CursorNeverSkips
  <2> QED BY <1>1, <2>2, <2>3 DEF Current, HasRow
<1> QED BY <1>1, <1>2, <1>3, <1>4, <1>6, <1>7, <1>8, <1>9 DEF IInv

-----------------------------------------------------------------------------
(* Every step keeps the invariant: time passes, a job begins or fails.     *)

LEMMA TickKeeps ==
    ASSUME IInv, Tick
    PROVE  IInv'
<1>1. /\ now' = now + 1 /\ now < MaxTime /\ feed' = feed /\ db' = db /\ job' = job
      /\ requests' = requests /\ faults' = faults
      /\ raced' = raced /\ inTurn' = inTurn /\ touched' = touched /\ lost' = lost
  BY DEF Tick
<1>2. TypeOK'
  BY <1>1, ImporterAssumption DEF IInv, TypeOK
<1>3. FeedInOrder(feed, now + 1)
  <2>1. \A i \in Items : feed[i].at \in Nat /\ now \in Nat
    BY ImporterAssumption DEF IInv, TypeOK, Published
  <2> QED BY <2>1 DEF IInv, FeedInOrder
<1>4. CursorNeverSkips'
  BY <1>1 DEF IInv, CursorNeverSkips, Current, HasRow
<1> QED BY <1>1, <1>2, <1>3, <1>4 DEF IInv

\* One job is another than it was; the rest of the state is not the jobs'.
JobMoves ==
    /\ \E p \in {"pull", "refresh", "person"} : \E j \in Job :
         /\ job' = [job EXCEPT ![p] = j]
         /\ j.op # "idle" => j.seen = db
         /\ PageInHand(j, feed)
         /\ p = "pull" => Pulling(j, db, feed)
         /\ p = "refresh" => Refreshing(j)
         /\ p = "person" => Asking(j, db)
    /\ requests' \in 0 .. MaxRequests /\ faults' \in 0 .. MaxFaults
    /\ UNCHANGED <<now, feed, db, raced, inTurn, touched, lost>>

LEMMA SeesItself ==
    ASSUME NEW d, Sound(d), DropsOnRecord(d.obs), NEW f, Behind(d, f), NEW j, j.op # "idle" => j.seen = d
    PROVE  Seen(j, d, f)
<1>1. d \in Database /\ d.obs \in Seq(Observation)
  BY SoundHas DEF Sound
<1>2. Since(d, d)
  <2>1. Len(d.obs) \in Nat
    BY <1>1
  <2> QED BY <2>1 DEF Since, Prefix
<1> QED BY <1>1, <1>2 DEF Seen

LEMMA JobMovesKeep ==
    ASSUME IInv, JobMoves
    PROVE  IInv'
<1>1. /\ now' = now /\ feed' = feed /\ db' = db
      /\ raced' = raced /\ inTurn' = inTurn /\ touched' = touched /\ lost' = lost
  BY DEF JobMoves
<1>2. PICK p \in {"pull", "refresh", "person"}, j \in Job :
         /\ job' = [job EXCEPT ![p] = j]
         /\ j.op # "idle" => j.seen = db
         /\ PageInHand(j, feed)
         /\ p = "pull" => Pulling(j, db, feed)
         /\ p = "refresh" => Refreshing(j)
         /\ p = "person" => Asking(j, db)
  BY DEF JobMoves
<1>3. job \in [{"pull", "refresh", "person"} -> Job]
  BY DEF IInv, TypeOK
<1>4. TypeOK'
  <2>1. job' \in [{"pull", "refresh", "person"} -> Job]
    BY <1>2, <1>3
  <2> QED BY <1>1, <2>1 DEF IInv, TypeOK, JobMoves
<1>5. Seen(j, db, feed)
  BY <1>2, SeesItself DEF IInv
<1>6. \A q \in {"pull", "refresh", "person"} : job'[q] = IF q = p THEN j ELSE job[q]
  BY <1>2, <1>3
<1>7. JobsInHand(job', db, feed)
  BY <1>2, <1>5, <1>6 DEF IInv, JobsInHand
<1>8. CursorNeverSkips'
  BY <1>1 DEF IInv, CursorNeverSkips, Current, HasRow
<1> QED BY <1>1, <1>4, <1>7, <1>8 DEF IInv

\* The records of jobs that begin.
JobOf(op, page, upTo, link, of, says, seen) ==
    [op |-> op, page |-> page, upTo |-> upTo, link |-> link, of |-> of, says |-> says, seen |-> seen]

LEMMA ReadBegun ==
    ASSUME NEW o, NEW n, NEW p
    PROVE  [Idle EXCEPT !.op = o, !.seen = n, !.page = p] = JobOf(o, p, 0, None, None, None, n)
<1>1. [Idle EXCEPT !.op = o] = JobOf(o, {}, 0, None, None, None, None)
  BY DEF Idle, JobOf
<1>2. [JobOf(o, {}, 0, None, None, None, None) EXCEPT !.seen = n] = JobOf(o, {}, 0, None, None, None, n)
  BY DEF JobOf
<1>3. [JobOf(o, {}, 0, None, None, None, n) EXCEPT !.page = p] = JobOf(o, p, 0, None, None, None, n)
  BY DEF JobOf
<1> QED BY <1>1, <1>2, <1>3

LEMMA PullBegun ==
    ASSUME NEW o, NEW n, NEW p, NEW u
    PROVE  [Idle EXCEPT !.op = o, !.seen = n, !.page = p, !.upTo = u] = JobOf(o, p, u, None, None, None, n)
<1>1. [Idle EXCEPT !.op = o] = JobOf(o, {}, 0, None, None, None, None)
  BY DEF Idle, JobOf
<1>2. [JobOf(o, {}, 0, None, None, None, None) EXCEPT !.seen = n] = JobOf(o, {}, 0, None, None, None, n)
  BY DEF JobOf
<1>3. [JobOf(o, {}, 0, None, None, None, n) EXCEPT !.page = p] = JobOf(o, p, 0, None, None, None, n)
  BY DEF JobOf
<1>4. [JobOf(o, p, 0, None, None, None, n) EXCEPT !.upTo = u] = JobOf(o, p, u, None, None, None, n)
  BY DEF JobOf
<1> QED BY <1>1, <1>2, <1>3, <1>4

LEMMA SubmitBegun ==
    ASSUME NEW o, NEW n, NEW l, NEW s
    PROVE  [Idle EXCEPT !.op = o, !.link = l, !.says = s, !.seen = n] = JobOf(o, {}, 0, l, None, s, n)
<1>1. [Idle EXCEPT !.op = o] = JobOf(o, {}, 0, None, None, None, None)
  BY DEF Idle, JobOf
<1>2. [JobOf(o, {}, 0, None, None, None, None) EXCEPT !.link = l] = JobOf(o, {}, 0, l, None, None, None)
  BY DEF JobOf
<1>3. [JobOf(o, {}, 0, l, None, None, None) EXCEPT !.says = s] = JobOf(o, {}, 0, l, None, s, None)
  BY DEF JobOf
<1>4. [JobOf(o, {}, 0, l, None, s, None) EXCEPT !.seen = n] = JobOf(o, {}, 0, l, None, s, n)
  BY DEF JobOf
<1> QED BY <1>1, <1>2, <1>3, <1>4

LEMMA ObserveBegun ==
    ASSUME NEW o, NEW n, NEW f, NEW s
    PROVE  [Idle EXCEPT !.op = o, !.of = f, !.says = s, !.seen = n] = JobOf(o, {}, 0, None, f, s, n)
<1>1. [Idle EXCEPT !.op = o] = JobOf(o, {}, 0, None, None, None, None)
  BY DEF Idle, JobOf
<1>2. [JobOf(o, {}, 0, None, None, None, None) EXCEPT !.of = f] = JobOf(o, {}, 0, None, f, None, None)
  BY DEF JobOf
<1>3. [JobOf(o, {}, 0, None, f, None, None) EXCEPT !.says = s] = JobOf(o, {}, 0, None, f, s, None)
  BY DEF JobOf
<1>4. [JobOf(o, {}, 0, None, f, s, None) EXCEPT !.seen = n] = JobOf(o, {}, 0, None, f, s, n)
  BY DEF JobOf
<1> QED BY <1>1, <1>2, <1>3, <1>4

LEMMA VersionsRead ==
    ASSUME TypeOK, FeedInOrder(feed, now), NEW i \in Items, feed[i].rev > 0
    PROVE  /\ Version(i) \in ItemRead /\ Version(i).item = i /\ Version(i).change = feed[i].change
           /\ WasPublished(Version(i), feed)
<1>1. feed[i] \in Published /\ feed[i].rev \in Nat /\ feed[i].at \in Nat /\ feed[i].change \in Nat
  BY ImporterAssumption DEF TypeOK, Published
<1>2. feed[i].change > 0 /\ feed[i].says \in Statements
  BY <1>1 DEF FeedInOrder
<1> DEFINE v == Version(i)
<1>3. /\ v.item = i /\ v.rev = feed[i].rev /\ v.at = feed[i].at /\ v.gone = feed[i].gone
      /\ v.says = feed[i].says /\ v.change = feed[i].change /\ v \in ItemRead
  BY <1>1 DEF Version, ItemRead, Published
<1> HIDE DEF v
<1>4. WasPublished(v, feed)
  BY <1>1, <1>2, <1>3 DEF WasPublished
<1> QED BY <1>3, <1>4 DEF v

LEMMA ReadPageMoves ==
    ASSUME IInv, NEW last \in 1 .. MaxChanges, ReadPage(last)
    PROVE  JobMoves
<1> DEFINE page == {v \in Due : v.change <= last}
           j == JobOf("apply", page, last, None, None, None, db)
<1>1. TypeOK /\ FeedInOrder(feed, now) /\ db \in Database /\ db.cursor \in Nat
  BY ImporterAssumption DEF IInv, TypeOK, Database
<1>2. /\ job' = [job EXCEPT !["pull"] = j] /\ \E v \in page : v.change = last
      /\ UNCHANGED <<now, feed, db, requests, faults, raced, inTurn, touched, lost>>
  <2>1. [Idle EXCEPT !.op = "apply", !.seen = db, !.page = page, !.upTo = last] = j
    <3> HIDE DEF page
    <3> QED BY PullBegun
  <2> HIDE DEF j
  <2> QED BY <2>1 DEF ReadPage
<1>3. ASSUME NEW v \in page
      PROVE  \E i \in Items : /\ v = Version(i) /\ v.item = i /\ v.change = feed[i].change
                              /\ v.change > db.cursor /\ v.change <= last
                              /\ v \in ItemRead /\ WasPublished(v, feed)
  <2>1. PICK i \in Items : v = Version(i) /\ feed[i].change > db.cursor
    BY DEF Due
  <2>2. feed[i].rev > 0
    <3>1. feed[i].rev \in Nat /\ feed[i].change \in Nat
      BY <1>1, ImporterAssumption DEF TypeOK, Published
    <3>2. feed[i].rev = 0 => feed[i] = Unpublished
      BY <1>1 DEF FeedInOrder
    <3> QED BY <1>1, <2>1, <3>1, <3>2 DEF Unpublished
  <2>3. /\ v \in ItemRead /\ v.item = i /\ v.change = feed[i].change /\ WasPublished(v, feed)
    BY <1>1, <2>1, <2>2, VersionsRead
  <2> QED BY <2>1, <2>3
<1>4. ASSUME NEW i \in Items, feed[i].change > db.cursor, feed[i].change <= last
      PROVE  \E v \in page : v.item = i /\ v.change = feed[i].change
  <2>1. Version(i) \in page /\ Version(i).item = i /\ Version(i).change = feed[i].change
    BY <1>4 DEF Due, Version
  <2> QED BY <2>1
<1>5. \A v, w \in page : v # w => v.item # w.item /\ v.change # w.change
  <2> SUFFICES ASSUME NEW v \in page, NEW w \in page, v # w PROVE v.item # w.item /\ v.change # w.change
    OBVIOUS
  <2>1. PICK x \in Items : v = Version(x) /\ v.item = x /\ v.change = feed[x].change /\ v.change > db.cursor
    BY <1>3
  <2>2. PICK y \in Items : w = Version(y) /\ w.item = y /\ w.change = feed[y].change
    BY <1>3
  <2>3. feed[x].change \in Nat
    BY <1>1, ImporterAssumption DEF TypeOK, Published
  <2> QED BY <1>1, <2>1, <2>2, <2>3 DEF FeedInOrder
<1> HIDE DEF page
<1>6. last \in 0 .. MaxChanges
  BY ImporterAssumption
<1>7. j \in Job
  BY <1>1, <1>3, <1>6 DEF Job, JobOf
<1>8. j.op = "apply" /\ j.seen = db /\ j.page = page /\ j.upTo = last
  BY DEF JobOf
<1> HIDE DEF j
<1>9. PageInHand(j, feed)
  BY <1>3, <1>5, <1>8 DEF PageInHand
<1>10. Pulling(j, db, feed)
  <2>1. \E i \in Items : last <= feed[i].change
    <3>1. PICK v \in page : v.change = last
      BY <1>2 DEF page
    <3> QED BY <1>3, <3>1, <1>6
  <2>2. \A v \in page : v.change > db.cursor
    BY <1>3
  <2> QED BY <1>4, <1>8, <2>1, <2>2 DEF Pulling
<1>11. requests \in 0 .. MaxRequests /\ faults \in 0 .. MaxFaults
  BY <1>1 DEF TypeOK
<1> QED BY <1>2, <1>7, <1>8, <1>9, <1>10, <1>11 DEF JobMoves

LEMMA ReadItemMoves ==
    ASSUME IInv, NEW i \in Items, ReadItem(i)
    PROVE  JobMoves
<1> DEFINE j == JobOf("apply", {Version(i)}, 0, None, None, None, db)
<1>1. TypeOK /\ FeedInOrder(feed, now) /\ db \in Database /\ Behind(db, feed) /\ RowsTogether(db)
  BY DEF IInv, TypeOK
<1>2. /\ job' = [job EXCEPT !["refresh"] = j] /\ RefreshDue(i)
      /\ UNCHANGED <<now, feed, db, requests, faults, raced, inTurn, touched, lost>>
  <2>1. [Idle EXCEPT !.op = "apply", !.seen = db, !.page = {Version(i)}] = j
    BY ReadBegun
  <2> QED BY <2>1 DEF ReadItem
<1>3. \A k \in KeysOf(i) : db.src[k] # NoSource
  <2>1. PICK k \in Keys : k[1] = i /\ db.src[k].live
    BY <1>2 DEF RefreshDue
  <2>2. db.src[k] # NoSource /\ k \in KeysOf(i)
    BY <2>1, KeysOfItems DEF NoSource
  <2> QED BY <1>1, <2>2 DEF RowsTogether
<1>4. feed[i].rev > 0
  <2>1. PICK k \in KeysOf(i) : db.src[k] # NoSource
    <3>1. PICK k \in Keys : k[1] = i
      BY <1>2 DEF RefreshDue
    <3> QED BY <1>3, <3>1, KeysOfItems
  <2>2. feed[i].rev # 0
    BY <1>1, <2>1 DEF Behind
  <2>3. feed[i].rev \in Nat
    BY <1>1 DEF TypeOK, Published
  <2> QED BY <2>2, <2>3
<1>5. Version(i) \in ItemRead /\ Version(i).item = i /\ WasPublished(Version(i), feed)
  BY <1>1, <1>4, VersionsRead
<1> DEFINE v == Version(i)
<1>6. v \in ItemRead /\ v.item = i /\ WasPublished(v, feed)
  BY <1>5
<1>7. job' = [job EXCEPT !["refresh"] = j] /\ j.op = "apply" /\ j.seen = db /\ j.page = {v}
  BY <1>2 DEF JobOf
<1> HIDE DEF v
<1>8. j \in Job
  <2>1. j = JobOf("apply", {v}, 0, None, None, None, db)
    BY DEF v
  <2> HIDE DEF j
  <2> QED BY <1>1, <1>6, <2>1, ImporterAssumption DEF Job, JobOf
<1> HIDE DEF j
<1>9. PageInHand(j, feed)
  BY <1>6, <1>7 DEF PageInHand
<1>10. Refreshing(j)
  BY <1>3, <1>6, <1>7 DEF Refreshing
<1>11. requests \in 0 .. MaxRequests /\ faults \in 0 .. MaxFaults
  BY <1>1 DEF TypeOK
<1> QED BY <1>2, <1>7, <1>8, <1>9, <1>10, <1>11 DEF JobMoves

LEMMA StartSubmitMoves ==
    ASSUME IInv, NEW link \in {k[2] : k \in Keys}, NEW s \in PersonSays, StartSubmit(link, s)
    PROVE  JobMoves
<1> DEFINE j == JobOf("submit", {}, 0, link, None, s, db)
<1>1. TypeOK /\ db \in Database
  BY DEF IInv, TypeOK
<1>2. /\ job' = [job EXCEPT !["person"] = j]
      /\ FindByUrl(db, link) = None /\ \E o \in Offers \ Keys : ~Exists(db, o)
      /\ requests < MaxRequests /\ requests' = requests + 1
      /\ UNCHANGED <<now, feed, db, faults, raced, inTurn, touched, lost>>
  <2>1. [Idle EXCEPT !.op = "submit", !.link = link, !.says = s, !.seen = db] = j
    BY SubmitBegun
  <2> HIDE DEF j
  <2> QED BY <2>1 DEF StartSubmit, Exists
<1>3. j \in Job
  BY <1>1, ImporterAssumption DEF Job, JobOf
<1>4. j.op = "submit" /\ j.seen = db /\ j.page = {} /\ j.link = link /\ j.says = s
  BY DEF JobOf
<1> HIDE DEF j
<1>5. PageInHand(j, feed) /\ Asking(j, db)
  BY <1>2, <1>4 DEF PageInHand, Asking
<1>6. requests' \in 0 .. MaxRequests /\ faults' \in 0 .. MaxFaults
  BY <1>1, <1>2, ImporterAssumption DEF TypeOK
<1> QED BY <1>2, <1>3, <1>4, <1>5, <1>6 DEF JobMoves

LEMMA StartObserveMoves ==
    ASSUME IInv, NEW o \in Offers, NEW s \in PersonSays, StartObserve(o, s)
    PROVE  JobMoves
<1> DEFINE r == RootOf(db, o)
           j == JobOf("observe", {}, 0, None, r, s, db)
<1>1. TypeOK /\ db \in Database /\ Sound(db)
  BY DEF IInv, TypeOK
<1>2. /\ job' = [job EXCEPT !["person"] = j]
      /\ Exists(db, o) /\ db.offer[r].status # "disabled"
      /\ requests < MaxRequests /\ requests' = requests + 1
      /\ UNCHANGED <<now, feed, db, faults, raced, inTurn, touched, lost>>
  <2>1. [Idle EXCEPT !.op = "observe", !.of = r, !.says = s, !.seen = db] = j
    <3> HIDE DEF r
    <3> QED BY ObserveBegun
  <2> HIDE DEF j
  <2> QED BY <2>1 DEF StartObserve, Exists
<1>3. r \in Offers /\ Exists(db, r) /\ IsRoot(Into(db), r)
  <2>1. db.offer \in [Offers -> OfferRow] /\ Acyclic(Into(db))
    BY <1>1, SoundHas
  <2> QED BY <1>2, <2>1, RootExists
<1> HIDE DEF r
<1>4. j \in Job
  BY <1>1, <1>3, ImporterAssumption DEF Job, JobOf
<1>5. j.op = "observe" /\ j.seen = db /\ j.page = {} /\ j.of = r /\ j.says = s
  BY DEF JobOf
<1> HIDE DEF j
<1>6. PageInHand(j, feed) /\ Asking(j, db)
  BY <1>2, <1>3, <1>5 DEF PageInHand, Asking
<1>7. requests' \in 0 .. MaxRequests /\ faults' \in 0 .. MaxFaults
  BY <1>1, <1>2, ImporterAssumption DEF TypeOK
<1> QED BY <1>2, <1>4, <1>5, <1>6, <1>7 DEF JobMoves

LEMMA IdleIsAJob ==
    ASSUME NEW d, NEW f
    PROVE  Idle \in Job /\ Idle.op = "idle" /\ PageInHand(Idle, f)
           /\ Seen(Idle, d, f) /\ Pulling(Idle, d, f) /\ Refreshing(Idle) /\ Asking(Idle, d)
<1>1. Idle \in Job /\ Idle.op = "idle" /\ Idle.page = {}
  BY ImporterAssumption DEF Idle, Job
<1> QED BY <1>1 DEF PageInHand, Seen, Pulling, Refreshing, Asking

LEMMA FailMoves ==
    ASSUME IInv, NEW p \in {"pull", "refresh"}, Fail(p)
    PROVE  JobMoves
<1>1. requests' \in 0 .. MaxRequests /\ faults' \in 0 .. MaxFaults
  BY ImporterAssumption DEF Fail, IInv, TypeOK
<1>2. job' = [job EXCEPT ![p] = Idle] /\ UNCHANGED <<now, feed, db, raced, inTurn, touched, lost>>
  BY DEF Fail
<1> QED BY <1>1, <1>2, IdleIsAJob DEF JobMoves

-----------------------------------------------------------------------------
(* Every step keeps the invariant: a moderator acts.                       *)

\* The table of offers is another; its ids and its merge pointers are in order.
OffersMove ==
    /\ \E row \in [Offers -> OfferRow] :
         /\ db' = [db EXCEPT !.offer = row]
         /\ \A o \in Offers : row[o].status = "absent" <=> db.offer[o].status = "absent"
         /\ \A o \in Offers : row[o].status = "absent" => row[o] = db.offer[o]
         /\ Acyclic(Into([db EXCEPT !.offer = row]))
    /\ requests' \in 0 .. MaxRequests /\ touched' = TRUE
    /\ UNCHANGED <<now, feed, job, faults, raced, inTurn, lost>>

LEMMA OffersMoveKeeps ==
    ASSUME IInv, OffersMove
    PROVE  IInv'
<1>1. /\ now' = now /\ feed' = feed /\ job' = job /\ faults' = faults /\ requests' \in 0 .. MaxRequests
      /\ raced' = raced /\ inTurn' = inTurn /\ touched' = TRUE /\ lost' = lost
  BY DEF OffersMove
<1>2. PICK row \in [Offers -> OfferRow] :
         /\ db' = [db EXCEPT !.offer = row]
         /\ \A o \in Offers : row[o].status = "absent" <=> db.offer[o].status = "absent"
         /\ \A o \in Offers : row[o].status = "absent" => row[o] = db.offer[o]
         /\ Acyclic(Into([db EXCEPT !.offer = row]))
  BY DEF OffersMove
<1>3. db \in Database /\ Sound(db) /\ DropsOnRecord(db.obs) /\ RowsTogether(db) /\ Behind(db, feed)
      /\ JobsInHand(job, db, feed) /\ CursorInFeed(db.cursor, feed)
  BY DEF IInv, TypeOK
<1>4. /\ db' \in Database /\ db'.src = db.src /\ db'.offer = row /\ db'.obs = db.obs /\ db'.cursor = db.cursor
  BY <1>2, <1>3 DEF Database
<1>5. \A o \in Offers : Exists(db', o) <=> Exists(db, o)
  BY <1>2, <1>4 DEF Exists
<1>6. Acyclic(Into(db'))
  BY <1>2
<1>7. Sound(db')
  <2>1. \A o \in Offers : ~Exists(db', o) => db'.offer[o] = NoOffer
    BY <1>2, <1>3, <1>4, <1>5 DEF Sound, Exists
  <2>2. \A k \in Keys :
         \/ db'.src[k] = NoSource /\ ~Exists(db', k)
         \/ db'.src[k].rev > 0 /\ db'.src[k].offer \in Offers /\ Exists(db', db'.src[k].offer)
    BY <1>3, <1>4, <1>5, ImporterAssumption DEF Sound
  <2> QED BY <1>4, <1>6, <2>1, <2>2 DEF Sound
<1>8. \A s : Since(s, db) => Since(s, db')
  BY <1>4, <1>5 DEF Since
<1>9. JobsInHand(job, db', feed)
  <2>1. \A j : Seen(j, db, feed) => Seen(j, db', feed)
    BY <1>8 DEF Seen
  <2>2. \A j : Pulling(j, db, feed) => Pulling(j, db', feed)
    BY <1>4 DEF Pulling
  <2>3. \A j : Asking(j, db) => Asking(j, db')
    BY <1>5 DEF Asking
  <2> QED BY <1>3, <2>1, <2>2, <2>3 DEF JobsInHand
<1>10. CursorNeverSkips'
  BY <1>1, <1>4 DEF IInv, CursorNeverSkips, Current, HasRow
<1>11. RowsTogether(db') /\ Behind(db', feed) /\ DropsOnRecord(db'.obs) /\ CursorInFeed(db'.cursor, feed)
  BY <1>3, <1>4 DEF RowsTogether, Behind
<1>12. TypeOK'
  BY <1>1, <1>4 DEF IInv, TypeOK
<1>13. FeedInOrder(feed, now)
  BY DEF IInv
<1> HIDE DEF OffersMove
<1> QED BY <1>1, <1>7, <1>9, <1>10, <1>11, <1>12, <1>13 DEF IInv

LEMMA StatusMoves ==
    ASSUME IInv, NEW o \in Offers, NEW st \in {"active", "disabled"}, o \in RootRows,
           Moderate([db.offer EXCEPT ![o].status = st])
    PROVE  OffersMove
<1> DEFINE row == [db.offer EXCEPT ![o].status = st]
           e == [db EXCEPT !.offer = row]
<1>1. Sound(db) /\ db.offer \in [Offers -> OfferRow] /\ db.offer[o].status # "absent" /\ db \in Database
  BY SoundHas DEF IInv, TypeOK, RootRows
<1>2. row \in [Offers -> OfferRow] /\ \A x \in Offers : x # o => row[x] = db.offer[x]
  BY <1>1 DEF OfferRow
<1>3. row[o].status = st /\ row[o].into = db.offer[o].into
  BY <1>1 DEF OfferRow
<1>4. requests' \in 0 .. MaxRequests
  BY ImporterAssumption DEF Moderate, IInv, TypeOK
<1>5. db' = e /\ touched' = TRUE /\ UNCHANGED <<now, feed, job, faults, raced, inTurn, lost>>
  BY DEF Moderate
<1> HIDE DEF row
<1>6. e.offer = row
  BY <1>1 DEF Database
<1>7. Into(e) = Into(db)
  <2> HIDE DEF e
  <2> QED BY <1>1, <1>2, <1>3, <1>6 DEF Into
<1>8. Acyclic(Into(e))
  BY <1>1, <1>7, SoundHas
<1>9. \A x \in Offers : /\ row[x].status = "absent" <=> db.offer[x].status = "absent"
                        /\ row[x].status = "absent" => row[x] = db.offer[x]
  BY <1>1, <1>2, <1>3
<1> QED BY <1>2, <1>4, <1>5, <1>8, <1>9 DEF OffersMove

LEMMA MergeMoves ==
    ASSUME IInv, NEW o \in Offers, NEW into \in Offers, Merge(o, into)
    PROVE  OffersMove
<1> DEFINE row == [db.offer EXCEPT ![o].into = into]
           e == [db EXCEPT !.offer = row]
<1>1. /\ Sound(db) /\ db.offer \in [Offers -> OfferRow] /\ db \in Database /\ Acyclic(Into(db))
      /\ o # into /\ db.offer[o].status # "absent" /\ db.offer[into].status # "absent"
      /\ db.offer[into].into = None
  BY SoundHas DEF IInv, TypeOK, Merge, RootRows
<1>2. row \in [Offers -> OfferRow] /\ \A x \in Offers : x # o => row[x] = db.offer[x]
  BY <1>1 DEF OfferRow
<1>3. row[o].status = db.offer[o].status /\ row[o].into = into
  BY <1>1 DEF OfferRow
<1>4. requests' \in 0 .. MaxRequests
  BY ImporterAssumption DEF Merge, Moderate, IInv, TypeOK
<1>5. db' = e /\ touched' = TRUE /\ UNCHANGED <<now, feed, job, faults, raced, inTurn, lost>>
  BY DEF Merge, Moderate
<1> HIDE DEF row
<1>6. e.offer = row
  BY <1>1 DEF Database
<1>7. Into(e) = [Into(db) EXCEPT ![o] = into]
  <2> HIDE DEF e
  <2>1. /\ DOMAIN Into(e) = {x \in Offers : Exists(e, x)} /\ DOMAIN Into(db) = {x \in Offers : Exists(db, x)}
        /\ \A x \in DOMAIN Into(e) : Into(e)[x] = e.offer[x].into
        /\ \A x \in DOMAIN Into(db) : Into(db)[x] = db.offer[x].into
        /\ Into(e) = [x \in DOMAIN Into(e) |-> Into(e)[x]]
    BY DEF Into, Exists
  <2>2. DOMAIN Into(e) = DOMAIN Into(db)
    BY <1>2, <1>3, <1>6, <2>1 DEF Exists
  <2>3. \A x \in DOMAIN Into(db) : Into(e)[x] = IF x = o THEN into ELSE Into(db)[x]
    BY <1>2, <1>3, <1>6, <2>1, <2>2, SMTT(30)
  <2>4. [Into(db) EXCEPT ![o] = into] = [x \in DOMAIN Into(db) |-> IF x = o THEN into ELSE Into(db)[x]]
    OBVIOUS
  <2> QED BY <2>1, <2>2, <2>3, <2>4
<1>8. Acyclic(Into(e))
  <2>1. o \in DOMAIN Into(db) /\ into \in DOMAIN Into(db) /\ IsRoot(Into(db), into)
    BY <1>1, ImporterAssumption DEF Into, IsRoot
  <2> QED BY <1>1, <1>7, <2>1, MergeKeepsAcyclic
<1>9. \A x \in Offers : /\ row[x].status = "absent" <=> db.offer[x].status = "absent"
                        /\ row[x].status = "absent" => row[x] = db.offer[x]
  BY <1>1, <1>2, <1>3
<1> QED BY <1>2, <1>4, <1>5, <1>8, <1>9 DEF OffersMove

LEMMA ModeratorMoves ==
    ASSUME IInv, NEW o \in Offers, Disable(o) \/ Enable(o) \/ \E into \in Offers : Merge(o, into)
    PROVE  OffersMove
<1>1. CASE Disable(o)
  BY <1>1, StatusMoves DEF Disable
<1>2. CASE Enable(o)
  BY <1>2, StatusMoves DEF Enable
<1>3. ASSUME NEW into \in Offers, Merge(o, into) PROVE OffersMove
  BY <1>3, MergeMoves
<1> QED BY <1>1, <1>2, <1>3

-----------------------------------------------------------------------------
(* Every step keeps the invariant: a transaction commits.                  *)

LEMMA JobsAfterCommit ==
    ASSUME NEW d, NEW f, NEW jobs \in [{"pull", "refresh", "person"} -> Job], JobsInHand(jobs, d, f),
           NEW p \in {"pull", "refresh", "person"}, NEW s, s = jobs[p].seen, NEW n, Commits(n, s, d),
           NEW e, e = Over(n, s, d),
           p # "pull" => /\ e.cursor = d.cursor
                         /\ \A k \in Keys : s.src[k] = NoSource => n.src[k] = NoSource,
           p # "person" => \A o \in Offers \ Keys : Exists(n, o) => Exists(s, o)
    PROVE  JobsInHand([jobs EXCEPT ![p] = Idle], e, f)
<1> DEFINE after == [jobs EXCEPT ![p] = Idle]
<1>1. after[p] = Idle /\ \A q \in {"pull", "refresh", "person"} : q # p => after[q] = jobs[q]
  OBVIOUS
<1> HIDE DEF after
<1>2. ASSUME NEW q \in {"pull", "refresh", "person"}, q # p PROVE Seen(jobs[q], e, f)
  <2> SUFFICES ASSUME jobs[q].op # "idle" PROVE Seen(jobs[q], e, f)
    BY DEF Seen
  <2>1. Seen(jobs[q], d, f)
    BY DEF JobsInHand
  <2> DEFINE x == jobs[q].seen
  <2>2. Since(x, d) /\ x \in Database
    BY <2>1 DEF Seen
  <2>3. x.obs \in Seq(Observation)
    BY <2>2 DEF Database
  <2> HIDE DEF x
  <2>4. Since(x, e)
    BY <2>2, <2>3, SinceOver
  <2> QED BY <2>1, <2>4 DEF Seen, x
<1>3. ASSUME p # "pull" PROVE Pulling(jobs["pull"], e, f)
  <2> SUFFICES ASSUME jobs["pull"].op # "idle" PROVE Pulling(jobs["pull"], e, f)
    BY DEF Pulling
  <2> DEFINE j == jobs["pull"]
  <2>1. Pulling(j, d, f) /\ e.cursor = d.cursor
    BY <1>3 DEF JobsInHand
  <2>2. \A k \in Keys : j.seen.src[k] = NoSource => e.src[k] = NoSource
    <3> SUFFICES ASSUME NEW k \in Keys, j.seen.src[k] = NoSource PROVE e.src[k] = NoSource
      OBVIOUS
    <3>1. d.src[k] = NoSource
      BY <2>1 DEF Pulling
    <3>2. s.src[k] = NoSource
      BY <3>1 DEF Commits, Since
    <3>3. n.src[k] = NoSource
      BY <1>3, <3>2
    <3> QED BY <3>1, <3>3, OverRows
  <2> HIDE DEF j
  <2>3. Pulling(j, e, f)
    BY <2>1, <2>2 DEF Pulling
  <2> QED BY <2>3 DEF j
<1>4. ASSUME p # "person" PROVE Asking(jobs["person"], e)
  <2> DEFINE j == jobs["person"]
  <2>1. Asking(j, d)
    BY DEF JobsInHand
  <2>2. \A o \in Offers \ Keys : ~Exists(d, o) => ~Exists(e, o)
    BY <1>4, OverOffers
  <2> HIDE DEF j
  <2>3. Asking(j, e)
    BY <2>1, <2>2 DEF Asking
  <2> QED BY <2>3 DEF j
<1>5. \A q \in {"pull", "refresh", "person"} : Seen(after[q], e, f) /\ PageInHand(after[q], f)
  BY <1>1, <1>2, IdleIsAJob DEF JobsInHand
<1>6. Pulling(after["pull"], e, f) /\ Refreshing(after["refresh"]) /\ Asking(after["person"], e)
  BY <1>1, <1>3, <1>4, IdleIsAJob DEF JobsInHand
<1> QED BY <1>5, <1>6 DEF JobsInHand, after

LEMMA BehindOver ==
    ASSUME NEW n, NEW s, NEW d, Commits(n, s, d), NEW e, e = Over(n, s, d), NEW f,
           Behind(n, f), Behind(d, f)
    PROVE  Behind(e, f)
<1> SUFFICES ASSUME NEW i \in Items, NEW k \in KeysOf(i)
             PROVE  /\ e.src[k].rev <= f[i].rev /\ e.src[k].at <= f[i].at
                    /\ f[i].rev = 0 => e.src[k] = NoSource
  BY DEF Behind
<1>1. k \in Keys
  BY KeysOfItems
<1>2. /\ n.src[k].rev <= f[i].rev /\ n.src[k].at <= f[i].at /\ (f[i].rev = 0 => n.src[k] = NoSource)
      /\ d.src[k].rev <= f[i].rev /\ d.src[k].at <= f[i].at /\ (f[i].rev = 0 => d.src[k] = NoSource)
  BY DEF Behind
<1>3. /\ e.src[k].rev \in {n.src[k].rev, d.src[k].rev} /\ e.src[k].at \in {n.src[k].at, d.src[k].at}
      /\ e.src[k] = NoSource <=> (n.src[k] = NoSource /\ d.src[k] = NoSource)
  BY <1>1, OverRows
<1> QED BY <1>2, <1>3

\* What a page makes of its rows, seen from the feed.
Lands(n, s, page) ==
    /\ \A k \in Keys : \A v \in page : v.item = k[1] => Outcome(s, n, k, v)
    /\ \A k \in Keys : (\A v \in page : v.item # k[1]) => Stays(s, n, k)

LEMMA PageStaysBehind ==
    ASSUME NEW n, NEW s, NEW page \in SUBSET ItemRead, Lands(n, s, page), s \in Database,
           NEW f \in [Items -> Published], Behind(s, f), \A v \in page : WasPublished(v, f)
    PROVE  Behind(n, f)
<1> SUFFICES ASSUME NEW i \in Items, NEW k \in KeysOf(i)
             PROVE  /\ n.src[k].rev <= f[i].rev /\ n.src[k].at <= f[i].at
                    /\ f[i].rev = 0 => n.src[k] = NoSource
  BY DEF Behind
<1>1. k \in Keys /\ k[1] = i
  BY KeysOfItems
<1>2. s.src[k].rev <= f[i].rev /\ s.src[k].at <= f[i].at /\ (f[i].rev = 0 => s.src[k] = NoSource)
  BY DEF Behind
<1>3. s.src[k] \in SourceRow /\ s.src[k].rev \in Nat /\ s.src[k].at \in Nat /\ f[i].rev \in Nat /\ f[i].at \in Nat
  BY <1>1 DEF Database, SourceRow, Published
<1>4. CASE Stays(s, n, k)
  BY <1>2, <1>4 DEF Stays
<1>5. CASE \E v \in page : v.item = i
  <2>1. PICK v \in page : v.item = i
    BY <1>5
  <2>2. v.rev \in Nat /\ v.at \in Nat /\ v.rev > 0 /\ v.rev <= f[i].rev /\ v.at <= f[i].at
    BY <2>1 DEF WasPublished, ItemRead
  <2>3. CASE Advances(s, n, k, v)
    BY <1>2, <1>3, <2>2, <2>3 DEF Advances, Greater
  <2>4. CASE Withdraws(s, n, k)
    <3>1. n.src[k].rev = s.src[k].rev /\ n.src[k].at = s.src[k].at
      BY <1>3, <2>4 DEF Withdraws, SourceRow
    <3> QED BY <1>2, <1>3, <2>2, <3>1
  <2> QED BY <1>1, <1>4, <2>1, <2>3, <2>4 DEF Lands, Outcome
<1> QED BY <1>1, <1>4, <1>5 DEF Lands

LEMMA RowsStayTogether ==
    ASSUME NEW n, NEW s, NEW d, Commits(n, s, d), NEW e, e = Over(n, s, d),
           NEW page, Lands(n, s, page), RowsTogether(d),
           \/ \A k \in Keys : s.src[k] = NoSource => d.src[k] = NoSource
           \/ \A k \in Keys : s.src[k] = NoSource => n.src[k] = NoSource
    PROVE  RowsTogether(e)
<1> SUFFICES ASSUME NEW i \in Items, NEW k \in KeysOf(i), NEW l \in KeysOf(i), e.src[k] = NoSource
             PROVE  e.src[l] = NoSource
  BY DEF RowsTogether
<1>1. k \in Keys /\ l \in Keys /\ k[1] = i /\ l[1] = i
  BY KeysOfItems
<1>2. /\ n.src[k] = NoSource /\ d.src[k] = NoSource
      /\ n.src[l] = NoSource /\ d.src[l] = NoSource => e.src[l] = NoSource
  BY <1>1, OverRows
<1>3. d.src[l] = NoSource
  BY <1>2 DEF RowsTogether
<1>4. s.src[k] = NoSource /\ s.src[l] = NoSource
  BY <1>1, <1>2, <1>3 DEF Commits, Since
<1>5. CASE \A x \in Keys : s.src[x] = NoSource => n.src[x] = NoSource
  BY <1>1, <1>2, <1>3, <1>4, <1>5
<1>6. CASE \A v \in page : v.item # i
  <2>1. Stays(s, n, l)
    BY <1>1, <1>6 DEF Lands
  <2> QED BY <1>2, <1>3, <1>4, <2>1 DEF Stays
<1>7. CASE \E v \in page : v.item = i
  <2>1. PICK v \in page : v.item = i
    BY <1>7
  <2>2. Outcome(s, n, k, v) /\ Outcome(s, n, l, v)
    BY <1>1, <2>1 DEF Lands
  <2>3. ~NoSource.live
    BY DEF NoSource
  <2>4. ~Advances(s, n, k, v)
    BY <1>2, <2>3 DEF Advances
  <2>5. v.gone \/ ~v.says.usable
    BY <1>4, <2>2, <2>4 DEF Outcome
  <2>6. Stays(s, n, l)
    BY <1>4, <2>2, <2>3, <2>5 DEF Outcome, Withdraws
  <2> QED BY <1>2, <1>3, <1>4, <2>6 DEF Stays
<1> QED BY <1>5, <1>6, <1>7

\* An item is as the feed has it.
CurrentIn(d, f, i) ==
    IF f[i].gone THEN \A k \in KeysOf(i) : ~d.src[k].live
    ELSE \A k \in KeysOf(i) : d.src[k] # NoSource /\ (d.src[k].live => d.src[k].rev = f[i].rev)

LEMMA StaysCurrent ==
    ASSUME NEW n, NEW s \in Database, NEW page \in SUBSET ItemRead, Lands(n, s, page),
           NEW f \in [Items -> Published], Behind(s, f), \A v \in page : WasPublished(v, f),
           NEW i \in Items, CurrentIn(s, f, i),
           \A v \in page : v.item = i => \A k \in KeysOf(i) : s.src[k] # NoSource
    PROVE  CurrentIn(n, f, i)
<1> SUFFICES ASSUME NEW k \in KeysOf(i)
             PROVE  IF f[i].gone THEN ~n.src[k].live
                    ELSE n.src[k] # NoSource /\ (n.src[k].live => n.src[k].rev = f[i].rev)
  BY DEF CurrentIn
<1>1. k \in Keys /\ k[1] = i
  BY KeysOfItems
<1>2. s.src[k] \in SourceRow /\ s.src[k].rev \in Nat /\ f[i].rev \in Nat
  BY <1>1 DEF Database, SourceRow, Published
<1>3. IF f[i].gone THEN ~s.src[k].live ELSE s.src[k] # NoSource /\ (s.src[k].live => s.src[k].rev = f[i].rev)
  BY DEF CurrentIn
<1>4. CASE Stays(s, n, k)
  BY <1>3, <1>4 DEF Stays
<1>5. CASE \E v \in page : v.item = i
  <2>1. PICK v \in page : v.item = i
    BY <1>5
  <2>2. v.rev \in Nat /\ v.rev > 0 /\ v.rev <= f[i].rev /\ s.src[k] # NoSource
    BY <2>1 DEF WasPublished, ItemRead
  <2>3. CASE Advances(s, n, k, v)
    <3>1. s.src[k].live /\ n.src[k].live /\ n.src[k].rev = Greater(v.rev, s.src[k].rev)
      BY <2>2, <2>3 DEF Advances
    <3>2. ~f[i].gone /\ s.src[k].rev = f[i].rev
      BY <1>3, <3>1
    <3>3. n.src[k].rev = f[i].rev /\ n.src[k] # NoSource
      BY <1>2, <2>2, <3>1, <3>2 DEF Greater, NoSource
    <3> QED BY <3>1, <3>2, <3>3
  <2>4. CASE Withdraws(s, n, k)
    <3>1. ~n.src[k].live /\ n.src[k].rev = s.src[k].rev /\ s.src[k].live
      BY <1>2, <2>4 DEF Withdraws, SourceRow
    <3>2. s.src[k].rev = f[i].rev /\ ~f[i].gone
      BY <1>3, <3>1
    <3>3. n.src[k] # NoSource
      BY <1>2, <2>2, <3>1, <3>2 DEF NoSource
    <3> QED BY <3>1, <3>2, <3>3
  <2> QED BY <1>1, <1>4, <2>1, <2>3, <2>4 DEF Lands, Outcome
<1> QED BY <1>1, <1>4, <1>5 DEF Lands

LEMMA BecomesCurrent ==
    ASSUME NEW n, NEW s \in Database, NEW page \in SUBSET ItemRead, Lands(n, s, page),
           NEW f \in [Items -> Published], Behind(s, f), NEW v \in page, WasPublished(v, f),
           v.change = f[v.item].change, v.says.usable
    PROVE  CurrentIn(n, f, v.item)
<1> DEFINE i == v.item
<1>1. i \in Items /\ v.rev \in Nat /\ f[i].rev \in Nat
  BY DEF ItemRead, Published
<1>2. v.rev = f[i].rev /\ v.gone = f[i].gone /\ v.rev > 0
  BY DEF WasPublished
<1> SUFFICES ASSUME NEW k \in KeysOf(i)
             PROVE  IF f[i].gone THEN ~n.src[k].live
                    ELSE n.src[k] # NoSource /\ (n.src[k].live => n.src[k].rev = f[i].rev)
  BY DEF CurrentIn
<1>3. k \in Keys /\ k[1] = i
  BY <1>1, KeysOfItems
<1>4. s.src[k] \in SourceRow /\ s.src[k].rev \in Nat /\ s.src[k].rev <= f[i].rev
  BY <1>1, <1>3 DEF Database, SourceRow, Behind
<1>5. Outcome(s, n, k, v)
  BY <1>3 DEF Lands
<1> HIDE DEF i
<1>6. CASE v.gone
  <2>1. CASE Withdraws(s, n, k)
    <3>1. ~n.src[k].live
      BY <1>4, <2>1 DEF Withdraws, SourceRow
    <3> QED BY <1>2, <1>6, <3>1
  <2>2. CASE Stays(s, n, k) /\ ~s.src[k].live
    BY <1>2, <1>6, <2>2 DEF Stays
  <2> QED BY <1>5, <1>6, <2>1, <2>2 DEF Outcome
<1>7. CASE ~v.gone
  <2>1. CASE Advances(s, n, k, v)
    <3>1. n.src[k].live /\ n.src[k].rev = Greater(v.rev, s.src[k].rev)
      BY <2>1 DEF Advances
    <3>2. n.src[k].rev = f[i].rev /\ n.src[k] # NoSource
      BY <1>1, <1>2, <1>4, <3>1 DEF Greater, NoSource
    <3> QED BY <1>2, <1>7, <3>1, <3>2
  <2>2. CASE Stays(s, n, k) /\ s.src[k] # NoSource /\ (s.src[k].live => v.rev <= s.src[k].rev)
    BY <1>1, <1>2, <1>4, <1>7, <2>2 DEF Stays
  <2> QED BY <1>5, <1>7, <2>1, <2>2 DEF Outcome
<1> QED BY <1>6, <1>7

\* What a transaction of an import is about to commit.
Importing(p, page, c, n) ==
    /\ job[p].op # "idle" /\ page \in SUBSET job[p].page /\ c \in 0 .. MaxChanges
    /\ n = PageAndCursor(job[p].seen, page, now, c)

LEMMA ImportReady ==
    ASSUME IInv, NEW p \in {"pull", "refresh"}, NEW page, NEW c, NEW n, Importing(p, page, c, n),
           NEW s, s = job[p].seen
    PROVE  /\ Commits(n, s, db) /\ n.cursor = c /\ Lands(n, s, page)
           /\ Untouched(s) => Untouched(n)
           /\ \A o \in Offers \ Keys : Exists(n, o) => Exists(s, o)
           /\ p = "refresh" => \A k \in Keys : s.src[k] = NoSource => n.src[k] = NoSource
           /\ page \in SUBSET ItemRead /\ (\A v \in page : WasPublished(v, feed))
           /\ s \in Database /\ Behind(s, feed)
<1> DEFINE j == job[p]
<1>1. /\ Seen(j, db, feed) /\ PageInHand(j, feed) /\ j.op # "idle" /\ j \in Job /\ now \in Nat
      /\ Sound(db) /\ DropsOnRecord(db.obs)
      /\ (p = "pull" => Pulling(j, db, feed)) /\ (p = "refresh" => Refreshing(j))
  BY ImporterAssumption DEF IInv, JobsInHand, TypeOK, Importing
<1>2. /\ page \in SUBSET j.page /\ c \in 0 .. MaxChanges /\ s = j.seen
      /\ n = PageAndCursor(s, page, now, c)
  BY DEF Importing
<1> HIDE DEF j
<1>3. /\ s \in Database /\ Sound(s) /\ Since(s, db) /\ Behind(s, feed) /\ DropsOnRecord(s.obs)
  BY <1>1, <1>2 DEF Seen
<1>4. page \in SUBSET ItemRead /\ \A v \in page : WasPublished(v, feed)
  BY <1>1, <1>2 DEF Job, PageInHand
<1>5. OnePage(page)
  BY <1>1, <1>2, <1>4 DEF OnePage, PageInHand, WasPublished
<1> DEFINE e == ImportPage(s, page, now)
<1>6. /\ Follows(s, e)
      /\ \A k \in Keys : (\A v \in page : v.item # k[1]) => Stays(s, e, k)
  BY <1>1, <1>3, <1>5, PageApplied
<1>7. n = [e EXCEPT !.cursor = c]
  BY <1>2 DEF PageAndCursor
<1> HIDE DEF e
<1>8. n.src = e.src
  <2>1. e \in Database
    BY <1>6 DEF Follows, Sound
  <2> QED BY <1>7, <2>1 DEF Database
<1>9. ASSUME p = "refresh", NEW k \in Keys, s.src[k] = NoSource PROVE n.src[k] = NoSource
  <2>1. \A v \in page : v.item # k[1]
    BY <1>1, <1>2, <1>9, KeysOfItems DEF Refreshing
  <2> QED BY <1>6, <1>8, <1>9, <2>1 DEF Stays
<1>10. \A k \in Keys : s.src[k] = NoSource /\ n.src[k] # NoSource => db.src[k] = NoSource
  BY <1>1, <1>2, <1>9 DEF Pulling
<1>11. /\ Commits(n, s, db) /\ n.cursor = c
       /\ \A k \in Keys : \A v \in page : v.item = k[1] => Outcome(s, n, k, v)
       /\ \A k \in Keys : (\A v \in page : v.item # k[1]) => Stays(s, n, k)
       /\ Untouched(s) => Untouched(n)
       /\ \A o \in Offers \ Keys : Exists(n, o) => Exists(s, o)
  <2>1. /\ Sound(s) /\ DropsOnRecord(s.obs) /\ Sound(db) /\ DropsOnRecord(db.obs) /\ Since(s, db)
        /\ OnePage(page) /\ now \in Nat /\ c \in 0 .. MaxChanges
        /\ n = PageAndCursor(s, page, now, c)
    BY <1>1, <1>2, <1>3, <1>5
  <2> QED BY ONLY <2>1, <1>10, PageCommits
<1> QED BY <1>3, <1>4, <1>9, <1>11 DEF Lands

LEMMA ImportKeeps ==
    ASSUME IInv, NEW p \in {"pull", "refresh"}, NEW page, NEW c, NEW n, Importing(p, page, c, n),
           Commit(p, n), now' = now, feed' = feed, requests' = requests, touched' = touched,
           faults' \in 0 .. MaxFaults, lost \subseteq lost', lost' \subseteq ItemRead,
           p = "refresh" => c = job[p].seen.cursor,
           p = "pull" => c = job[p].upTo /\ \A v \in job[p].page : v \in page \/ v \in lost'
    PROVE  IInv'
<1> DEFINE s == job[p].seen
           e == Over(n, s, db)
<1>1. /\ Commits(n, s, db) /\ n.cursor = c /\ Lands(n, s, page)
      /\ Untouched(s) => Untouched(n)
      /\ \A o \in Offers \ Keys : Exists(n, o) => Exists(s, o)
      /\ p = "refresh" => \A k \in Keys : s.src[k] = NoSource => n.src[k] = NoSource
      /\ page \in SUBSET ItemRead /\ (\A v \in page : WasPublished(v, feed))
      /\ s \in Database /\ Behind(s, feed)
  BY ImportReady
<1>2. /\ db' = e /\ job' = [job EXCEPT ![p] = Idle]
      /\ raced' = (raced \/ s # db) /\ inTurn' = (inTurn /\ s.src = db.src)
      /\ job[p].op # "idle" /\ page \in SUBSET job[p].page
  BY DEF Commit, Importing
<1>3. /\ TypeOK /\ FeedInOrder(feed, now) /\ RowsTogether(db) /\ Behind(db, feed)
      /\ JobsInHand(job, db, feed) /\ CursorInFeed(db.cursor, feed) /\ CursorNeverSkips
      /\ raced \/ touched \/ Untouched(db)
  BY DEF IInv
<1>4. /\ job \in [{"pull", "refresh", "person"} -> Job] /\ feed \in [Items -> Published]
      /\ p \in {"pull", "refresh", "person"} /\ db \in Database
  BY <1>3 DEF TypeOK
<1>5. p = "pull" => Pulling(job[p], db, feed)
  BY <1>3 DEF JobsInHand
<1>6. p = "refresh" => Refreshing(job[p])
  BY <1>3 DEF JobsInHand
<1> HIDE DEF s
<1>7. e.cursor = Changed(n.cursor, s.cursor, db.cursor) /\ e \in Database /\ DropsOnRecord(e.obs)
  BY <1>1, OverHas
<1>8. /\ p = "refresh" => e.cursor = db.cursor
      /\ p = "pull" => e.cursor = c /\ s.cursor = db.cursor
  BY <1>1, <1>2, <1>5, <1>7 DEF Changed, Pulling, s
<1>9. Sound(e)
  BY <1>1, OverIsSound
<1>10. RowsTogether(e)
  <2>1. \/ \A k \in Keys : s.src[k] = NoSource => db.src[k] = NoSource
        \/ \A k \in Keys : s.src[k] = NoSource => n.src[k] = NoSource
    BY <1>1, <1>2, <1>5 DEF Pulling, s
  <2> QED BY <1>1, <1>3, <2>1, RowsStayTogether
<1>11. Behind(e, feed)
  <2>1. Behind(n, feed)
    BY <1>1, <1>4, PageStaysBehind
  <2> QED BY <1>1, <1>3, <2>1, BehindOver
<1>12. JobsInHand(job', e, feed)
  <2>1. p # "pull" => /\ e.cursor = db.cursor
                      /\ \A k \in Keys : s.src[k] = NoSource => n.src[k] = NoSource
    BY <1>1, <1>8
  <2> HIDE DEF e
  <2>2. JobsInHand([job EXCEPT ![p] = Idle], e, feed)
    BY <1>1, <1>3, <1>4, <2>1, JobsAfterCommit DEF s, e
  <2> QED BY <1>2, <2>2
<1>13. CursorInFeed(e.cursor, feed)
  <2>1. CASE p = "refresh"
    BY <1>3, <1>8, <2>1
  <2>2. CASE p = "pull"
    BY <1>2, <1>5, <1>8, <2>2 DEF Pulling, CursorInFeed
  <2> QED BY <2>1, <2>2
<1> HIDE DEF e
<1>14. CursorNeverSkips'
  <2> SUFFICES ASSUME NEW i \in Items, inTurn', feed[i].rev > 0, feed[i].change <= e.cursor,
                      feed[i].says.usable,
                      ~ \E v \in lost' : v.item = i /\ v.change = feed[i].change
               PROVE  Current(i)'
    BY <1>2 DEF CursorNeverSkips
  <2>1. inTurn /\ s.src = db.src
    BY <1>2
  <2>2. \A k \in KeysOf(i) : e.src[k] = n.src[k]
    BY <1>1, <2>1, KeysOfItems, OverRows DEF e
  <2>3. Current(i)' <=> CurrentIn(e, feed, i)
    BY <1>2 DEF Current, HasRow, CurrentIn
  <2>4. CurrentIn(n, feed, i) => CurrentIn(e, feed, i)
    BY <2>2 DEF CurrentIn
  <2>5. feed[i].change \in Nat /\ db.cursor \in Nat
    BY <1>4, ImporterAssumption DEF Published, Database
  <2>6. CASE feed[i].change <= db.cursor
    <3>1. ~ \E v \in lost : v.item = i /\ v.change = feed[i].change
      OBVIOUS
    <3>2. Current(i)
      BY <1>3, <2>1, <2>6, <3>1 DEF CursorNeverSkips
    <3>3. CurrentIn(s, feed, i)
      BY <2>1, <3>2 DEF Current, HasRow, CurrentIn
    <3>4. \A v \in page : v.item = i => \A k \in KeysOf(i) : s.src[k] # NoSource
      <4>1. CASE p = "refresh"
        BY <1>2, <1>6, <4>1 DEF Refreshing, s
      <4>2. CASE p = "pull"
        <5> SUFFICES ASSUME NEW v \in page, v.item = i PROVE FALSE
          OBVIOUS
        <5>1. v.change > db.cursor /\ v.change <= feed[i].change /\ v.change \in Nat
          BY <1>1, <1>2, <1>5, <4>2, ImporterAssumption DEF Pulling, WasPublished, ItemRead
        <5> QED BY <2>5, <2>6, <5>1
      <4> QED BY <4>1, <4>2
    <3>5. CurrentIn(n, feed, i)
      BY <1>1, <1>4, <3>3, <3>4, StaysCurrent
    <3> QED BY <2>3, <2>4, <3>5
  <2>7. CASE feed[i].change > db.cursor
    <3>1. p = "pull" /\ feed[i].change <= job[p].upTo
      BY <1>8, <2>5, <2>7
    <3>2. PICK v \in job[p].page : v.item = i /\ v.change = feed[i].change
      BY <1>2, <1>5, <2>7, <3>1 DEF Pulling
    <3>3. v \in page
      BY <3>1, <3>2
    <3>4. v.says = feed[i].says
      BY <1>1, <3>2, <3>3 DEF WasPublished
    <3>5. CurrentIn(n, feed, i)
      BY <1>1, <1>4, <3>2, <3>3, <3>4, BecomesCurrent
    <3> QED BY <2>3, <2>4, <3>5
  <2> QED BY <2>5, <2>6, <2>7
<1>15. raced' \/ touched' \/ Untouched(e)
  <2> SUFFICES ASSUME ~raced', ~touched' PROVE Untouched(e)
    OBVIOUS
  <2>1. s = db /\ Untouched(db)
    BY <1>2, <1>3
  <2>2. e = n
    BY <1>1, <2>1, OverSeesAll DEF e
  <2> QED BY <1>1, <2>1, <2>2
<1>16. TypeOK'
  <2>1. job' \in [{"pull", "refresh", "person"} -> Job]
    BY <1>2, <1>4, IdleIsAJob
  <2> QED BY <1>2, <1>3, <1>7, <2>1 DEF TypeOK
<1> QED BY <1>2, <1>3, <1>7, <1>9, <1>10, <1>11, <1>12, <1>13, <1>14, <1>15, <1>16 DEF IInv

LEMMA PagesAreFinite ==
    ASSUME NEW f, NEW j \in Job, PageInHand(j, f)
    PROVE  IsFiniteSet(j.page)
<1>1. j.page \in SUBSET ItemRead
  BY DEF Job
<1> DEFINE g == [v \in j.page |-> v.change]
<1>2. g \in Injection(j.page, 0 .. MaxChanges)
  BY <1>1 DEF PageInHand, ItemRead, Injection, IsInjective
<1>3. IsFiniteSet(0 .. MaxChanges)
  BY ImporterAssumption, FS_Interval
<1> HIDE DEF g
<1> QED BY <1>2, <1>3, FS_Injection DEF ExistsInjection

LEMMA CommitPageImports ==
    ASSUME IInv, NEW bad \in SUBSET job["pull"].page, CommitPage(bad),
           NEW n, n = PageAndCursor(job["pull"].seen, job["pull"].page \ bad, now, job["pull"].upTo)
    PROVE  /\ Importing("pull", job["pull"].page \ bad, job["pull"].upTo, n) /\ Commit("pull", n)
           /\ UNCHANGED <<now, feed, requests, touched>>
<1> DEFINE j == job["pull"]
<1>1. Commit("pull", n) /\ UNCHANGED <<now, feed, requests, touched>>
  BY DEF CommitPage, PageAndCursor, Passed
<1>2. j \in Job
  BY DEF IInv, TypeOK
<1>3. j.upTo \in 0 .. MaxChanges /\ j.op # "idle"
  BY <1>1, <1>2 DEF Job, Commit
<1> QED BY <1>1, <1>3 DEF Importing

LEMMA CommitPageKeeps ==
    ASSUME IInv, NEW bad \in SUBSET job["pull"].page, CommitPage(bad)
    PROVE  IInv'
<1> DEFINE j == job["pull"]
           n == PageAndCursor(j.seen, j.page \ bad, now, j.upTo)
<1>1. /\ Importing("pull", j.page \ bad, j.upTo, n) /\ Commit("pull", n)
      /\ UNCHANGED <<now, feed, requests, touched>>
  BY CommitPageImports
<1>2. /\ faults + Cardinality(bad) <= MaxFaults
      /\ faults' = faults + Cardinality(bad) /\ lost' = lost \cup bad
  BY DEF CommitPage
<1>3. j \in Job /\ faults \in 0 .. MaxFaults /\ lost \subseteq ItemRead /\ PageInHand(j, feed)
  BY DEF IInv, TypeOK, JobsInHand
<1>4. Cardinality(bad) \in Nat
  BY <1>3, PagesAreFinite, FS_Subset, FS_CardinalityType
<1>5. faults' \in 0 .. MaxFaults /\ lost' \subseteq ItemRead
  BY <1>2, <1>3, <1>4, ImporterAssumption DEF Job
<1>6. \A v \in j.page : v \in j.page \ bad \/ v \in lost'
  BY <1>2
<1> HIDE DEF n
<1> QED BY <1>1, <1>2, <1>5, <1>6, ImportKeeps

LEMMA CommitItemImports ==
    ASSUME IInv, CommitItem, NEW j, j = job["refresh"],
           NEW n, n = PageAndCursor(j.seen, j.page, now, j.seen.cursor)
    PROVE  /\ Importing("refresh", j.page, j.seen.cursor, n) /\ Commit("refresh", n)
           /\ UNCHANGED <<now, feed, requests, faults, touched, lost>>
<1> DEFINE s == j.seen
           e == ImportPage(s, j.page, now)
<1>1. Commit("refresh", e) /\ UNCHANGED <<now, feed, requests, faults, touched, lost>>
  BY DEF CommitItem
<1>2. j.op # "idle" /\ Seen(j, db, feed) /\ PageInHand(j, feed) /\ j \in Job /\ now \in Nat
  BY <1>1, ImporterAssumption DEF Commit, IInv, JobsInHand, TypeOK
<1>3. Sound(s) /\ DropsOnRecord(s.obs) /\ s.cursor \in 0 .. MaxChanges
  BY <1>2, SoundHas DEF Seen
<1>4. OnePage(j.page)
  BY <1>2 DEF OnePage, PageInHand, WasPublished, Job
<1> HIDE DEF e
<1>5. Follows(s, e)
  <2> HIDE DEF s
  <2> QED BY <1>2, <1>3, <1>4, PageApplied DEF e
<1>6. e = n
  <2>1. e \in Database /\ e.cursor = s.cursor
    BY <1>5 DEF Follows, Sound
  <2>2. e = [e EXCEPT !.cursor = s.cursor]
    BY <2>1 DEF Database
  <2> QED BY <2>2 DEF PageAndCursor, e
<1> QED BY <1>1, <1>2, <1>3, <1>6 DEF Importing

LEMMA CommitItemKeeps ==
    ASSUME IInv, CommitItem
    PROVE  IInv'
<1> DEFINE j == job["refresh"]
           n == PageAndCursor(j.seen, j.page, now, j.seen.cursor)
<1>1. /\ Importing("refresh", j.page, j.seen.cursor, n) /\ Commit("refresh", n)
      /\ UNCHANGED <<now, feed, requests, faults, touched, lost>>
  BY CommitItemImports
<1>2. faults \in 0 .. MaxFaults /\ lost \subseteq ItemRead
  BY DEF IInv, TypeOK
<1> HIDE DEF n
<1> QED BY <1>1, <1>2, ImportKeeps

-----------------------------------------------------------------------------
(* A person's report commits.                                              *)

\* c is what was seen, s, with the offer o the report is about, which exists
\* and is shown or is made with an id that is still free.
Reports(s, d, c, o) ==
    /\ o \in Offers /\ c.offer \in [Offers -> OfferRow] /\ c.offer[o].status = "active"
    /\ c = [src |-> s.src, offer |-> c.offer, obs |-> s.obs, cursor |-> s.cursor]
    /\ \A p \in Offers : p # o => c.offer[p] = s.offer[p]
    /\ \/ Exists(s, o) /\ c.offer[o] = s.offer[o] /\ IsRoot(Into(s), o)
       \/ /\ ~Exists(s, o) /\ o \notin Keys /\ ~Exists(d, o)
          /\ c.offer[o].into = None /\ c.offer[o].origin = "community"
          /\ \A p \in Offers : s.offer[p].status = "active" => s.offer[p].link # c.offer[o].link

LEMMA ReportIsSound ==
    ASSUME NEW s, Sound(s), NEW d, NEW c, NEW o, Reports(s, d, c, o)
    PROVE  /\ c.src = s.src /\ c.obs = s.obs /\ c.cursor = s.cursor
           /\ IsRoot(Into(c), o) /\ Acyclic(Into(c))
           /\ \A p \in Offers : Exists(c, p) <=> Exists(s, p) \/ p = o
           /\ \A p \in Offers : ~Exists(c, p) => c.offer[p] = NoOffer
<1>1. /\ o \in Offers /\ c.offer \in [Offers -> OfferRow] /\ c.offer[o].status = "active"
      /\ c = [src |-> s.src, offer |-> c.offer, obs |-> s.obs, cursor |-> s.cursor]
      /\ \A p \in Offers : p # o => c.offer[p] = s.offer[p]
  BY DEF Reports
<1>2. c.src = s.src /\ c.obs = s.obs /\ c.cursor = s.cursor
  BY <1>1
<1>3. \A p \in Offers : Exists(c, p) <=> Exists(s, p) \/ p = o
  BY <1>1 DEF Exists
<1>4. \A p \in Offers : ~Exists(c, p) => c.offer[p] = NoOffer
  BY <1>1, <1>3 DEF Sound
<1>5. DOMAIN Into(s) = {x \in Offers : Exists(s, x)} /\ DOMAIN Into(c) = {x \in Offers : Exists(c, x)}
  BY DEF Into, Exists
<1>6. \A x \in DOMAIN Into(c) : Into(c)[x] = c.offer[x].into
  BY DEF Into
<1>7. \A x \in DOMAIN Into(s) : Into(s)[x] = s.offer[x].into
  BY DEF Into
<1>8. ~Exists(s, o) => c.offer[o].into = None
  BY DEF Reports
<1>9. Exists(s, o) => c.offer[o] = s.offer[o] /\ IsRoot(Into(s), o)
  BY DEF Reports
<1>10. None \notin DOMAIN Into(c) /\ DOMAIN Into(s) \subseteq DOMAIN Into(c)
  BY <1>3, <1>5, ImporterAssumption
<1>11. Acyclic(Into(c))
  <2>1. \A x \in DOMAIN Into(c) :
           IF x \in DOMAIN Into(s) THEN Into(c)[x] = Into(s)[x] ELSE Into(c)[x] = None
    BY <1>1, <1>3, <1>5, <1>6, <1>7, <1>8, <1>9
  <2> QED BY <1>10, <2>1, SoundHas, NewRootsKeepAcyclic
<1>12. IsRoot(Into(c), o)
  <2>1. CASE Exists(s, o)
    <3>1. c.offer = s.offer
      BY <1>1, <1>9, <2>1, SoundHas
    <3>2. Into(c) = Into(s)
      BY <3>1 DEF Into
    <3> QED BY <1>9, <2>1, <3>2
  <2>2. CASE ~Exists(s, o)
    BY <1>1, <1>3, <1>5, <1>6, <1>8, <1>10, <2>2 DEF IsRoot
  <2> QED BY <2>1, <2>2
<1> QED BY <1>2, <1>3, <1>4, <1>11, <1>12

\* n is c with the report's observation x.
ReportAdded(s, c, o, x, n) ==
    /\ x \in Observation /\ x.offer = o /\ x.key = None /\ x.origin = "community"
    /\ DropsOnRecord(Append(s.obs, x))
    /\ ToldOnce(s.obs) => ToldOnce(Append(s.obs, x))
    /\ n = [c EXCEPT !.obs = Append(s.obs, x)]

LEMMA ReportCommits ==
    ASSUME NEW s, Sound(s), NEW d, Sound(d), DropsOnRecord(d.obs), Since(s, d),
           NEW c, NEW o, Reports(s, d, c, o), NEW x, NEW n, ReportAdded(s, c, o, x, n)
    PROVE  /\ Commits(n, s, d) /\ n.src = s.src /\ n.cursor = s.cursor
           /\ Untouched(s) => Untouched(n)
           /\ \A k \in Keys : Count(n.obs, k) = Count(s.obs, k)
<1> DEFINE b == Len(s.obs)
           obs == Append(s.obs, x)
<1>0. /\ x \in Observation /\ x.offer = o /\ x.key = None /\ x.origin = "community"
      /\ DropsOnRecord(obs)
      /\ ToldOnce(s.obs) => ToldOnce(obs)
      /\ n = [c EXCEPT !.obs = obs]
  BY DEF ReportAdded
<1>1. /\ s.src \in [Keys -> SourceRow] /\ s.offer \in [Offers -> OfferRow] /\ s.obs \in Seq(Observation)
      /\ s.cursor \in 0 .. MaxChanges
  BY SoundHas
<1>2. /\ b \in Nat /\ DOMAIN s.obs = 1 .. b /\ DOMAIN obs = 1 .. b + 1 /\ obs[b + 1] = x
      /\ (\A m \in 1 .. b : obs[m] = s.obs[m]) /\ obs \in Seq(Observation) /\ Len(obs) = b + 1
  BY <1>0, <1>1
<1>3. /\ o \in Offers /\ c.offer \in [Offers -> OfferRow] /\ c.offer[o].status = "active"
      /\ c = [src |-> s.src, offer |-> c.offer, obs |-> s.obs, cursor |-> s.cursor]
      /\ \A p \in Offers : p # o => c.offer[p] = s.offer[p]
  BY DEF Reports
<1>4. /\ IsRoot(Into(c), o) /\ Acyclic(Into(c))
      /\ \A p \in Offers : Exists(c, p) <=> Exists(s, p) \/ p = o
      /\ \A p \in Offers : ~Exists(c, p) => c.offer[p] = NoOffer
  BY ReportIsSound
<1> HIDE DEF obs
<1>5. n = [src |-> s.src, offer |-> c.offer, obs |-> obs, cursor |-> s.cursor]
  <2> DEFINE off == c.offer
             e == [src |-> s.src, offer |-> off, obs |-> s.obs, cursor |-> s.cursor]
  <2>1. c = e
    BY <1>3
  <2> HIDE DEF off
  <2>2. [e EXCEPT !.obs = obs] = [src |-> s.src, offer |-> off, obs |-> obs, cursor |-> s.cursor]
    OBVIOUS
  <2> HIDE DEF e
  <2>3. n = [e EXCEPT !.obs = obs]
    BY <1>0, <2>1
  <2> QED BY <2>2, <2>3 DEF off
<1>6. n.src = s.src /\ n.offer = c.offer /\ n.obs = obs /\ n.cursor = s.cursor
  BY <1>5
<1> HIDE DEF b
<1>7. \A p \in Offers : Exists(n, p) <=> Exists(s, p) \/ p = o
  BY <1>4, <1>6 DEF Exists
<1>8. Sound(n)
  <2>1. n \in Database
    <3> DEFINE off == c.offer
    <3>1. off \in [Offers -> OfferRow] /\ n = [src |-> s.src, offer |-> off, obs |-> obs, cursor |-> s.cursor]
      BY <1>3, <1>5
    <3> HIDE DEF off
    <3>2. obs \in Seq(Observation)
      BY <1>2
    <3>3. [src |-> s.src, offer |-> off, obs |-> obs, cursor |-> s.cursor] \in Database
      BY <1>1, <3>1, <3>2 DEF Database
    <3> QED BY <3>1, <3>3
  <2>2. Acyclic(Into(n))
    BY <1>4, <1>6 DEF Into
  <2>3. \A p \in Offers : ~Exists(n, p) => n.offer[p] = NoOffer
    BY <1>4, <1>6 DEF Exists
  <2>4. \A k \in Keys : k = o => Exists(s, k)
    BY DEF Reports
  <2>5. \A k \in Keys :
           \/ n.src[k] = NoSource /\ ~Exists(n, k)
           \/ n.src[k].rev > 0 /\ n.src[k].offer \in Offers /\ Exists(n, n.src[k].offer)
    <3> SUFFICES ASSUME NEW k \in Keys
                 PROVE  \/ n.src[k] = NoSource /\ ~Exists(n, k)
                        \/ n.src[k].rev > 0 /\ n.src[k].offer \in Offers /\ Exists(n, n.src[k].offer)
      OBVIOUS
    <3>1. \/ s.src[k] = NoSource /\ ~Exists(s, k)
          \/ s.src[k].rev > 0 /\ s.src[k].offer \in Offers /\ Exists(s, s.src[k].offer)
      BY DEF Sound
    <3> QED BY <1>6, <1>7, <2>4, <3>1, ImporterAssumption
  <2> QED BY <2>1, <2>2, <2>3, <2>5 DEF Sound
<1>9. Grows(s, n, Offers)
  <2>1. Prefix(s.obs, n.obs)
    BY <1>2, <1>6 DEF Prefix, b
  <2>2. ASSUME NEW p \in Offers
        PROVE  \/ Exists(s, p) /\ \E st \in {s.offer[p].status, "disabled"} :
                              n.offer[p] = [s.offer[p] EXCEPT !.status = st]
               \/ ~Exists(s, p) /\ ~Exists(n, p)
               \/ p \in Offers /\ ~Exists(s, p) /\ Exists(n, p) /\ n.offer[p].into = None
                  /\ (p \in Keys => s.src[p] = NoSource /\ n.src[p] # NoSource)
    <3>1. CASE Exists(s, p)
      <4>1. n.offer[p] = s.offer[p]
        BY <1>3, <1>6, <3>1 DEF Reports
      <4>2. s.offer[p] = [s.offer[p] EXCEPT !.status = s.offer[p].status]
        BY <1>1 DEF OfferRow
      <4> QED BY <3>1, <4>1, <4>2
    <3>2. CASE ~Exists(s, p) /\ p = o
      BY <1>6, <1>7, <3>2 DEF Reports
    <3>3. CASE ~Exists(s, p) /\ p # o
      BY <1>7, <3>3
    <3> QED BY <3>1, <3>2, <3>3
  <2> QED BY <1>6, <2>1, <2>2 DEF Grows
<1>10. Commits(n, s, d)
  <2>1. KeepsRows(s, n)
    BY <1>6 DEF KeepsRows
  <2>2. \A p \in Offers : ~Exists(s, p) /\ Exists(n, p) => ~Exists(d, p)
    BY <1>7 DEF Reports
  <2> QED BY <1>0, <1>6, <1>8, <1>9, <2>1, <2>2 DEF Commits
<1>11. ASSUME Untouched(s) PROVE Untouched(n)
  <2>1. (\A p \in Offers : s.offer[p].into = None) /\ LinksApart(s) /\ ShownAsSourced(s) /\ ToldOnce(s.obs)
    BY <1>11 DEF Untouched
  <2>2. \A p \in Offers : n.offer[p].into = None
    BY <1>3, <1>6, <2>1 DEF Reports
  <2>3. LinksApart(n)
    BY <1>3, <1>6, <2>1 DEF LinksApart, Reports
  <2>4. \A p \in Offers : HasSource(n, p) <=> HasSource(s, p) \/ p = o
    <3>1. \A m \in 1 .. b + 1 : m \in 1 .. b \/ m = b + 1
      BY <1>2
    <3>2. \A m \in 1 .. b : m \in 1 .. b + 1
      BY <1>2
    <3>3. b + 1 \in 1 .. b + 1
      BY <1>2
    <3> QED BY <1>0, <1>2, <1>6, <3>1, <3>2, <3>3, SMTT(30) DEF HasSource
  <2>5. ShownAsSourced(n)
    BY <1>3, <1>6, <2>1, <2>4 DEF ShownAsSourced, Reports
  <2>6. ToldOnce(n.obs)
    BY <1>0, <1>6, <2>1
  <2> QED BY <2>2, <2>3, <2>5, <2>6 DEF Untouched
<1>12. ASSUME NEW k \in Keys PROVE Count(n.obs, k) = Count(s.obs, k)
  <2>1. x.key # k
    BY <1>0, ImporterAssumption
  <2> QED BY <1>0, <1>1, <1>6, <2>1, CountAppend DEF obs
<1> QED BY <1>6, <1>10, <1>11, <1>12

\* What the person's request is about to commit.
LEMMA PersonReports ==
    ASSUME IInv, CommitPerson, NEW j, j = job["person"]
    PROVE  \E o, c, n : /\ Reports(j.seen, db, c, o) /\ Commit("person", n)
                        /\ n = Record(c, Reported(o, o, j.says), now)
<1> DEFINE s == j.seen
           o == IF j.op = "submit" THEN CHOOSE x \in Offers \ Keys : s.offer[x].status = "absent" ELSE j.of
           row == [NoOffer EXCEPT !.link = j.link, !.origin = "community", !.born = now,
                     !.status = "active", !.by = Person, !.review = "not_required"]
           c == IF j.op = "submit" THEN [s EXCEPT !.offer[o] = row] ELSE s
           n == Record(c, Reported(o, RootOf(c, o), j.says), now)
<1>1. Commit("person", n) /\ j.op # "idle"
  BY DEF CommitPerson, Commit
<1>2. /\ j \in Job /\ Seen(j, db, feed) /\ Asking(j, db) /\ now \in Nat
  BY ImporterAssumption DEF IInv, TypeOK, JobsInHand
<1>3. /\ s \in Database /\ Sound(s) /\ Since(s, db) /\ j.op \in {"submit", "observe"}
      /\ j.link \in {k[2] : k \in Keys} \cup {None}
  BY <1>1, <1>2 DEF Seen, Asking, Job
<1> HIDE DEF s
<1>4. /\ s.src \in [Keys -> SourceRow] /\ s.offer \in [Offers -> OfferRow] /\ s.obs \in Seq(Observation)
      /\ s = [src |-> s.src, offer |-> s.offer, obs |-> s.obs, cursor |-> s.cursor] /\ Acyclic(Into(s))
  BY <1>3, SoundHas
<1>5. ASSUME j.op = "submit" PROVE Reports(s, db, c, o)
  <2>1. \E x \in Offers \ Keys : s.offer[x].status = "absent"
    BY <1>2, <1>5 DEF Asking, Exists, s
  <2>2. o \in Offers \ Keys /\ ~Exists(s, o)
    BY <1>5, <2>1 DEF Exists
  <2>3. ~Exists(db, o)
    BY <1>2, <1>5, <2>2 DEF Asking, s
  <2>4. row \in OfferRow /\ row.status = "active" /\ row.into = None /\ row.origin = "community"
        /\ row.link = j.link
    BY <1>2, <1>3 DEF OfferRow, NoOffer
  <2> DEFINE offers == [s.offer EXCEPT ![o] = row]
  <2>5. c = [src |-> s.src, offer |-> offers, obs |-> s.obs, cursor |-> s.cursor]
    <3>1. c = [s EXCEPT !.offer[o] = row]
      BY <1>5
    <3> HIDE DEF o, row, c
    <3>2. c = [s EXCEPT !.offer = offers]
      BY <3>1
    <3> HIDE DEF offers
    <3> QED BY <1>4, <3>2
  <2> HIDE DEF c, row, o
  <2>6. offers \in [Offers -> OfferRow] /\ offers[o] = row /\ \A p \in Offers : p # o => offers[p] = s.offer[p]
    BY <1>4, <2>2, <2>4
  <2> HIDE DEF offers
  <2>7. c.offer = offers
    BY <2>5
  <2>8. \A p \in Offers : s.offer[p].status = "active" => s.offer[p].link # j.link
    <3>1. FindByUrl(s, j.link) = None
      BY <1>2, <1>5 DEF Asking, s
    <3> QED BY <1>4, <3>1, ImporterAssumption, FindByUrlFinds
  <2> QED BY <2>2, <2>3, <2>4, <2>5, <2>6, <2>7, <2>8 DEF Reports
<1>6. ASSUME j.op = "observe" PROVE Reports(s, db, c, o)
  <2>1. o = j.of /\ c = s
    BY <1>6
  <2>2. o \in Offers /\ Exists(s, o) /\ IsRoot(Into(s), o) /\ s.offer[o].status # "disabled"
    BY <1>2, <1>6, <2>1 DEF Asking, s
  <2> HIDE DEF o, c
  <2>3. s.offer[o].status = "active"
    BY <1>4, <2>2 DEF OfferRow, Exists
  <2> QED BY <1>4, <2>1, <2>2, <2>3 DEF Reports
<1>7. Reports(s, db, c, o)
  BY <1>3, <1>5, <1>6
<1> HIDE DEF o, c
<1>8. RootOf(c, o) = o
  BY <1>3, <1>7, ReportIsSound, RootOfARoot
<1>9. n = Record(c, Reported(o, o, j.says), now)
  BY <1>8
<1> HIDE DEF n
<1> QED BY <1>1, <1>7, <1>9 DEF s

\* The person's transaction adds one observation and moves no source row.
LEMMA PersonCommits ==
    ASSUME IInv, CommitPerson
    PROVE  \E n : /\ Commit("person", n) /\ Commits(n, job["person"].seen, db)
                  /\ n.src = job["person"].seen.src /\ n.cursor = job["person"].seen.cursor
                  /\ Untouched(job["person"].seen) => Untouched(n)
                  /\ \A k \in Keys : Count(n.obs, k) = Count(job["person"].seen.obs, k)
<1> DEFINE j == job["person"]
           s == j.seen
<1>1. PICK o, c, n : /\ Reports(s, db, c, o) /\ Commit("person", n)
                     /\ n = Record(c, Reported(o, o, j.says), now)
  BY PersonReports
<1>2. /\ Seen(j, db, feed) /\ Asking(j, db) /\ now \in Nat /\ j.op # "idle" /\ j \in Job
  BY <1>1, ImporterAssumption DEF IInv, TypeOK, JobsInHand, Commit
<1>3. /\ s \in Database /\ Sound(s) /\ Since(s, db) /\ Behind(s, feed) /\ DropsOnRecord(s.obs)
      /\ s.obs \in Seq(Observation)
  BY <1>2, SoundHas DEF Seen
<1>4. j.says \in Statement
  BY <1>2, ImporterAssumption DEF Asking, Job
<1> DEFINE r == Reported(o, o, j.says)
<1>5. /\ r \in Observation /\ r.reason = "none" /\ r.offer = o /\ r.root = o /\ r.key = None
      /\ r.origin = "community"
  BY <1>1, <1>2, <1>4 DEF Reported, Observation, Reports, Statement, NoPrice
<1> HIDE DEF r, j, s
<1>6. /\ c.src = s.src /\ c.obs = s.obs /\ c.cursor = s.cursor /\ IsRoot(Into(c), o)
  BY <1>1, <1>3, ReportIsSound
<1>7. PICK x \in Observation :
             /\ Record(c, r, now) = [c EXCEPT !.obs = Append(c.obs, x)]
             /\ x.offer = r.offer /\ x.root = r.root /\ x.key = r.key /\ x.price = r.price
             /\ x.cur = r.cur /\ x.at = r.at /\ x.origin = r.origin
             /\ x.told = Told(c, r, now)
             /\ DropsOnRecord(Append(c.obs, x))
  BY <1>3, <1>5, <1>6, RecordAppends
<1>8. ToldOnce(s.obs) => ToldOnce(Append(s.obs, x))
  BY <1>3, <1>5, <1>6, <1>7, TellsOnce
<1>9. n = [c EXCEPT !.obs = Append(s.obs, x)]
  BY <1>1, <1>6, <1>7 DEF r
<1>10. Sound(db) /\ DropsOnRecord(db.obs)
  BY DEF IInv
<1>11. ReportAdded(s, c, o, x, n)
  BY <1>5, <1>6, <1>7, <1>8, <1>9 DEF ReportAdded
<1>12. /\ Commits(n, s, db) /\ n.src = s.src /\ n.cursor = s.cursor
       /\ Untouched(s) => Untouched(n)
       /\ \A k \in Keys : Count(n.obs, k) = Count(s.obs, k)
  BY <1>1, <1>3, <1>10, <1>11, ReportCommits
<1> QED BY <1>1, <1>12 DEF s, j

LEMMA CommitPersonKeeps ==
    ASSUME IInv, CommitPerson
    PROVE  IInv'
<1> DEFINE s == job["person"].seen
<1>1. PICK n : /\ Commit("person", n) /\ Commits(n, s, db)
               /\ n.src = s.src /\ n.cursor = s.cursor
               /\ Untouched(s) => Untouched(n)
  BY PersonCommits
<1>2. /\ now' = now /\ feed' = feed /\ requests' = requests /\ faults' = faults
      /\ touched' = touched /\ lost' = lost
      /\ db' = Over(n, s, db) /\ job' = [job EXCEPT !["person"] = Idle]
      /\ raced' = (raced \/ s # db) /\ inTurn' = inTurn
  BY <1>1 DEF CommitPerson, Commit, IInv, TypeOK
<1> HIDE DEF s
<1> DEFINE e == Over(n, s, db)
<1>3. e \in Database /\ DropsOnRecord(e.obs) /\ e.cursor = db.cursor
  BY <1>1, OverHas DEF Changed
<1>4. Sound(e)
  BY <1>1, OverIsSound
<1>5. \A k \in Keys : e.src[k] = db.src[k]
  BY <1>1, OverRows
<1>6. JobsInHand(job', e, feed)
  <2>1. JobsInHand(job, db, feed) /\ job \in [{"pull", "refresh", "person"} -> Job]
    BY DEF IInv, TypeOK
  <2>2. s = job["person"].seen
    BY DEF s
  <2>3. \A k \in Keys : s.src[k] = NoSource => n.src[k] = NoSource
    BY <1>1
  <2> HIDE DEF e
  <2>4. JobsInHand([job EXCEPT !["person"] = Idle], e, feed)
    BY <1>1, <1>3, <2>1, <2>2, <2>3, JobsAfterCommit DEF e
  <2> QED BY <1>2, <2>4
<1> HIDE DEF e
<1>7. db' = e
  BY <1>2 DEF e
<1>8. RowsTogether(e) /\ Behind(e, feed)
  BY <1>5, KeysOfItems DEF IInv, RowsTogether, Behind
<1>9. CursorNeverSkips'
  <2>1. \A i \in Items : Current(i) => Current(i)'
    BY <1>2, <1>5, <1>7, KeysOfItems DEF Current, HasRow
  <2> QED BY <1>2, <1>3, <1>7, <2>1 DEF IInv, CursorNeverSkips
<1>10. raced' \/ touched' \/ Untouched(e)
  <2> SUFFICES ASSUME ~raced', ~touched' PROVE Untouched(e)
    OBVIOUS
  <2>1. s = db /\ Untouched(db)
    BY <1>2 DEF IInv
  <2>2. e = n
    BY <1>1, <2>1, OverSeesAll DEF e
  <2> QED BY <1>1, <2>1, <2>2
<1>11. TypeOK'
  <2>1. job' \in [{"pull", "refresh", "person"} -> Job]
    BY <1>2, IdleIsAJob DEF IInv, TypeOK
  <2>2. TypeOK
    BY DEF IInv
  <2> QED BY <1>2, <1>3, <1>7, <2>1, <2>2 DEF TypeOK
<1>12. FeedInOrder(feed, now) /\ CursorInFeed(db.cursor, feed)
  BY DEF IInv
<1> QED BY <1>2, <1>3, <1>4, <1>6, <1>7, <1>8, <1>9, <1>10, <1>11, <1>12 DEF IInv

-----------------------------------------------------------------------------
(* The theorems.                                                           *)

LEMMA InitIInv == Init => IInv
<1> SUFFICES ASSUME Init PROVE IInv
  OBVIOUS
<1>1. /\ now = 0 /\ feed = [i \in Items |-> Unpublished] /\ db = Empty
      /\ job = [p \in {"pull", "refresh", "person"} |-> Idle]
      /\ requests = 0 /\ faults = 0 /\ raced = FALSE /\ inTurn = TRUE /\ touched = FALSE /\ lost = {}
  BY DEF Init
<1>2. /\ db.src = [k \in Keys |-> NoSource] /\ db.offer = [o \in Offers |-> NoOffer]
      /\ db.obs = <<>> /\ db.cursor = 0
      /\ db = [src |-> db.src, offer |-> db.offer, obs |-> db.obs, cursor |-> db.cursor]
  BY <1>1 DEF Empty
<1>3. db \in Database
  <2>1. NoSource \in SourceRow /\ NoOffer \in OfferRow
    BY DEF NoSource, NoOffer, SourceRow, OfferRow
  <2>2. /\ db.src \in [Keys -> SourceRow] /\ db.offer \in [Offers -> OfferRow]
        /\ db.obs \in Seq(Observation) /\ db.cursor \in 0 .. MaxChanges
    BY <1>2, <2>1, ImporterAssumption
  <2> DEFINE src == db.src
             offer == db.offer
             obs == db.obs
             cursor == db.cursor
  <2>3. db = [src |-> src, offer |-> offer, obs |-> obs, cursor |-> cursor]
    BY <1>2
  <2> HIDE DEF src, offer, obs, cursor
  <2>4. [src |-> src, offer |-> offer, obs |-> obs, cursor |-> cursor] \in Database
    BY <2>2 DEF Database, src, offer, obs, cursor
  <2> QED BY <2>3, <2>4
<1>4. \A o \in Offers : ~Exists(db, o) /\ db.offer[o].into = None /\ db.offer[o].origin = "none"
  BY <1>2 DEF Exists, NoOffer
<1>5. Sound(db)
  <2>1. DOMAIN Into(db) = {}
    BY <1>4 DEF Into, Exists
  <2>2. Acyclic(Into(db))
    BY <2>1 DEF Acyclic
  <2>3. \A k \in Keys : db.src[k] = NoSource /\ ~Exists(db, k)
    BY <1>2, <1>4, ImporterAssumption
  <2> QED BY <1>2, <1>3, <1>4, <2>2, <2>3 DEF Sound
<1>6. TypeOK
  <2>1. Unpublished \in Published /\ Idle \in Job
    BY IdleIsAJob, ImporterAssumption DEF Unpublished, Published
  <2>2. now \in 0 .. MaxTime /\ requests \in 0 .. MaxRequests /\ faults \in 0 .. MaxFaults
    BY <1>1, ImporterAssumption
  <2>4. raced \in BOOLEAN /\ inTurn \in BOOLEAN /\ touched \in BOOLEAN /\ lost \subseteq ItemRead
    BY <1>1
  <2>3. feed \in [Items -> Published] /\ job \in [{"pull", "refresh", "person"} -> Job]
    BY <1>1, <2>1
  <2> QED BY <1>3, <2>2, <2>3, <2>4 DEF TypeOK
<1>7. FeedInOrder(feed, now)
  BY <1>1 DEF FeedInOrder, Unpublished
<1>8. RowsTogether(db) /\ DropsOnRecord(db.obs)
  BY <1>2, KeysOfItems DEF RowsTogether, DropsOnRecord
<1>9. Behind(db, feed)
  BY <1>1, <1>2, KeysOfItems DEF Behind, NoSource, Unpublished
<1>10. JobsInHand(job, db, feed)
  BY <1>1, IdleIsAJob DEF JobsInHand
<1>11. CursorInFeed(db.cursor, feed) /\ CursorNeverSkips
  BY <1>1, <1>2 DEF CursorInFeed, CursorNeverSkips, Unpublished
<1>12. Untouched(db)
  <2>1. LinksApart(db)
    BY <1>4 DEF LinksApart, Exists, NoOffer, Empty
  <2> QED BY <1>2, <1>4, <2>1 DEF Untouched, ShownAsSourced, ToldOnce
<1> QED BY <1>5, <1>6, <1>7, <1>8, <1>9, <1>10, <1>11, <1>12 DEF IInv

LEMMA StepIInv == IInv /\ [Next]_vars => IInv'
<1> SUFFICES ASSUME IInv, [Next]_vars PROVE IInv'
  OBVIOUS
<1>1. CASE \E i \in Items : FetchAgain(i) \/ TakeDown(i) \/ \E s \in Statements : Publish(i, s)
  <2>1. TypeOK /\ FeedInOrder(feed, now)
    BY DEF IInv
  <2> QED BY <1>1, <2>1, FeedActionsMove, FeedKeeps
<1>2. CASE Tick
  BY <1>2, TickKeeps
<1>3. CASE \E i \in Items : ReadItem(i)
  BY <1>3, ReadItemMoves, JobMovesKeep
<1>4. CASE \E last \in 1 .. MaxChanges : ReadPage(last)
  BY <1>4, ReadPageMoves, JobMovesKeep
<1>5. CASE \E p \in {"pull", "refresh"} : Fail(p)
  BY <1>5, FailMoves, JobMovesKeep
<1>6. CASE \E bad \in SUBSET job["pull"].page : CommitPage(bad)
  BY <1>6, CommitPageKeeps
<1>7. CASE CommitItem
  BY <1>7, CommitItemKeeps
<1>8. CASE \E s \in PersonSays, k \in Keys : StartSubmit(k[2], s)
  <2>1. PICK s \in PersonSays, k \in Keys : StartSubmit(k[2], s)
    BY <1>8
  <2> DEFINE link == k[2]
  <2>2. link \in {l[2] : l \in Keys} /\ StartSubmit(link, s)
    BY <2>1
  <2> HIDE DEF link
  <2> QED BY <2>2, StartSubmitMoves, JobMovesKeep
<1>9. CASE \E s \in PersonSays, o \in Offers : StartObserve(o, s)
  BY <1>9, StartObserveMoves, JobMovesKeep
<1>10. CASE CommitPerson
  BY <1>10, CommitPersonKeeps
<1>11. CASE \E o \in Offers : Disable(o) \/ Enable(o) \/ \E into \in Offers : Merge(o, into)
  BY <1>11, ModeratorMoves, OffersMoveKeeps
<1>12. CASE UNCHANGED vars
  <2>1. TypeOK' /\ CursorNeverSkips'
    BY <1>12 DEF IInv, TypeOK, CursorNeverSkips, Current, HasRow, vars
  <2> QED BY <1>12, <2>1 DEF IInv, vars
<1> QED BY <1>1, <1>2, <1>3, <1>4, <1>5, <1>6, <1>7, <1>8, <1>9, <1>10, <1>11, <1>12 DEF Next

\* The invariant holds in every state of the importer.
THEOREM ImporterInvariant == Spec => []IInv
BY InitIInv, StepIInv, PTL DEF Spec

\* Every variable holds a value of its type.
THEOREM ImporterTypes == Spec => []TypeOK
<1>1. IInv => TypeOK
  BY DEF IInv
<1> QED BY <1>1, ImporterInvariant, PTL

\* What the cursor has passed has been applied, but for what a savepoint
\* rolled back or an overlapping re-confirmation wrote over.
THEOREM CursorSkipsNothing == Spec => []CursorNeverSkips
<1>1. IInv => CursorNeverSkips
  BY DEF IInv
<1> QED BY <1>1, ImporterInvariant, PTL

\* An imported offer is shown exactly while a source of it is there.
THEOREM ShownExactlyWhileSourced == Spec => []ShownWhileSourced
<1>1. IInv => ShownWhileSourced
  BY DEF IInv, Untouched, ShownAsSourced, ShownWhileSourced
<1> QED BY <1>1, ImporterInvariant, PTL

\* One link makes one offer, whoever states it.
THEOREM LinksMakeOneOffer == Spec => []OneOfferPerLink
<1>1. IInv => OneOfferPerLink
  BY DEF IInv, Untouched, LinksApart, OneOfferPerLink
<1> QED BY <1>1, ImporterInvariant, PTL

\* A watch is told once, or only of a price below the last.
THEOREM NothingToldTwice == Spec => []TellsNothingTwice
<1>1. IInv => TellsNothingTwice
  BY DEF IInv, Untouched, ToldOnce, TellsNothingTwice
<1> QED BY <1>1, ImporterInvariant, PTL

\* A deal selected for a drop in price has the dearer price on record.
THEOREM DropsAreDrops == Spec => []DropIsADrop
<1>1. IInv => DropIsADrop
  <2> SUFFICES ASSUME IInv, NEW o \in Offers, ReasonOf(db, o) = "price_drop"
               PROVE  \E m, n \in DOMAIN db.obs :
                        /\ db.obs[m].offer = o /\ db.obs[n].offer = o
                        /\ db.obs[m].cur = db.obs[n].cur /\ db.obs[m].price > db.obs[n].price
                        /\ Newer(db.obs, n, m)
    BY DEF DropIsADrop
  <2> DEFINE crawled == {i \in DOMAIN db.obs : db.obs[i].offer = o /\ db.obs[i].origin # "community"}
             last == CHOOSE i \in crawled : \A j \in crawled : j <= i
  <2>1. db.obs \in Seq(Observation) /\ DropsOnRecord(db.obs)
    BY SoundHas DEF IInv
  <2>2. crawled # {} /\ db.obs[last].reason = "price_drop"
    BY DEF ReasonOf
  <2>3. Len(db.obs) \in Nat /\ DOMAIN db.obs = 1 .. Len(db.obs)
    BY <2>1
  <2>4. \E i \in crawled : \A j \in crawled : j <= i
    <3>1. crawled \in SUBSET Nat /\ \A i \in crawled : i <= Len(db.obs)
      BY <2>3
    <3> HIDE DEF crawled
    <3> QED BY <2>2, <2>3, <3>1, SomeGreatest
  <2>5. last \in crawled
    BY <2>4
  <2> HIDE DEF last
  <2>6. last \in DOMAIN db.obs /\ db.obs[last].offer = o /\ DropOnRecord(db.obs, last)
    BY <2>1, <2>5 DEF DropsOnRecord
  <2> QED BY <2>2, <2>6 DEF DropOnRecord
<1> QED BY <1>1, ImporterInvariant, PTL

-----------------------------------------------------------------------------
(* The importer keeps the ledger.                                          *)

\* A row no other import has written since stays, advances or is withdrawn.
LEMMA RowsMoveInTurn ==
    ASSUME NEW n, NEW s, NEW d, Commits(n, s, d), NEW e, e = Over(n, s, d),
           NEW page, Lands(n, s, page), \A v \in page : v \in ItemRead /\ v.rev > 0,
           NEW k \in Keys, s.src[k] = d.src[k]
    PROVE  \/ e.src[k] = d.src[k] /\ Count(e.obs, k) = Count(d.obs, k)
           \/ /\ d.src[k].live \/ d.src[k].rev = 0
              /\ e.src[k].live /\ e.src[k].rev > 0
              /\ e.src[k].rev >= d.src[k].rev /\ e.src[k].at >= d.src[k].at
              /\ \/ ~d.src[k].live
                 \/ e.src[k].rev # d.src[k].rev \/ e.src[k].at # d.src[k].at
              /\ Count(e.obs, k) = Count(d.obs, k) + 1
           \/ /\ d.src[k].live /\ ~e.src[k].live
              /\ e.src[k].rev = d.src[k].rev /\ e.src[k].at = d.src[k].at
              /\ Count(e.obs, k) = Count(d.obs, k)
<1>1. e.src[k] = n.src[k]
  BY OverRows
<1>2. /\ Count(e.obs, k) = Count(d.obs, k) + (Count(n.obs, k) - Count(s.obs, k))
      /\ Count(d.obs, k) \in Nat /\ Count(s.obs, k) \in Nat /\ Count(n.obs, k) \in Nat
  BY OverCount
<1>3. d.src[k] \in SourceRow /\ d.src[k].rev \in Nat /\ d.src[k].at \in Nat
  BY SoundHas DEF Commits, SourceRow
<1>4. CASE Stays(s, n, k)
  BY <1>1, <1>2, <1>4 DEF Stays
<1>5. CASE Withdraws(s, n, k)
  <2>1. d.src[k].live /\ ~n.src[k].live /\ n.src[k].rev = d.src[k].rev /\ n.src[k].at = d.src[k].at
    BY <1>3, <1>5 DEF Withdraws, SourceRow
  <2>2. Count(n.obs, k) = Count(s.obs, k)
    BY <1>5 DEF Withdraws
  <2> QED BY <1>1, <1>2, <2>1, <2>2
<1>6. ASSUME NEW v \in page, Advances(s, n, k, v)
      PROVE  /\ d.src[k].live \/ d.src[k].rev = 0
             /\ e.src[k].live /\ e.src[k].rev > 0
             /\ e.src[k].rev >= d.src[k].rev /\ e.src[k].at >= d.src[k].at
             /\ \/ ~d.src[k].live
                \/ e.src[k].rev # d.src[k].rev \/ e.src[k].at # d.src[k].at
             /\ Count(e.obs, k) = Count(d.obs, k) + 1
  <2>1. v.rev \in Nat /\ v.at \in Nat /\ v.rev > 0
    BY DEF ItemRead
  <2>2. /\ \/ d.src[k] = NoSource
           \/ d.src[k].live /\ (v.rev > d.src[k].rev \/ v.at > d.src[k].at)
        /\ n.src[k].live
        /\ n.src[k].rev = Greater(v.rev, d.src[k].rev) /\ n.src[k].at = Greater(v.at, d.src[k].at)
        /\ Count(n.obs, k) = Count(s.obs, k) + 1
    BY <1>6 DEF Advances
  <2>3. d.src[k] = NoSource => d.src[k].rev = 0 /\ ~d.src[k].live
    BY DEF NoSource
  <2> QED BY <1>1, <1>2, <1>3, <2>1, <2>2, <2>3 DEF Greater
<1> QED BY <1>4, <1>5, <1>6 DEF Lands, Outcome

\* The variables of the ledger, as functions of the importer's state.
PublishedOf(f) == [k \in Keys |-> [rev |-> f[k[1]].rev, at |-> f[k[1]].at, gone |-> f[k[1]].gone]]
RowsOf(d)      == [k \in Keys |-> [rev |-> d.src[k].rev, at |-> d.src[k].at, live |-> d.src[k].live]]
MovesOf(d)     == [k \in Keys |-> Count(d.obs, k)]

\* One step of the ledger from r to q, rows and numbers of moves.
StayAs(r, q, m, n)     == q = r /\ n = m
AdvanceAs(r, q, m, n, p) ==
    /\ r.live \/ r.rev = 0
    /\ q.live /\ q.rev > 0
    /\ q.rev \in r.rev .. p.rev
    /\ q.at \in r.at .. p.at
    /\ q # r
    /\ n = m + 1
WithdrawAs(r, q, m, n) == r.live /\ q = [r EXCEPT !.live = FALSE] /\ n = m
OvertakenAs(r, q, m, n, p) ==
    /\ r.rev > 0 /\ ~r.live => ~q.live
    /\ q.rev <= p.rev /\ q.at <= p.at
    /\ n >= m

LEMMA LedgerImport ==
    ASSUME \A k \in Keys :
             \/ StayAs(RowsOf(db)[k], RowsOf(db')[k], MovesOf(db)[k], MovesOf(db')[k])
             \/ AdvanceAs(RowsOf(db)[k], RowsOf(db')[k], MovesOf(db)[k], MovesOf(db')[k], PublishedOf(feed)[k])
             \/ WithdrawAs(RowsOf(db)[k], RowsOf(db')[k], MovesOf(db)[k], MovesOf(db')[k])
             \/ ~inTurn' /\ OvertakenAs(RowsOf(db)[k], RowsOf(db')[k], MovesOf(db)[k], MovesOf(db')[k],
                                        PublishedOf(feed)[k]),
           RowsOf(db') \in [Keys -> [rev : Nat, at : Nat, live : BOOLEAN]],
           MovesOf(db') \in [Keys -> Nat], inTurn' \in {inTurn, FALSE}, feed' = feed
    PROVE  Ledger!Import
BY DEF Ledger!Import, Ledger!Stay, Ledger!Advance, Ledger!Withdraw, Ledger!Overtaken, Ledger!Rows,
       StayAs, AdvanceAs, WithdrawAs, OvertakenAs, RowsOf, MovesOf, PublishedOf, Count

LEMMA LedgerTypes ==
    ASSUME NEW d \in Database
    PROVE  /\ RowsOf(d) \in [Keys -> [rev : Nat, at : Nat, live : BOOLEAN]]
           /\ MovesOf(d) \in [Keys -> Nat]
<1>1. d.src \in [Keys -> SourceRow] /\ d.obs \in Seq(Observation)
  BY DEF Database
<1>2. \A k \in Keys : Count(d.obs, k) \in Nat
  <2> SUFFICES ASSUME NEW k \in Keys PROVE Count(d.obs, k) \in Nat
    OBVIOUS
  <2> DEFINE b == Len(d.obs)
             At == {n \in DOMAIN d.obs : d.obs[n].key = k}
  <2>1. b \in Nat /\ At \in SUBSET Nat /\ \A n \in At : n <= b
    BY <1>1
  <2>2. IsFiniteSet(At)
    BY <2>1, FS_BoundedSetOfNaturals
  <2> QED BY <2>2, FS_CardinalityType DEF Count
<1> QED BY <1>1, <1>2 DEF RowsOf, MovesOf, SourceRow

LEMMA LedgerPublishes ==
    ASSUME NEW f \in [Items -> Published]
    PROVE  PublishedOf(f) \in [Keys -> [rev : Nat, at : Nat, gone : BOOLEAN]]
BY KeysOfItems DEF PublishedOf, Published

LEMMA ImportKeepsLedger ==
    ASSUME IInv, IInv', NEW p \in {"pull", "refresh"}, NEW page, NEW c, NEW n, Importing(p, page, c, n),
           Commit(p, n), feed' = feed
    PROVE  Ledger!Import
<1> DEFINE s == job[p].seen
<1>1. /\ Commits(n, s, db) /\ Lands(n, s, page)
      /\ page \in SUBSET ItemRead /\ (\A v \in page : WasPublished(v, feed))
  BY ImportReady
<1>2. db' = Over(n, s, db) /\ inTurn' = (inTurn /\ s.src = db.src)
  BY DEF Commit
<1>3. TypeOK /\ TypeOK' /\ Sound(db) /\ Behind(db', feed)
  BY DEF IInv
<1> HIDE DEF s
<1>4. /\ RowsOf(db') \in [Keys -> [rev : Nat, at : Nat, live : BOOLEAN]]
      /\ MovesOf(db') \in [Keys -> Nat]
  <2>1. db' \in Database
    BY <1>3 DEF TypeOK
  <2> QED BY <2>1, LedgerTypes
<1>5. /\ RowsOf(db) \in [Keys -> [rev : Nat, at : Nat, live : BOOLEAN]]
      /\ MovesOf(db) \in [Keys -> Nat]
  <2>1. db \in Database
    BY <1>3 DEF TypeOK
  <2> QED BY <2>1, LedgerTypes
<1>6. \A v \in page : v \in ItemRead /\ v.rev > 0
  BY <1>1 DEF WasPublished
<1>7. ASSUME NEW k \in Keys
      PROVE  \/ StayAs(RowsOf(db)[k], RowsOf(db')[k], MovesOf(db)[k], MovesOf(db')[k])
             \/ AdvanceAs(RowsOf(db)[k], RowsOf(db')[k], MovesOf(db)[k], MovesOf(db')[k], PublishedOf(feed)[k])
             \/ WithdrawAs(RowsOf(db)[k], RowsOf(db')[k], MovesOf(db)[k], MovesOf(db')[k])
             \/ ~inTurn' /\ OvertakenAs(RowsOf(db)[k], RowsOf(db')[k], MovesOf(db)[k], MovesOf(db')[k],
                                        PublishedOf(feed)[k])
  <2> DEFINE r == RowsOf(db)[k]
             q == RowsOf(db')[k]
             u == PublishedOf(feed)[k]
             a == MovesOf(db)[k]
             z == MovesOf(db')[k]
  <2>1. /\ r \in [rev : Nat, at : Nat, live : BOOLEAN] /\ q \in [rev : Nat, at : Nat, live : BOOLEAN]
        /\ a \in Nat /\ z \in Nat
    BY <1>4, <1>5
  <2>2. /\ r.rev = db.src[k].rev /\ r.at = db.src[k].at /\ r.live = db.src[k].live
        /\ q.rev = db'.src[k].rev /\ q.at = db'.src[k].at /\ q.live = db'.src[k].live
        /\ a = Count(db.obs, k) /\ z = Count(db'.obs, k)
        /\ u.rev = feed[k[1]].rev /\ u.at = feed[k[1]].at
        /\ (db'.src[k] = db.src[k] => q = r)
    BY DEF RowsOf, MovesOf, PublishedOf
  <2>3. q.rev <= u.rev /\ q.at <= u.at /\ u.rev \in Nat /\ u.at \in Nat
    <3>1. db'.src[k].rev <= feed[k[1]].rev /\ db'.src[k].at <= feed[k[1]].at
      BY <1>3, KeysOfItems DEF Behind
    <3>2. feed[k[1]].rev \in Nat /\ feed[k[1]].at \in Nat
      BY <1>3, KeysOfItems DEF TypeOK, Published
    <3> QED BY <2>2, <3>1, <3>2
  <2> HIDE DEF r, q, u, a, z
  <2>4. CASE inTurn'
    <3>1. s.src[k] = db.src[k]
      BY <1>2, <2>4
    <3>2. \/ db'.src[k] = db.src[k] /\ Count(db'.obs, k) = Count(db.obs, k)
          \/ /\ db.src[k].live \/ db.src[k].rev = 0
             /\ db'.src[k].live /\ db'.src[k].rev > 0
             /\ db'.src[k].rev >= db.src[k].rev /\ db'.src[k].at >= db.src[k].at
             /\ \/ ~db.src[k].live
                \/ db'.src[k].rev # db.src[k].rev \/ db'.src[k].at # db.src[k].at
             /\ Count(db'.obs, k) = Count(db.obs, k) + 1
          \/ /\ db.src[k].live /\ ~db'.src[k].live
             /\ db'.src[k].rev = db.src[k].rev /\ db'.src[k].at = db.src[k].at
             /\ Count(db'.obs, k) = Count(db.obs, k)
      BY <1>1, <1>2, <1>6, <3>1, RowsMoveInTurn
    <3>3. CASE db'.src[k] = db.src[k] /\ Count(db'.obs, k) = Count(db.obs, k)
      BY <2>2, <3>3 DEF StayAs, r, q, a, z
    <3>4. CASE /\ r.live \/ r.rev = 0
               /\ q.live /\ q.rev > 0 /\ q.rev >= r.rev /\ q.at >= r.at
               /\ \/ ~r.live
                  \/ q.rev # r.rev \/ q.at # r.at
               /\ z = a + 1
      <4>1. q # r
        BY <3>4
      <4>2. q.rev \in r.rev .. u.rev /\ q.at \in r.at .. u.at
        BY <2>1, <2>3, <3>4
      <4>3. AdvanceAs(r, q, a, z, u)
        BY <3>4, <4>1, <4>2 DEF AdvanceAs
      <4> QED BY <4>3 DEF r, q, u, a, z
    <3>5. CASE /\ r.live /\ ~q.live /\ q.rev = r.rev /\ q.at = r.at /\ z = a
      <4>1. q = [r EXCEPT !.live = FALSE]
        BY <2>1, <3>5
      <4> QED BY <3>5, <4>1 DEF WithdrawAs, r, q, a, z
    <3> QED BY <2>2, <3>2, <3>3, <3>4, <3>5
  <2>5. CASE ~inTurn'
    <3>1. db.src[k] # NoSource => (db'.src[k].live => db.src[k].live)
      BY <1>1, <1>2, OverRows
    <3>2. r.rev > 0 /\ ~r.live => ~q.live
      BY <2>2, <3>1 DEF NoSource
    <3>3. z >= a
      <4>1. /\ Count(db'.obs, k) = Count(db.obs, k) + (Count(n.obs, k) - Count(s.obs, k))
            /\ Count(s.obs, k) \in Nat /\ Count(n.obs, k) \in Nat /\ Count(s.obs, k) <= Count(n.obs, k)
        BY <1>1, <1>2, OverCount
      <4> QED BY <2>1, <2>2, <4>1
    <3>4. OvertakenAs(r, q, a, z, u)
      BY <2>3, <3>2, <3>3 DEF OvertakenAs
    <3> QED BY <2>5, <3>4 DEF r, q, u, a, z
  <2> QED BY <2>4, <2>5
<1>8. inTurn' \in {inTurn, FALSE}
  BY <1>2, <1>3 DEF TypeOK
<1> QED BY <1>4, <1>7, <1>8, LedgerImport


\* What every other step leaves alone of the ledger's variables.
LedgerRests ==
    /\ feed' = feed /\ inTurn' = inTurn
    /\ \A k \in Keys : db'.src[k] = db.src[k] /\ Count(db'.obs, k) = Count(db.obs, k)

LEMMA LedgerRestsKeeps ==
    ASSUME LedgerRests
    PROVE  UNCHANGED Ledger!lvars
BY DEF LedgerRests, Ledger!lvars, Count

LEMMA FeedKeepsLedger ==
    ASSUME TypeOK, FeedMoves
    PROVE  Ledger!Announce
<1>1. feed \in [Items -> Published] /\ feed' \in [Items -> Published] /\ db' = db /\ inTurn' = inTurn
  BY DEF TypeOK, FeedMoves
<1>2. PublishedOf(feed') \in [Keys -> [rev : Nat, at : Nat, gone : BOOLEAN]]
  BY <1>1, LedgerPublishes
<1>3. \A k \in Keys : feed'[k[1]].rev >= feed[k[1]].rev /\ feed'[k[1]].at >= feed[k[1]].at
  BY KeysOfItems DEF FeedMoves
<1> QED BY <1>1, <1>2, <1>3 DEF Ledger!Announce, Ledger!Versions, PublishedOf

LEMMA OffersMoveRests ==
    ASSUME OffersMove, db \in Database
    PROVE  LedgerRests
<1>1. PICK row : db' = [db EXCEPT !.offer = row]
  BY DEF OffersMove
<1>2. db'.src = db.src /\ db'.obs = db.obs
  BY <1>1 DEF Database
<1> QED BY <1>2 DEF OffersMove, LedgerRests

LEMMA PersonRests ==
    ASSUME IInv, CommitPerson
    PROVE  LedgerRests
<1> DEFINE s == job["person"].seen
<1>1. PICK n : /\ Commit("person", n) /\ Commits(n, s, db) /\ n.src = s.src
               /\ \A k \in Keys : Count(n.obs, k) = Count(s.obs, k)
  BY PersonCommits
<1>2. db' = Over(n, s, db) /\ inTurn' = inTurn /\ feed' = feed
  BY <1>1 DEF CommitPerson, Commit, IInv, TypeOK
<1> HIDE DEF s
<1>3. ASSUME NEW k \in Keys
      PROVE  db'.src[k] = db.src[k] /\ Count(db'.obs, k) = Count(db.obs, k)
  <2>1. db'.src[k] = db.src[k]
    BY <1>1, <1>2, OverRows
  <2>2. /\ Count(db'.obs, k) = Count(db.obs, k) + (Count(n.obs, k) - Count(s.obs, k))
        /\ Count(db.obs, k) \in Nat /\ Count(s.obs, k) \in Nat
    BY <1>1, <1>2, OverCount
  <2> QED BY <1>1, <2>1, <2>2
<1> QED BY <1>2, <1>3 DEF LedgerRests

LEMMA InitLedger == Init => Ledger!LedgerInit
<1> SUFFICES ASSUME Init PROVE Ledger!LedgerInit
  OBVIOUS
<1>1. feed = [i \in Items |-> Unpublished] /\ db = Empty /\ inTurn = TRUE
  BY DEF Init
<1>2. db.src = [k \in Keys |-> NoSource] /\ db.obs = <<>>
  BY <1>1 DEF Empty
<1>3. \A k \in Keys : {n \in DOMAIN db.obs : db.obs[n].key = k} = {}
  BY <1>2
<1>4. \A k \in Keys : Cardinality({n \in DOMAIN db.obs : db.obs[n].key = k}) = 0
  BY <1>3, FS_EmptySet
<1>5. PublishedOf(feed) = [k \in Keys |-> [rev |-> 0, at |-> 0, gone |-> FALSE]]
  BY <1>1, KeysOfItems DEF PublishedOf, Unpublished
<1>6. RowsOf(db) = [k \in Keys |-> [rev |-> 0, at |-> 0, live |-> FALSE]]
  BY <1>2 DEF RowsOf, NoSource
<1>7. [k \in Keys |-> Cardinality({n \in DOMAIN db.obs : db.obs[n].key = k})] = [k \in Keys |-> 0]
  BY <1>4
<1> QED BY <1>1, <1>5, <1>6, <1>7 DEF Ledger!LedgerInit, PublishedOf, RowsOf

LEMMA StepLedger == IInv /\ IInv' /\ [Next]_vars => [Ledger!Import \/ Ledger!Announce]_(Ledger!lvars)
<1> SUFFICES ASSUME IInv, IInv', [Next]_vars
             PROVE  Ledger!Import \/ Ledger!Announce \/ LedgerRests
  BY LedgerRestsKeeps
<1>0. TypeOK /\ FeedInOrder(feed, now) /\ db \in Database
  BY DEF IInv, TypeOK
<1>1. CASE \E i \in Items : FetchAgain(i) \/ TakeDown(i) \/ \E s \in Statements : Publish(i, s)
  BY <1>0, <1>1, FeedActionsMove, FeedKeepsLedger
<1>2. CASE Tick
  BY <1>2 DEF Tick, LedgerRests
<1>3. CASE \E i \in Items : ReadItem(i)
  BY <1>3 DEF ReadItem, LedgerRests
<1>4. CASE \E last \in 1 .. MaxChanges : ReadPage(last)
  BY <1>4 DEF ReadPage, LedgerRests
<1>5. CASE \E p \in {"pull", "refresh"} : Fail(p)
  BY <1>5 DEF Fail, LedgerRests
<1>6. CASE \E bad \in SUBSET job["pull"].page : CommitPage(bad)
  <2>1. PICK page, c, n : Importing("pull", page, c, n) /\ Commit("pull", n)
    BY <1>6, CommitPageImports
  <2>2. feed' = feed
    BY <1>6 DEF CommitPage
  <2> QED BY <2>1, <2>2, ImportKeepsLedger
<1>7. CASE CommitItem
  <2>1. PICK page, c, n : Importing("refresh", page, c, n) /\ Commit("refresh", n)
    BY <1>7, CommitItemImports
  <2>2. feed' = feed
    BY <1>7 DEF CommitItem
  <2> QED BY <2>1, <2>2, ImportKeepsLedger
<1>8. CASE \E s \in PersonSays, k \in Keys : StartSubmit(k[2], s)
  BY <1>8 DEF StartSubmit, LedgerRests
<1>9. CASE \E s \in PersonSays, o \in Offers : StartObserve(o, s)
  BY <1>9 DEF StartObserve, LedgerRests
<1>10. CASE CommitPerson
  BY <1>10, PersonRests
<1>11. CASE \E o \in Offers : Disable(o) \/ Enable(o) \/ \E into \in Offers : Merge(o, into)
  BY <1>0, <1>11, ModeratorMoves, OffersMoveRests
<1>12. CASE UNCHANGED vars
  BY <1>12 DEF vars, LedgerRests
<1> QED BY <1>1, <1>2, <1>3, <1>4, <1>5, <1>6, <1>7, <1>8, <1>9, <1>10, <1>11, <1>12 DEF Next

\* The importer keeps the ledger: in whatever order the feed, its replays, the
\* re-confirmation, failed pages and restarts come, each import moves a source
\* row forward with one observation, takes it away or leaves it alone, and two
\* imports that overlap lose the order of their moves and nothing else.
THEOREM ImporterKeepsTheLedger == Spec => KeepsTheLedger
<1>1. IInv /\ IInv' /\ [Next]_vars => [Ledger!Import \/ Ledger!Announce]_(Ledger!lvars)
  BY StepLedger
<1> QED BY <1>1, InitLedger, ImporterInvariant, PTL DEF Spec, KeepsTheLedger, Ledger!LedgerSpec
=============================================================================
