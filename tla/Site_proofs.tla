---------------------------- MODULE Site_proofs ----------------------------
(***************************************************************************)
(* Proofs about the pages readers are shown.  First the lists: a list      *)
(* sorted by an order that ties no two is the set it is made of, each once *)
(* and in order, and what is cut from a list repeats nothing.  Then the    *)
(* caches: the types, how far behind a page may be, and who waits for it.  *)
(***************************************************************************)
EXTENDS Site, FiniteSetTheorems, WellFoundedInduction, TLAPS

-----------------------------------------------------------------------------
(* Sorting.                                                                *)

Strict(R, S) ==
    /\ \A x \in S : <<x, x>> \notin R
    /\ \A x, y, z \in S : <<x, y>> \in R /\ <<y, z>> \in R => <<x, z>> \in R
    /\ \A x, y \in S : x = y \/ <<x, y>> \in R \/ <<y, x>> \in R
Ahead(R, S, x) == {y \in S : <<y, x>> \in R}
PlaceIn(R, S)  == [x \in S |-> Cardinality(Ahead(R, S, x)) + 1]
Places(R, S)   == {<<x, Cardinality(Ahead(R, S, x)) + 1>> : x \in S}

\* s is a sequence of members of S that names none of them twice.
Once(s, S) == s \in Seq(S) /\ \A i, j \in 1 .. Len(s) : s[i] = s[j] => i = j
\* s names every member of S once.
Lists(s, S) == Once(s, S) /\ Range(s) = S
\* The earlier of two entries of s comes before the later in R.
InOrder(s, R) == \A i, j \in 1 .. Len(s) : i < j => <<s[i], s[j]>> \in R

\* Who comes after has more before it.
LEMMA PlacesRise ==
    ASSUME NEW S, NEW R, IsFiniteSet(S), Strict(R, S), NEW x \in S, NEW y \in S, <<y, x>> \in R
    PROVE  PlaceIn(R, S)[y] < PlaceIn(R, S)[x]
<1> DEFINE A == Ahead(R, S, y)
           B == Ahead(R, S, x)
<1>1. A \in SUBSET S /\ B \in SUBSET S /\ y \notin A /\ A \cup {y} \in SUBSET B
  BY DEF Ahead, Strict
<1>2. IsFiniteSet(A) /\ IsFiniteSet(B)
  BY <1>1, FS_Subset
<1>3. Cardinality(A \cup {y}) = Cardinality(A) + 1
  BY <1>1, <1>2, FS_AddElement
<1>4. Cardinality(A \cup {y}) <= Cardinality(B)
  BY <1>1, <1>2, FS_Subset
<1>5. Cardinality(A) \in Nat /\ Cardinality(B) \in Nat
  BY <1>2, FS_CardinalityType
<1> QED
  BY <1>3, <1>4, <1>5 DEF PlaceIn

\* Each place is taken by one.
LEMMA PlacesFill ==
    ASSUME NEW S, NEW R, IsFiniteSet(S), Strict(R, S)
    PROVE  PlaceIn(R, S) \in Bijection(S, 1 .. Cardinality(S))
<1> DEFINE N == Cardinality(S)
           r == PlaceIn(R, S)
<1>1. N \in Nat /\ IsFiniteSet(1 .. N) /\ Cardinality(1 .. N) = N
  BY FS_CardinalityType, FS_Interval
<1>2. \A x \in S : r[x] \in 1 .. N
  <2> TAKE x \in S
  <2>1. Ahead(R, S, x) \in SUBSET (S \ {x})
    BY DEF Ahead, Strict
  <2>2. IsFiniteSet(S \ {x}) /\ Cardinality(S \ {x}) = N - 1
    BY FS_RemoveElement
  <2>3. IsFiniteSet(Ahead(R, S, x)) /\ Cardinality(Ahead(R, S, x)) <= N - 1
    BY <2>1, <2>2, FS_Subset
  <2>4. Cardinality(Ahead(R, S, x)) \in Nat
    BY <2>3, FS_CardinalityType
  <2> QED
    BY <1>1, <2>3, <2>4 DEF PlaceIn
<1>3. r \in [S -> 1 .. N]
  BY <1>2 DEF PlaceIn
<1>4. \A x, y \in S : r[x] = r[y] => x = y
  <2> SUFFICES ASSUME NEW x \in S, NEW y \in S, r[x] = r[y], x # y PROVE FALSE
    OBVIOUS
  <2>1. r[x] < r[y] \/ r[y] < r[x]
    BY PlacesRise DEF Strict
  <2> QED
    BY <1>2, <2>1
<1>5. r \in Injection(S, 1 .. N)
  BY <1>3, <1>4 DEF Injection, IsInjective
<1>6. r \in Surjection(S, 1 .. N)
  BY <1>1, <1>5, FS_Injection
<1> QED
  BY <1>5, <1>6 DEF Bijection

\* A set put in place by a strict order: all of it, each once, in order.
LEMMA SortedLists ==
    ASSUME NEW S, NEW R, IsFiniteSet(S), Strict(R, S)
    PROVE  /\ Lists(ByPlace(S, Places(R, S)), S) /\ InOrder(ByPlace(S, Places(R, S)), R)
           /\ Len(ByPlace(S, Places(R, S))) = Cardinality(S)
           /\ \A n \in 1 .. Cardinality(S) : PlaceIn(R, S)[ByPlace(S, Places(R, S))[n]] = n
<1> DEFINE N == Cardinality(S)
           r == PlaceIn(R, S)
           s == ByPlace(S, Places(R, S))
<1>1. N \in Nat
  BY FS_CardinalityType
<1>2. /\ \A x \in S : r[x] \in 1 .. N
      /\ \A x, y \in S : r[x] = r[y] => x = y
      /\ \A n \in 1 .. N : \E x \in S : r[x] = n
  BY PlacesFill DEF Bijection, Injection, IsInjective, Surjection
<1>3. \A x \in S, n \in 1 .. N : <<x, n>> \in Places(R, S) <=> r[x] = n
  BY DEF Places, PlaceIn
<1>4. s = [n \in 1 .. N |-> CHOOSE x \in S : <<x, n>> \in Places(R, S)]
  BY DEF ByPlace
<1>5. \A n \in 1 .. N : s[n] \in S /\ r[s[n]] = n
  <2> TAKE n \in 1 .. N
  <2>1. PICK x \in S : <<x, n>> \in Places(R, S)
    BY <1>2, <1>3
  <2>2. s[n] = CHOOSE z \in S : <<z, n>> \in Places(R, S)
    BY <1>4
  <2>3. s[n] \in S /\ <<s[n], n>> \in Places(R, S)
    BY <2>1, <2>2
  <2> QED
    BY <1>3, <2>3
<1>6. s \in [1 .. N -> S]
  BY <1>4, <1>5
<1>7. s \in Seq(S) /\ Len(s) = N /\ DOMAIN s = 1 .. N
  BY <1>1, <1>6
<1> HIDE DEF s, r, N
<1>8. Once(s, S)
  BY <1>1, <1>5, <1>7 DEF Once
<1>9. Range(s) = S
  <2>1. \A x \in S : s[r[x]] = x
    BY <1>2, <1>5
  <2> QED
    BY <1>2, <1>5, <1>7, <2>1 DEF Range
<1>10. InOrder(s, R)
  <2> SUFFICES ASSUME NEW i \in 1 .. N, NEW j \in 1 .. N, i < j PROVE <<s[i], s[j]>> \in R
    BY <1>7 DEF InOrder
  <2>1. s[i] \in S /\ s[j] \in S /\ r[s[i]] = i /\ r[s[j]] = j
    BY <1>5
  <2>2. s[i] # s[j]
    BY <2>1, <1>1
  <2>3. <<s[j], s[i]>> \notin R
    <3> SUFFICES ASSUME <<s[j], s[i]>> \in R PROVE FALSE
      OBVIOUS
    <3>1. r[s[j]] < r[s[i]]
      BY <2>1, PlacesRise DEF r
    <3> QED
      BY <2>1, <3>1, <1>1
  <2> QED
    BY <2>1, <2>2, <2>3 DEF Strict
<1>11. Lists(s, S) /\ InOrder(s, R) /\ Len(s) = N /\ \A n \in 1 .. N : r[s[n]] = n
  BY <1>5, <1>7, <1>8, <1>9, <1>10 DEF Lists
<1> QED
  BY <1>11 DEF s, r, N
-----------------------------------------------------------------------------
(* The lists of the site.                                                  *)

Tiebreak(tie) ==
    /\ \A a \in Offers : tie[a] \in Int /\ Facts[a].born \in Int
    /\ \A a, b \in Offers : tie[a] = tie[b] => a = b

LEMMA TiesBreak ==
    ASSUME NEW tie \in Ties
    PROVE  Tiebreak(tie)
<1>1. Cardinality(Offers) \in Nat
  BY CatalogueAssumption, FS_CardinalityType
<1> QED
  BY <1>1, CatalogueAssumption DEF Ties, IsInjective, Tiebreak

LEMMA SeqBreaks == Tiebreak(BySeq)
  BY CatalogueAssumption DEF Tiebreak, BySeq

LEMMA LaterStrict ==
    ASSUME NEW tie, Tiebreak(tie)
    PROVE  /\ \A a \in Offers : ~LaterBy(tie, a, a)
           /\ \A a, b, c \in Offers : LaterBy(tie, a, b) /\ LaterBy(tie, b, c) => LaterBy(tie, a, c)
           /\ \A a, b \in Offers : a = b \/ LaterBy(tie, a, b) \/ LaterBy(tie, b, a)
  BY DEF Tiebreak, LaterBy

LaterIn(tie, S) == {p \in S \X S : LaterBy(tie, p[1], p[2])}
HotIn(d0, S)    == {p \in S \X S : HotThenNewest(d0, p[1], p[2])}
ActiveIn(d0, tie, S) == {p \in S \X S : ActiveThenNewest(d0, tie, p[1], p[2])}
EndsSooner(a, b) ==
    Facts[a].ends < Facts[b].ends \/ (Facts[a].ends = Facts[b].ends /\ Facts[a].seq < Facts[b].seq)
EndsIn(S)  == {p \in S \X S : EndsSooner(p[1], p[2])}

\* s is S in the order R.
SortedIn(s, S, R) == Strict(R, S) /\ s = ByPlace(S, Places(R, S))

LEMMA OffersFinite ==
    ASSUME NEW S, S \subseteq Offers
    PROVE  IsFiniteSet(S)
  BY CatalogueAssumption, FS_Subset

LEMMA InLists ==
    ASSUME NEW S, S \subseteq Offers, NEW R, NEW s, SortedIn(s, S, R)
    PROVE  Lists(s, S) /\ InOrder(s, R)
  BY OffersFinite, SortedLists DEF SortedIn

LEMMA LaterSorted ==
    ASSUME NEW S, S \subseteq Offers, NEW tie, Tiebreak(tie)
    PROVE  SortedIn(ByPlace(S, {<<x, Cardinality({y \in S : LaterBy(tie, y, x)}) + 1>> : x \in S}), S, LaterIn(tie, S))
<1> DEFINE R == LaterIn(tie, S)
           placed == {<<x, Cardinality({y \in S : LaterBy(tie, y, x)}) + 1>> : x \in S}
<1>0. \A a, b \in S : <<a, b>> \in R <=> LaterBy(tie, a, b)
  BY DEF LaterIn
<1>2. \A x \in S : {y \in S : LaterBy(tie, y, x)} = Ahead(R, S, x)
  BY DEF Ahead, LaterIn
<1>3. placed = Places(R, S)
  BY <1>2 DEF Places
<1> HIDE DEF R, placed
<1>1. Strict(R, S)
  BY <1>0, LaterStrict DEF Strict
<1> QED
  BY <1>1, <1>3 DEF SortedIn, placed, R

LEMMA NewestSorted ==
    ASSUME NEW S, S \subseteq Offers
    PROVE  SortedIn(Newest(S), S, LaterIn(BySeq, S))
<1>1. Newest(S) = ByPlace(S, {<<x, Cardinality({y \in S : LaterBy(BySeq, y, x)}) + 1>> : x \in S})
  BY Zenon DEF Newest, Sorted, Later
<1> QED
  BY <1>1, LaterSorted, SeqBreaks

LEMMA HotSorted ==
    ASSUME NEW d0 \in [Offers -> Row], NEW S, S \subseteq Offers
    PROVE  SortedIn(ByPlace(S, {<<x, Cardinality({y \in S : HotThenNewest(d0, y, x)}) + 1>> : x \in S}), S, HotIn(d0, S))
<1> DEFINE R == HotIn(d0, S)
           placed == {<<x, Cardinality({y \in S : HotThenNewest(d0, y, x)}) + 1>> : x \in S}
<1>0. \A a, b \in S : <<a, b>> \in R <=> HotThenNewest(d0, a, b)
  BY DEF HotIn
<1>2. \A x \in S : {y \in S : HotThenNewest(d0, y, x)} = Ahead(R, S, x)
  BY DEF Ahead, HotIn
<1>3. placed = Places(R, S)
  BY <1>2 DEF Places
<1>4. \A a \in S : d0[a].hot \in Int
  BY CatalogueAssumption DEF Row
<1> HIDE DEF R, placed
<1>5. Strict(R, S)
  BY <1>0, <1>4, LaterStrict, SeqBreaks DEF Strict, HotThenNewest, Later
<1> QED
  BY <1>3, <1>5 DEF SortedIn, placed, R

LEMMA ActiveSorted ==
    ASSUME NEW S, S \subseteq Offers, NEW d0, NEW tie, Tiebreak(tie)
    PROVE  SortedIn(ByPlace(S, {<<x, Cardinality({y \in S : ActiveThenNewest(d0, tie, y, x)}) + 1>> : x \in S}), S,
                    ActiveIn(d0, tie, S))
<1> DEFINE R == ActiveIn(d0, tie, S)
           placed == {<<x, Cardinality({y \in S : ActiveThenNewest(d0, tie, y, x)}) + 1>> : x \in S}
<1>0. \A a, b \in S : <<a, b>> \in R <=> ActiveThenNewest(d0, tie, a, b)
  BY DEF ActiveIn
<1>2. \A x \in S : {y \in S : ActiveThenNewest(d0, tie, y, x)} = Ahead(R, S, x)
  BY DEF Ahead, ActiveIn
<1>3. placed = Places(R, S)
  BY <1>2 DEF Places
<1> HIDE DEF R, placed
<1>5. Strict(R, S)
  BY <1>0, LaterStrict DEF Strict, ActiveThenNewest
<1> QED
  BY <1>3, <1>5 DEF SortedIn, placed, R

LEMMA EndingSorted ==
    ASSUME NEW d0
    PROVE  LET S == {o \in Actives(d0) : Facts[o].ends # Never} IN SortedIn(Ending(d0), S, EndsIn(S)) /\ S \subseteq Offers
<1> DEFINE S == {o \in Actives(d0) : Facts[o].ends # Never}
           R == EndsIn(S)
<1>0. S \subseteq Offers
  BY DEF Actives
<1>1. Strict(R, S)
  <2> HIDE DEF S
  <2>1. \A a \in S : Facts[a].ends \in Nat /\ Facts[a].seq \in Nat
    BY <1>0, CatalogueAssumption
  <2>2. \A a, b \in S : Facts[a].seq = Facts[b].seq => a = b
    BY <1>0, CatalogueAssumption
  <2>3. \A a, b \in S : <<a, b>> \in R <=> EndsSooner(a, b)
    BY DEF EndsIn
  <2>4. \A a \in S : ~EndsSooner(a, a)
    BY <2>1 DEF EndsSooner
  <2>5. \A a, b, c \in S : EndsSooner(a, b) /\ EndsSooner(b, c) => EndsSooner(a, c)
    BY <2>1 DEF EndsSooner
  <2>6. \A a, b \in S : a = b \/ EndsSooner(a, b) \/ EndsSooner(b, a)
    BY <2>1, <2>2 DEF EndsSooner
  <2> HIDE DEF R
  <2> QED
    BY <2>3, <2>4, <2>5, <2>6 DEF Strict
<1>2. \A x \in S : {y \in S : EndsSooner(y, x)} = Ahead(R, S, x)
  BY DEF Ahead, EndsIn
<1>3. Ending(d0) = ByPlace(S, Places(R, S))
  BY <1>2 DEF Ending, Sorted, Places, EndsSooner
<1> HIDE DEF R, S
<1> QED
  BY <1>0, <1>1, <1>3 DEF S, R, SortedIn

LEMMA NewestLists ==
    ASSUME NEW S, S \subseteq Offers
    PROVE  Lists(Newest(S), S)
  BY NewestSorted, InLists

LEMMA HotLists ==
    ASSUME NEW d0 \in [Offers -> Row]
    PROVE  Lists(Hot(d0), Actives(d0)) /\ Lists(Upvoted(d0), {o \in Actives(d0) : d0[o].hot > 0})
<1> DEFINE S == {o \in Actives(d0) : d0[o].hot > 0}
           sorted(T) == ByPlace(T, {<<x, Cardinality({y \in T : HotThenNewest(d0, y, x)}) + 1>> : x \in T})
<1>1. Actives(d0) \subseteq Offers /\ S \subseteq Offers
  BY DEF Actives
<1>2. Hot(d0) = sorted(Actives(d0)) /\ Upvoted(d0) = sorted(S)
  BY Zenon DEF Hot, Upvoted, Sorted
<1> HIDE DEF S
<1>3. \A T \in SUBSET Offers : Lists(sorted(T), T)
  BY HotSorted, InLists
<1> HIDE DEF sorted
<1> QED
  BY <1>1, <1>2, <1>3 DEF S

LEMMA EndingLists ==
    ASSUME NEW d0
    PROVE  Lists(Ending(d0), {o \in Actives(d0) : Facts[o].ends # Never})
<1> DEFINE S == {o \in Actives(d0) : Facts[o].ends # Never}
<1>1. SortedIn(Ending(d0), S, EndsIn(S)) /\ S \subseteq Offers
  BY EndingSorted
<1> HIDE DEF S
<1>2. Lists(Ending(d0), S)
  BY <1>1, InLists
<1> QED
  BY <1>2 DEF S
-----------------------------------------------------------------------------
(* Cutting lists.                                                          *)

LEMMA PositionsLists ==
    ASSUME NEW S, IsFiniteSet(S), S \subseteq Nat
    PROVE  Lists(ByPlace(S, {<<x, Cardinality({y \in S : y < x}) + 1>> : x \in S}), S)
<1> DEFINE R == {p \in S \X S : p[1] < p[2]}
           placed == {<<x, Cardinality({y \in S : y < x}) + 1>> : x \in S}
<1>1. Strict(R, S)
  BY DEF Strict
<1>2. \A x \in S : {y \in S : y < x} = Ahead(R, S, x)
  BY DEF Ahead
<1>3. placed = Places(R, S)
  BY <1>2 DEF Places
<1> HIDE DEF R, placed
<1> QED
  BY <1>1, <1>3, SortedLists DEF placed

\* What is left of a list that repeats nothing repeats nothing.
LEMMA OnlyOnce ==
    ASSUME NEW s, NEW S, NEW T, Once(s, S)
    PROVE  Once(Only(s, T), S \cap T) /\ Range(Only(s, T)) = Range(s) \cap T
<1> DEFINE P == {n \in DOMAIN s : s[n] \in T}
           at == ByPlace(P, {<<x, Cardinality({y \in P : y < x}) + 1>> : x \in P})
           left == Only(s, T)
<1>1. s \in Seq(S) /\ Len(s) \in Nat /\ DOMAIN s = 1 .. Len(s) /\ \A n \in 1 .. Len(s) : s[n] \in S
  BY DEF Once
<1>2. P \in SUBSET (1 .. Len(s))
  BY <1>1
<1>3. IsFiniteSet(P) /\ P \subseteq Nat
  <2> HIDE DEF P
  <2>1. IsFiniteSet(1 .. Len(s))
    BY <1>1, FS_Interval
  <2>2. IsFiniteSet(P)
    BY <1>2, <2>1, FS_Subset
  <2> QED
    BY <1>1, <1>2, <2>2
<1>4. Lists(at, P)
  <2> HIDE DEF P
  <2> QED
    BY <1>3, PositionsLists
<1>5. left = [n \in DOMAIN at |-> s[at[n]]]
  BY DEF Only, Sorted
<1> HIDE DEF P, at, left
<1>6. /\ Len(at) \in Nat /\ DOMAIN at = 1 .. Len(at)
      /\ \A n \in 1 .. Len(at) : at[n] \in P
      /\ \A m, n \in 1 .. Len(at) : at[m] = at[n] => m = n
      /\ \A p \in P : \E n \in 1 .. Len(at) : at[n] = p
  BY <1>4 DEF Lists, Once, Range
<1>7. left \in [1 .. Len(at) -> S \cap T]
  BY <1>1, <1>2, <1>5, <1>6 DEF P
<1>8. left \in Seq(S \cap T) /\ Len(left) = Len(at) /\ DOMAIN left = 1 .. Len(at)
  BY <1>6, <1>7
<1>9. \A m, n \in 1 .. Len(at) : left[m] = left[n] => m = n
  <2> TAKE m, n \in 1 .. Len(at)
  <2>1. left[m] = s[at[m]] /\ left[n] = s[at[n]]
    BY <1>5, <1>6
  <2>2. at[m] \in 1 .. Len(s) /\ at[n] \in 1 .. Len(s)
    BY <1>2, <1>6
  <2> QED
    BY <1>6, <2>1, <2>2, ZenonT(30) DEF Once
<1>10. Range(left) = Range(s) \cap T
  <2>1. \A x \in Range(s) \cap T : \E p \in P : s[p] = x
    BY <1>1 DEF Range, P
  <2>2. \A n \in 1 .. Len(at) : left[n] = s[at[n]] /\ at[n] \in DOMAIN s /\ s[at[n]] \in T
    BY <1>5, <1>6 DEF P
  <2>3. Range(left) \subseteq Range(s) \cap T
    BY <1>8, <2>2 DEF Range
  <2>4. ASSUME NEW x \in Range(s) \cap T PROVE x \in Range(left)
    <3>1. PICK p \in P : s[p] = x
      BY <2>1
    <3>2. PICK n \in 1 .. Len(at) : at[n] = p
      BY <1>6
    <3>3. left[n] = x
      BY <2>2, <3>1, <3>2
    <3> QED
      BY <1>8, <3>3 DEF Range
  <2> QED
    BY <2>3, <2>4
<1> QED
  BY <1>8, <1>9, <1>10 DEF Once, left

\* The first of a list that repeats nothing repeat nothing.
LEMMA FirstOnce ==
    ASSUME NEW s, NEW S, NEW n \in Nat, Once(s, S)
    PROVE  /\ Once(FirstOf(s, n), S) /\ Range(FirstOf(s, n)) \subseteq Range(s)
           /\ Len(FirstOf(s, n)) <= n
<1> DEFINE k == IF Len(s) < n THEN Len(s) ELSE n
           f == FirstOf(s, n)
<1>1. Len(s) \in Nat /\ s \in Seq(S) /\ DOMAIN s = 1 .. Len(s)
  BY DEF Once
<1>2. k \in Nat /\ k <= Len(s) /\ k <= n
  BY <1>1
<1>3. f = SubSeq(s, 1, k)
  BY DEF FirstOf
<1> HIDE DEF k, f
<1>4. f \in Seq(S) /\ Len(f) = k /\ DOMAIN f = 1 .. k /\ \A i \in 1 .. k : f[i] = s[i]
  BY <1>1, <1>2, <1>3
<1> QED
  BY <1>1, <1>2, <1>4, SMTT(30) DEF Once, Range, f

\* What a section of the front page takes from its candidates.
\* What a section of the front page takes from its candidates.
LEMMA TakeOnce ==
    ASSUME NEW rows, NEW skip, Once(rows, Offers)
    PROVE  /\ Once(Take(rows, skip), Offers) /\ Range(Take(rows, skip)) \subseteq Range(rows) \ skip
           /\ Len(Take(rows, skip)) <= HomeCards
<1> DEFINE kept == Only(rows, Offers \ skip)
           got == Take(rows, skip)
<1>2. Once(kept, Offers \cap (Offers \ skip)) /\ Range(kept) = Range(rows) \cap (Offers \ skip)
  BY OnlyOnce
<1>3. Once(kept, Offers)
  <2>1. Offers \cap (Offers \ skip) \subseteq Offers
    OBVIOUS
  <2> HIDE DEF kept
  <2> QED
    BY <1>2, <2>1 DEF Once
<1>4. HomeCards \in Nat
  BY CatalogueAssumption
<1>5. got = FirstOf(kept, HomeCards)
  BY DEF Take
<1> HIDE DEF kept, got
<1>6. Once(got, Offers) /\ Range(got) \subseteq Range(kept) /\ Len(got) <= HomeCards
  BY <1>3, <1>4, <1>5, FirstOnce
<1> QED
  BY <1>2, <1>6 DEF got
-----------------------------------------------------------------------------
(* The front page and the pages of a list.                                 *)

HomeLists == {"picks", "upvoted", "latest", "ending", "under"}

\* Rows of offers of A for each section of a front page, and the section.
RowsOf(r, A) == Once(r, Offers) /\ Range(r) \subseteq A
SectionOf(s, A) == RowsOf(s, A) /\ Len(s) <= HomeCards

LEMMA ListsOnce ==
    ASSUME NEW s, NEW S, S \subseteq Offers, Lists(s, S)
    PROVE  Once(s, Offers) /\ Range(s) = S
  BY DEF Lists, Once

LEMMA Taken ==
    ASSUME NEW A, NEW rows, RowsOf(rows, A), NEW skip
    PROVE  SectionOf(Take(rows, skip), A) /\ Range(Take(rows, skip)) \cap skip = {}
  BY TakeOnce DEF SectionOf, RowsOf

LEMMA HomeSections ==
    ASSUME NEW A, NEW rows, \A s \in HomeLists : RowsOf(rows[s], A), NEW cheap
    PROVE  LET h == Home(rows, cheap) IN
           /\ DOMAIN h = HomeLists
           /\ \A s \in DOMAIN h : SectionOf(h[s], A)
           /\ \A s, t \in DOMAIN h : s # t /\ {s, t} # {"latest", "ending"} => Disjoint(h, s, t)
<1> DEFINE picks   == Take(rows.picks, {})
           upvoted == Take(rows.upvoted, Range(picks))
           top     == Range(picks) \cup Range(upvoted)
           latest  == Take(rows.latest, top)
           ending  == Take(rows.ending, top)
           shown   == top \cup Range(latest) \cup Range(ending)
           few     == Only(rows.under, cheap)
           under   == Take(few, shown)
           h       == Home(rows, cheap)
<1>3. /\ RowsOf(rows.picks, A) /\ RowsOf(rows.upvoted, A) /\ RowsOf(rows.latest, A)
      /\ RowsOf(rows.ending, A) /\ RowsOf(rows.under, A)
  BY DEF HomeLists
<1>8. RowsOf(few, A)
  <2> DEFINE u == rows.under
  <2>1. Once(u, Offers) /\ Range(u) \subseteq A
    BY <1>3 DEF RowsOf
  <2> HIDE DEF u
  <2>2. Once(Only(u, cheap), Offers \cap cheap) /\ Range(Only(u, cheap)) = Range(u) \cap cheap
    BY <2>1, OnlyOnce
  <2>3. Offers \cap cheap \subseteq Offers
    OBVIOUS
  <2>4. few = Only(u, cheap)
    BY DEF u
  <2> HIDE DEF few
  <2> QED
    BY <2>1, <2>2, <2>3, <2>4 DEF Once, RowsOf
<1>9. h = [picks |-> picks, upvoted |-> upvoted, latest |-> latest, ending |-> ending, under |-> under]
  BY DEF Home
<1> HIDE DEF few, h
<1>10. SectionOf(picks, A)
  BY <1>3, Taken
<1> HIDE DEF picks
<1>11. SectionOf(upvoted, A) /\ Range(upvoted) \cap Range(picks) = {}
  BY <1>3, Taken
<1> HIDE DEF upvoted
<1>12. SectionOf(latest, A) /\ Range(latest) \cap top = {}
  <2> HIDE DEF top
  <2> QED
    BY <1>3, Taken
<1>13. SectionOf(ending, A) /\ Range(ending) \cap top = {}
  <2> HIDE DEF top
  <2> QED
    BY <1>3, Taken
<1> HIDE DEF latest, ending
<1>14. SectionOf(under, A) /\ Range(under) \cap shown = {}
  <2> HIDE DEF shown
  <2> QED
    BY <1>8, Taken
<1> HIDE DEF under
<1>15. DOMAIN h = {"picks", "upvoted", "latest", "ending", "under"}
  BY <1>9
<1>16. /\ h["picks"] = picks /\ h["upvoted"] = upvoted /\ h["latest"] = latest
       /\ h["ending"] = ending /\ h["under"] = under
  BY <1>9
<1>17. ASSUME NEW s \in DOMAIN h PROVE SectionOf(h[s], A)
  BY <1>10, <1>11, <1>12, <1>13, <1>14, <1>15, <1>16
<1>18. ASSUME NEW s \in DOMAIN h, NEW t \in DOMAIN h, s # t, {s, t} # {"latest", "ending"}
       PROVE  Disjoint(h, s, t)
  <2>1. /\ Range(h["upvoted"]) \cap Range(h["picks"]) = {}
        /\ Range(h["latest"]) \cap Range(h["picks"]) = {} /\ Range(h["latest"]) \cap Range(h["upvoted"]) = {}
        /\ Range(h["ending"]) \cap Range(h["picks"]) = {} /\ Range(h["ending"]) \cap Range(h["upvoted"]) = {}
        /\ Range(h["under"]) \cap Range(h["picks"]) = {} /\ Range(h["under"]) \cap Range(h["upvoted"]) = {}
        /\ Range(h["under"]) \cap Range(h["latest"]) = {} /\ Range(h["under"]) \cap Range(h["ending"]) = {}
    BY <1>11, <1>12, <1>13, <1>14, <1>16
  <2> DEFINE R(x) == Range(h[x])
  <2>2. R(s) \cap R(t) = {}
    <3> HIDE DEF R
    <3>1. /\ R("upvoted") \cap R("picks") = {}
          /\ R("latest") \cap R("picks") = {} /\ R("latest") \cap R("upvoted") = {}
          /\ R("ending") \cap R("picks") = {} /\ R("ending") \cap R("upvoted") = {}
          /\ R("under") \cap R("picks") = {} /\ R("under") \cap R("upvoted") = {}
          /\ R("under") \cap R("latest") = {} /\ R("under") \cap R("ending") = {}
      BY <2>1 DEF R
    <3> QED
      BY <1>15, <1>18, <3>1
  <2> QED
    BY <2>2 DEF Disjoint
<1> QED
  BY <1>15, <1>17, <1>18 DEF h, HomeLists

\* The offers some catalogue of seen has as active, and as listed.
EverActive(seen) == {o \in Offers : \E k \in DOMAIN seen : Active(seen[k], o)}
EverListed(seen) == {o \in Offers : \E k \in DOMAIN seen : Listed(seen[k], o)}

\* The five lists of a catalogue.
HomeQueries(d0) ==
    [picks |-> Picks(d0), upvoted |-> Upvoted(d0), latest |-> New(d0), ending |-> Ending(d0), under |-> UnderLimit(d0)]

LEMMA QueriesActive ==
    ASSUME NEW d0 \in [Offers -> Row]
    PROVE  /\ RowsOf(Picks(d0), Actives(d0)) /\ RowsOf(Upvoted(d0), Actives(d0)) /\ RowsOf(New(d0), Actives(d0))
           /\ RowsOf(Ending(d0), Actives(d0)) /\ RowsOf(UnderLimit(d0), Actives(d0))
<1>1. Actives(d0) \subseteq Offers
  BY DEF Actives
<1>2. \A l, S : S \subseteq Actives(d0) /\ Lists(l, S) => RowsOf(l, Actives(d0))
  BY <1>1, ListsOnce DEF RowsOf
<1>3. \A S : S \subseteq Actives(d0) => RowsOf(Newest(S), Actives(d0))
  BY <1>1, <1>2, NewestLists
<1>4. RowsOf(Picks(d0), Actives(d0)) /\ RowsOf(New(d0), Actives(d0)) /\ RowsOf(UnderLimit(d0), Actives(d0))
  BY <1>3, Zenon DEF Picks, New, UnderLimit
<1>5. RowsOf(Upvoted(d0), Actives(d0))
  BY <1>2, HotLists
<1>6. RowsOf(Ending(d0), Actives(d0))
  BY <1>2, EndingLists
<1> QED
  BY <1>4, <1>5, <1>6

LEMMA HomeRowsActive ==
    ASSUME NEW seen \in Seq([Offers -> Row]), NEW m \in DOMAIN seen, NEW rows \in HomeRows(seen, m)
    PROVE  \A s \in HomeLists : RowsOf(rows[s], EverActive(seen))
<1>1. \A k \in 1 .. m : k \in DOMAIN seen /\ seen[k] \in [Offers -> Row]
  OBVIOUS
<1>2. \A k \in 1 .. m : Actives(seen[k]) \subseteq EverActive(seen)
  BY <1>1 DEF Actives, EverActive
<1>3. ASSUME NEW k \in 1 .. m, NEW l, RowsOf(l, Actives(seen[k])), NEW n \in Nat
      PROVE  RowsOf(FirstOf(l, n), EverActive(seen))
  BY <1>2, <1>3, FirstOnce DEF RowsOf
<1>4. 2 * HomeCards \in Nat /\ 3 * HomeCards \in Nat /\ 4 * HomeCards \in Nat
  BY CatalogueAssumption
<1>5. /\ \E k \in 1 .. m : rows.picks = FirstOf(Picks(seen[k]), 2 * HomeCards)
      /\ \E k \in 1 .. m : rows.upvoted = FirstOf(Upvoted(seen[k]), 2 * HomeCards)
      /\ \E k \in 1 .. m : rows.latest = FirstOf(New(seen[k]), 3 * HomeCards)
      /\ \E k \in 1 .. m : rows.ending = FirstOf(Ending(seen[k]), 2 * HomeCards)
      /\ \E k \in 1 .. m : rows.under = FirstOf(UnderLimit(seen[k]), 4 * HomeCards)
  BY DEF HomeRows
<1>6. /\ RowsOf(rows.picks, EverActive(seen)) /\ RowsOf(rows.upvoted, EverActive(seen))
      /\ RowsOf(rows.latest, EverActive(seen)) /\ RowsOf(rows.ending, EverActive(seen))
      /\ RowsOf(rows.under, EverActive(seen))
  BY <1>1, <1>3, <1>4, <1>5, QueriesActive
<1> QED
  BY <1>6 DEF HomeLists

\* A page of a list is a part of it.
LEMMA PageWithin ==
    ASSUME NEW s \in Seq(Offers)
    PROVE  Range(Window(s, 1)) \subseteq Range(s) /\ PageOf(s, 1) = Window(s, 1)
<1> DEFINE to == IF 1 * PerPage < Len(s) THEN 1 * PerPage ELSE Len(s)
<1>1. PerPage \in Nat \ {0} /\ Len(s) \in Nat /\ DOMAIN s = 1 .. Len(s)
  BY CatalogueAssumption
<1>2. s # <<>> => Len(s) # 0
  BY <1>1
<1>3. ~(1 > (Len(s) + PerPage - 1) \div PerPage /\ s # <<>>)
  BY <1>1, <1>2
<1>4. PageOf(s, 1) = Window(s, 1)
  BY <1>3, Zenon DEF PageOf
<1>5. (1 - 1) * PerPage + 1 = 1 /\ to \in 0 .. Len(s)
  BY <1>1
<1>6. Window(s, 1) = SubSeq(s, (1 - 1) * PerPage + 1, to)
  BY Zenon DEF Window
<1> HIDE DEF to
<1> DEFINE f == SubSeq(s, 1, to)
<1>7. DOMAIN f = 1 .. to /\ \A i \in 1 .. to : f[i] = s[i]
  BY <1>1, <1>5
<1> HIDE DEF f
<1>8. Range(f) \subseteq Range(s)
  BY <1>1, <1>5, <1>7 DEF Range
<1>9. Window(s, 1) = f
  BY <1>5, <1>6 DEF f
<1> QED
  BY <1>4, <1>8, <1>9

\* A page shows offers; the front page and the hot list such as were listed when
\* one of its queries ran.
LEMMA ContentShown ==
    ASSUME NEW seen \in Seq([Offers -> Row]), NEW c \in {"home", "hot", "sitemap"}, NEW T \in Contents(c, seen)
    PROVE  T \subseteq Offers /\ (c # "sitemap" => T \subseteq EverListed(seen))
<1>1. EverActive(seen) \subseteq EverListed(seen) /\ EverListed(seen) \subseteq Offers
  BY DEF EverActive, EverListed, Active, Listed
<1>0. \A k \in DOMAIN seen : seen[k] \in [Offers -> Row]
  OBVIOUS
<1>2. CASE c = "home"
  <2>1. PICK h \in HomePages(seen) : T = UNION {Range(h[s]) : s \in DOMAIN h}
    BY <1>2 DEF Contents
  <2>2. PICK m \in DOMAIN seen : \E rows \in HomeRows(seen, m) : \E cheap : h = Home(rows, cheap)
    <3> DEFINE J(m) == Judged(Offers, {{o \in Offers : Cheap(seen[j], o)} : j \in m .. Len(seen)})
    <3>1. HomePages(seen) = UNION {{Home(rows, cheap) : rows \in HomeRows(seen, m), cheap \in J(m)} : m \in DOMAIN seen}
      BY DEF HomePages
    <3> HIDE DEF J
    <3> QED
      BY <2>1, <3>1
  <2>3. \A s \in DOMAIN h : Range(h[s]) \subseteq EverActive(seen)
    <3>0. PICK rows \in HomeRows(seen, m) : \E cheap : h = Home(rows, cheap)
      BY <2>2
    <3>1. PICK cheap : h = Home(rows, cheap)
      BY <3>0
    <3>2. \A s \in HomeLists : RowsOf(rows[s], EverActive(seen))
      BY HomeRowsActive
    <3> QED
      BY <3>1, <3>2, HomeSections DEF SectionOf, RowsOf
  <2> QED
    BY <1>1, <2>1, <2>3
<1>3. CASE c = "hot"
  <2>1. PICK k \in DOMAIN seen : T = Range(ListPage(seen[k], "/hot", 1))
    BY <1>3 DEF Contents
  <2>2. Once(Hot(seen[k]), Offers) /\ Range(Hot(seen[k])) = Actives(seen[k])
    BY <1>0, HotLists, ListsOnce DEF Actives
  <2>3. ListPage(seen[k], "/hot", 1) = PageOf(Hot(seen[k]), 1)
    BY DEF ListPage, ListOf
  <2>4. T \subseteq Actives(seen[k])
    BY <2>1, <2>2, <2>3, PageWithin DEF Once
  <2> QED
    BY <1>1, <2>4 DEF Actives, EverActive
<1>4. CASE c = "sitemap"
  <2>0. PICK k \in DOMAIN seen : \E rows \in OfferRows(seen[k]) : T \subseteq Range(rows)
    <3>1. T \in Mapped(seen)
      BY <1>4 DEF Contents
    <3> QED
      BY <3>1 DEF Mapped, Judged
  <2>1. PICK rows \in OfferRows(seen[k]) : T \subseteq Range(rows)
    BY <2>0
  <2> DEFINE L == {o \in Offers : Listed(seen[k], o)}
             list(tie) == Sorted(L, LAMBDA a, b : LaterBy(tie, a, b))
  <2>2. PICK tie \in Ties : rows = FirstOf(list(tie), MapMax)
    BY <2>1 DEF OfferRows
  <2>3. list(tie) = ByPlace(L, {<<x, Cardinality({y \in L : LaterBy(tie, y, x)}) + 1>> : x \in L})
    BY Zenon DEF Sorted
  <2>4. Lists(list(tie), L) /\ L \subseteq Offers
    <3>1. L \subseteq Offers
      OBVIOUS
    <3> HIDE DEF L
    <3>2. Tiebreak(tie)
      BY TiesBreak
    <3>3. SortedIn(list(tie), L, LaterIn(tie, L))
      BY <2>3, <3>1, <3>2, LaterSorted, Zenon
    <3> HIDE DEF list
    <3> QED
      BY <3>1, <3>3, InLists, Zenon
  <2> HIDE DEF list, L
  <2>5. Range(rows) \subseteq Offers
    <3> DEFINE l == list(tie)
    <3>1. Once(l, Offers) /\ Range(l) \subseteq Offers
      <4> HIDE DEF l
      <4>1. Lists(l, L) /\ L \subseteq Offers
        BY <2>4 DEF l
      <4> QED
        BY <4>1, ListsOnce
    <3>2. rows = FirstOf(l, MapMax) /\ MapMax \in Nat
      BY <2>2, CatalogueAssumption
    <3> HIDE DEF l
    <3> QED
      BY <3>1, <3>2, FirstOnce
  <2> QED
    BY <1>4, <2>1, <2>5
<1> QED
  BY <1>2, <1>3, <1>4
-----------------------------------------------------------------------------
(* Types.                                                                  *)

CacheRow(c) == [page : Pages \cup {None}, age : 0 .. AgeCap(c), build : Builds]

LEMMA ConstantTypes ==
    /\ GoneCap \in Nat /\ WarmEvery \in Nat \ {0} /\ MaxBuild \in Nat /\ MaxFaults \in Nat
    /\ \A c : AgeCap(c) \in Nat /\ Cold \in CacheRow(c)
    /\ NoBuild \in Builds
    /\ \A cs \in Followed : MaxChanges[cs] \in Nat
<1>1. GoneCap \in Nat /\ MaxBuild \in Nat /\ MaxFaults \in Nat /\ \A c : AgeCap(c) \in Nat
  BY SiteAssumption DEF GoneCap, AgeCap
<1>2. WarmEvery \in Nat \ {0}
  BY SiteAssumption DEF WarmEvery
<1>3. NoBuild \in Builds
  BY <1>1 DEF NoBuild, Builds
<1>4. \A c : Cold \in CacheRow(c)
  BY <1>1, <1>3 DEF Cold, CacheRow
<1> QED
  BY <1>1, <1>2, <1>3, <1>4, SiteAssumption

LEMMA NextTypes ==
    ASSUME NEW n \in Nat
    PROVE  NextOf(n) \subseteq Caches \cap {"home", "hot"}
<1>1. \A k \in 1 .. Len(Warmed) : Warmed[k] \in {"home", "hot"}
  BY SiteAssumption
<1>2. NextOf(n) \subseteq Caches
  BY DEF NextOf
<1> QED
  BY <1>1, <1>2 DEF NextOf

\* A build that runs sees one more catalogue at most: what it saw stays, and the
\* new one lists the same offers, only their ages may be the older clock's.
LEMMA SeesNew ==
    ASSUME d \in [Offers -> Row], NEW b \in Builds, b.seen # <<>>, NEW new \in [Offers -> Row]
    PROVE  /\ Sees(b, new) \in Builds /\ Sees(b, new).seen # <<>> /\ Sees(b, new).took = b.took
           /\ \A k \in DOMAIN Sees(b, new).seen :
                \/ k \in DOMAIN b.seen /\ Sees(b, new).seen[k] = b.seen[k]
                \/ \A o \in Offers : Listed(Sees(b, new).seen[k], o) <=> Listed(new, o)
<1> DEFINE last == b.seen[Len(b.seen)]
           now  == [o \in Offers |-> [new[o] EXCEPT !.age = IF @ = d[o].age THEN last[o].age ELSE @]]
           more == Append(b.seen, now)
           got  == Sees(b, new)
<1>1. /\ b.seen \in Seq([Offers -> Row]) /\ Len(b.seen) \in Nat /\ DOMAIN b.seen = 1 .. Len(b.seen)
      /\ b.took \in 0 .. MaxBuild /\ b = [seen |-> b.seen, took |-> b.took]
  BY DEF Builds
<1>2. last \in [Offers -> Row]
  <2>1. Len(b.seen) \in 1 .. Len(b.seen)
    BY <1>1
  <2> QED
    BY <1>1, <2>1
<1>0. got = [b EXCEPT !.seen = IF now = last THEN @ ELSE Append(@, now)]
  BY Zenon DEF Sees
<1> HIDE DEF last, got
<1>3. \A o \in Offers : now[o] \in Row /\ now[o].into = new[o].into /\ now[o].status = new[o].status
  <2> TAKE o \in Offers
  <2>1. new[o] \in Row /\ last[o] \in Row
    BY <1>2
  <2>2. now[o] = [new[o] EXCEPT !.age = IF @ = d[o].age THEN last[o].age ELSE @]
    OBVIOUS
  <2> HIDE DEF now
  <2> QED
    BY <2>1, <2>2 DEF Row
<1>4. now \in [Offers -> Row]
  BY <1>3
<1>5. got = [seen |-> IF now = last THEN b.seen ELSE more, took |-> b.took]
  <2> HIDE DEF now
  <2> QED
    BY <1>0, <1>1
<1>6. \A o \in Offers : Listed(now, o) <=> Listed(new, o)
  <2> HIDE DEF now
  <2> QED
    BY <1>3 DEF Listed, Canonical
<1> HIDE DEF now
<1>7. /\ more \in Seq([Offers -> Row]) /\ Len(more) = Len(b.seen) + 1 /\ more # <<>>
      /\ more[Len(b.seen) + 1] = now /\ \A k \in 1 .. Len(b.seen) : more[k] = b.seen[k]
      /\ DOMAIN more = 1 .. Len(b.seen) + 1
  BY <1>1, <1>4
<1> HIDE DEF more
<1>8. got \in Builds
  BY <1>1, <1>5, <1>7 DEF Builds
<1>9. got.took = b.took /\ got.seen \in {b.seen, more}
  BY <1>5
<1>10. \A k \in 1 .. Len(b.seen) + 1 : k \in 1 .. Len(b.seen) \/ k = Len(b.seen) + 1
  BY <1>1
<1> QED
  BY <1>1, <1>6, <1>7, <1>8, <1>9, <1>10 DEF got

\* Begun starts the builds of a set that do not run, and changes nothing else.
BegunBuild(cs, c) == IF c \in cs /\ ~Running(c) THEN [seen |-> <<d>>, took |-> 0] ELSE cache[c].build

LEMMA BegunRows ==
    ASSUME TypeOK, NEW cs
    PROVE  /\ DOMAIN Begun(cs) = Caches
           /\ \A c \in Caches :
                /\ Begun(cs)[c] = [page |-> cache[c].page, age |-> cache[c].age, build |-> BegunBuild(cs, c)]
                /\ Begun(cs)[c] \in CacheRow(c)
                /\ BegunBuild(cs, c) \in Builds
<1>1. DOMAIN Begun(cs) = Caches
  BY DEF Begun
<1> SUFFICES ASSUME NEW c \in Caches
             PROVE  /\ Begun(cs)[c] = [page |-> cache[c].page, age |-> cache[c].age, build |-> BegunBuild(cs, c)]
                    /\ Begun(cs)[c] \in CacheRow(c)
                    /\ BegunBuild(cs, c) \in Builds
  BY <1>1
<1>2. cache[c] \in CacheRow(c) /\ d \in [Offers -> Row] /\ MaxBuild \in Nat
  BY ConstantTypes DEF TypeOK, CacheRow
<1>3. BegunBuild(cs, c) \in Builds
  <2>1. <<d>> \in Seq([Offers -> Row])
    BY <1>2
  <2>2. [seen |-> <<d>>, took |-> 0] \in Builds
    BY <1>2, <2>1 DEF Builds
  <2>3. cache[c].build \in Builds
    BY <1>2 DEF CacheRow
  <2> QED
    BY <2>2, <2>3 DEF BegunBuild
<1>4. Begun(cs)[c] = [page |-> cache[c].page, age |-> cache[c].age, build |-> BegunBuild(cs, c)]
  <2>1. cache[c] = [page |-> cache[c].page, age |-> cache[c].age, build |-> cache[c].build]
    BY <1>2 DEF CacheRow
  <2>2. Begun(cs)[c] = IF c \in cs /\ ~Running(c) THEN [cache[c] EXCEPT !.build = [seen |-> <<d>>, took |-> 0]]
                       ELSE cache[c]
    BY DEF Begun
  <2> QED
    BY <2>1, <2>2 DEF BegunBuild
<1>5. Begun(cs)[c] \in CacheRow(c)
  <2>1. cache[c].page \in Pages \cup {None} /\ cache[c].age \in 0 .. AgeCap(c)
    BY <1>2 DEF CacheRow
  <2> QED
    BY <1>3, <1>4, <2>1 DEF CacheRow
<1> QED
  BY <1>3, <1>4, <1>5

LEMMA BegunFields ==
    ASSUME TypeOK, NEW cs, NEW x \in Caches
    PROVE  /\ Begun(cs)[x].page = cache[x].page /\ Begun(cs)[x].age = cache[x].age
           /\ Begun(cs)[x].build = BegunBuild(cs, x)
           /\ BegunBuild(cs, x).took \in 0 .. MaxBuild
<1> DEFINE r == Begun(cs)[x]
<1>1. r = [page |-> cache[x].page, age |-> cache[x].age, build |-> BegunBuild(cs, x)]
  BY BegunRows
<1>2. BegunBuild(cs, x) \in Builds
  BY BegunRows
<1> HIDE DEF r
<1>3. r.page = cache[x].page /\ r.age = cache[x].age /\ r.build = BegunBuild(cs, x)
  BY <1>1
<1> QED
  BY <1>2, <1>3 DEF Builds, r

LEMMA FinishTypes ==
    ASSUME TypeOK, NEW c \in Caches, FinishBuild(c)
    PROVE  TypeOK'
<1>1. c \in {"home", "hot", "sitemap"}
  BY SiteAssumption DEF TypeOK
<1>2. cache[c].build \in Builds
  BY DEF TypeOK
<1>3. Made(c) \subseteq Pages
  <2>1. \A T \in Contents(c, cache[c].build.seen) : T \subseteq Offers
    BY <1>1, <1>2, ContentShown DEF Builds
  <2> QED
    BY <1>2, <2>1 DEF Made, Pages, Builds
<1>4. Released(c) \subseteq Caches
  <2>1. \A n \in DOMAIN Warmed : NextOf(n) \subseteq Caches
    BY NextTypes, SiteAssumption
  <2> QED
    BY <2>1 DEF Released
<1>5. PICK page \in Made(c) : cache' = [Begun(Released(c)) EXCEPT ![c] = [page |-> page, age |-> 0, build |-> NoBuild]]
  BY DEF FinishBuild, Ended
<1>6. Caches' = Caches
  BY <1>5, BegunRows DEF Caches
<1>7. \A x \in Caches : cache'[x] \in CacheRow(x)
  <2> TAKE x \in Caches
  <2>1. [page |-> page, age |-> 0, build |-> NoBuild] \in CacheRow(c)
    BY <1>3, ConstantTypes DEF CacheRow
  <2>2. cache'[x] = IF x = c THEN [page |-> page, age |-> 0, build |-> NoBuild] ELSE Begun(Released(c))[x]
    BY <1>5, BegunRows
  <2> QED
    BY <2>1, <2>2, BegunRows
<1> QED
  BY <1>4, <1>6, <1>7 DEF FinishBuild, TypeOK, CacheRow
LEMMA FailTypes ==
    ASSUME TypeOK, NEW c \in Caches, FailBuild(c)
    PROVE  TypeOK'
<1>1. Released(c) \subseteq Caches
  <2>1. \A n \in DOMAIN Warmed : NextOf(n) \subseteq Caches
    BY NextTypes, SiteAssumption
  <2> QED
    BY <2>1 DEF Released
<1> DEFINE b == Begun(Released(c))
<1>2. cache' = [b EXCEPT ![c].build = NoBuild]
  BY DEF FailBuild, Ended
<1>3. DOMAIN b = Caches /\ \A x \in Caches : b[x] \in CacheRow(x)
  BY BegunRows
<1> HIDE DEF b
<1>4. Caches' = Caches
  BY <1>2, <1>3 DEF Caches
<1>5. \A x \in Caches : cache'[x] \in CacheRow(x)
  <2> TAKE x \in Caches
  <2>1. cache'[x] = IF x = c THEN [b[c] EXCEPT !.build = NoBuild] ELSE b[x]
    BY <1>2, <1>3
  <2>2. [b[c] EXCEPT !.build = NoBuild] \in CacheRow(c)
    <3>1. b[c] \in CacheRow(c) /\ NoBuild \in Builds
      BY <1>3, ConstantTypes
    <3> QED
      BY <3>1 DEF CacheRow
  <2> QED
    BY <1>3, <2>1, <2>2
<1>6. faults' \in 0 .. MaxFaults
  BY ConstantTypes DEF TypeOK, FailBuild
<1> QED
  BY <1>1, <1>4, <1>5, <1>6 DEF FailBuild, TypeOK, CacheRow

\* A step that at most begins builds.
LEMMA BeginTypes ==
    ASSUME TypeOK, NEW cs, cache' \in {Begun(cs), cache}, waiting' \subseteq Caches, warmer' \subseteq Caches,
           warmIn' \in 0 .. WarmEvery, toWarm' \in BOOLEAN, UNCHANGED <<d, gone, failed, changes, faults>>
    PROVE  TypeOK' /\ Caches' = Caches
<1>1. Caches' = Caches
  BY BegunRows DEF Caches
<1>2. \A x \in Caches : cache'[x] \in CacheRow(x)
  BY BegunRows DEF TypeOK, CacheRow
<1> QED
  BY <1>1, <1>2 DEF TypeOK, CacheRow

LEMMA TickTypes ==
    ASSUME TypeOK, Tick
    PROVE  TypeOK'
<1> DEFINE row(c) == [page |-> cache[c].page,
                      age |-> IF cache[c].page = None THEN 0 ELSE Older(cache[c].age, AgeCap(c)),
                      build |-> IF ~Running(c) THEN NoBuild
                                ELSE [(IF c = "sitemap" THEN Sees(cache[c].build, d') ELSE cache[c].build)
                                        EXCEPT !.took = @ + 1]]
<1>1. cache' = [c \in Caches |-> row(c)] /\ Caches' = Caches
  BY DEF Tick, Caches
<1>3. d' \in [Offers -> Row]
  <2>1. \A o \in Offers : d[o] \in Row /\ FreshFor \in Nat
    BY CatalogueAssumption DEF TypeOK
  <2>2. \A o \in Offers : [d[o] EXCEPT !.age = Older(@, FreshFor + 1)] \in Row
    BY <2>1 DEF Row, Older
  <2>3. d' = [o \in Offers |-> [d[o] EXCEPT !.age = Older(@, FreshFor + 1)]]
    BY DEF Tick
  <2> QED
    BY <2>2, <2>3
<1>2. ASSUME NEW c \in Caches PROVE row(c) \in CacheRow(c)
  <2>1. cache[c] \in CacheRow(c) /\ AgeCap(c) \in Nat /\ MaxBuild \in Nat
    BY ConstantTypes DEF TypeOK, CacheRow
  <2>2. cache[c].page \in Pages \cup {None} /\ cache[c].age \in 0 .. AgeCap(c) /\ cache[c].build \in Builds
    BY <2>1 DEF CacheRow
  <2>3. (IF cache[c].page = None THEN 0 ELSE Older(cache[c].age, AgeCap(c))) \in 0 .. AgeCap(c)
    BY <2>1, <2>2 DEF Older
  <2>4. (IF ~Running(c) THEN NoBuild
         ELSE [(IF c = "sitemap" THEN Sees(cache[c].build, d') ELSE cache[c].build) EXCEPT !.took = @ + 1]) \in Builds
    <3>1. CASE ~Running(c)
      BY <3>1, ConstantTypes
    <3>2. CASE Running(c)
      <4> DEFINE b == IF c = "sitemap" THEN Sees(cache[c].build, d') ELSE cache[c].build
      <4>1. b \in Builds /\ b.took = cache[c].build.took
        BY <1>3, <2>2, <3>2, SeesNew DEF TypeOK, Running
      <4>2. cache[c].build.took < MaxBuild
        BY <3>2 DEF Tick
      <4> HIDE DEF b
      <4>3. b.took + 1 \in 0 .. MaxBuild
        BY <2>1, <4>1, <4>2 DEF Builds
      <4>4. [b EXCEPT !.took = @ + 1] \in Builds
        BY <4>1, <4>3 DEF Builds
      <4> QED
        BY <3>2, <4>4 DEF b
    <3> QED
      BY <3>1, <3>2
  <2> QED
    BY <2>2, <2>3, <2>4 DEF CacheRow
<1>4. gone' \in [Offers -> 0 .. GoneCap]
  BY ConstantTypes DEF TypeOK, Tick, Older
<1>5. warmIn' \in 0 .. WarmEvery
  BY ConstantTypes DEF TypeOK, Tick
<1> HIDE DEF row
<1>6. \A c \in Caches' : cache'[c] \in CacheRow(c)
  BY <1>1, <1>2
<1>7. /\ waiting' = waiting /\ warmer' = warmer /\ toWarm' = toWarm /\ failed' = failed
      /\ changes' = changes /\ faults' = faults
  BY DEF Tick
<1> QED
  BY <1>1, <1>3, <1>4, <1>5, <1>6, <1>7 DEF TypeOK, CacheRow

LEMMA RestartTypes ==
    ASSUME TypeOK, Restart
    PROVE  TypeOK'
<1>1. Caches' = Caches /\ \A c \in Caches : cache'[c] = Cold
  BY DEF Restart, Caches
<1>2. \A c \in Caches : cache'[c] \in CacheRow(c)
  BY <1>1, ConstantTypes
<1>3. faults' \in 0 .. MaxFaults /\ warmIn' \in 0 .. WarmEvery
  BY ConstantTypes DEF TypeOK, Restart
<1> QED
  BY <1>1, <1>2, <1>3 DEF TypeOK, Restart, CacheRow

LEMMA ChangeTypes ==
    ASSUME TypeOK, NEW new \in [Offers -> Row], Change(new)
    PROVE  TypeOK'
<1>1. d' \in [Offers -> Row] /\ gone' \in [Offers -> 0 .. GoneCap]
  BY ConstantTypes DEF TypeOK, Change
<1>2. Caches' = Caches /\ changes' \in 0 .. MaxChanges[Caches]
  BY ConstantTypes DEF TypeOK, Change, Caches
<1>3. ASSUME NEW c \in Caches PROVE cache'[c] \in CacheRow(c)
  <2>1. cache[c] \in CacheRow(c) /\ cache[c].build \in Builds
    BY DEF TypeOK, CacheRow
  <2>2. CASE Running(c)
    <3>1. Sees(cache[c].build, new) \in Builds
      BY <2>1, <2>2, SeesNew DEF TypeOK, Running
    <3>2. cache'[c] = [cache[c] EXCEPT !.build = Sees(@, new)]
      BY <2>2 DEF Change
    <3> QED
      BY <2>1, <3>1, <3>2 DEF CacheRow
  <2>3. CASE ~Running(c)
    BY <2>1, <2>3 DEF Change
  <2> QED
    BY <2>2, <2>3
<1> QED
  BY <1>1, <1>2, <1>3 DEF TypeOK, Change, CacheRow

\* A step of a moderator, a person or the importer changes the catalogue.
RowStep ==
    \E o \in Offers :
         \/ Disable(o) \/ Expire(o) \/ Approve(o) \/ Unmerge(o) \/ Observe(o) \/ RemoveSource(o)
         \/ Label(o) \/ Snapshot(o)
         \/ \E into \in Offers : Merge(o, into)


LEMMA RowStepChanges ==
    ASSUME TypeOK, RowStep
    PROVE  \E new \in [Offers -> Row] : Change(new)
<1>1. PICK o \in Offers :
         \/ Disable(o) \/ Expire(o) \/ Approve(o) \/ Unmerge(o) \/ Observe(o) \/ RemoveSource(o)
         \/ Label(o) \/ Snapshot(o)
         \/ \E into \in Offers : Merge(o, into)
  BY DEF RowStep
<1>2. d \in [Offers -> Row] /\ FreshFor \in Nat
  BY CatalogueAssumption DEF TypeOK
<1>3. ASSUME NEW e \in [Offers -> Row], NEW x
      PROVE  /\ [e EXCEPT ![x].status = "disabled"] \in [Offers -> Row]
             /\ [e EXCEPT ![x].status = "expired"] \in [Offers -> Row]
             /\ [e EXCEPT ![x].pending = FALSE] \in [Offers -> Row]
             /\ [e EXCEPT ![x].live = FALSE] \in [Offers -> Row]
             /\ [e EXCEPT ![x].into = None] \in [Offers -> Row]
             /\ \A into \in Offers : [e EXCEPT ![x].into = into] \in [Offers -> Row]
             /\ \A hot \in Scores : [e EXCEPT ![x].hot = hot] \in [Offers -> Row]
             /\ \A pick \in BOOLEAN : [e EXCEPT ![x].pick = pick] \in [Offers -> Row]
             /\ [e EXCEPT ![x].seen = TRUE] \in [Offers -> Row]
             /\ [e EXCEPT ![x].age = 0] \in [Offers -> Row]
  <2>1. CASE x \in Offers
    <3>1. e[x] \in Row
      BY <2>1
    <3>2. /\ [e[x] EXCEPT !.status = "disabled"] \in Row /\ [e[x] EXCEPT !.status = "expired"] \in Row
          /\ [e[x] EXCEPT !.pending = FALSE] \in Row /\ [e[x] EXCEPT !.live = FALSE] \in Row
          /\ [e[x] EXCEPT !.into = None] \in Row
          /\ \A into \in Offers : [e[x] EXCEPT !.into = into] \in Row
      BY <3>1 DEF Row
    <3>3. \A hot \in Scores : [e[x] EXCEPT !.hot = hot] \in Row
      BY <3>1 DEF Row
    <3>4. \A pick \in BOOLEAN : [e[x] EXCEPT !.pick = pick] \in Row
      BY <3>1 DEF Row
    <3>5. [e[x] EXCEPT !.seen = TRUE] \in Row
      BY <3>1 DEF Row
    <3>6. [e[x] EXCEPT !.age = 0] \in Row
      BY <1>2, <3>1 DEF Row
    <3> QED
      BY <3>2, <3>3, <3>4, <3>5, <3>6
  <2>2. CASE x \notin Offers
    BY <2>2
  <2> QED
    BY <2>1, <2>2
<1>4. CASE Disable(o) \/ Expire(o) \/ Approve(o) \/ RemoveSource(o) \/ Label(o) \/ Snapshot(o)
  BY <1>2, <1>3, <1>4 DEF Disable, Expire, Approve, RemoveSource, Label, Snapshot
<1>5. CASE Observe(o)
  <2>1. [d EXCEPT ![o].seen = TRUE, ![o].age = 0] = [[d EXCEPT ![o].seen = TRUE] EXCEPT ![o].age = 0]
    OBVIOUS
  <2> QED
    BY <1>2, <1>3, <1>5, <2>1, Zenon DEF Observe
<1>6. CASE Unmerge(o)
  <2> DEFINE r == RootOf(d, o)
             e(own) == [[d EXCEPT ![o].into = None] EXCEPT ![o].hot = own]
  <2>1. \A own, hot : [d EXCEPT ![o].into = None, ![o].hot = own, ![r].hot = hot] = [e(own) EXCEPT ![r].hot = hot]
    OBVIOUS
  <2>2. \A own, hot \in Scores : [d EXCEPT ![o].into = None, ![o].hot = own, ![r].hot = hot] \in [Offers -> Row]
    <3> TAKE own, hot \in Scores
    <3>1. e(own) \in [Offers -> Row]
      BY <1>2, <1>3
    <3> HIDE DEF e
    <3>2. [e(own) EXCEPT ![r].hot = hot] \in [Offers -> Row]
      BY <1>3, <3>1
    <3> QED
      BY <2>1, <3>2
  <2> QED
    BY <1>6, <2>2 DEF Unmerge
<1>7. ASSUME NEW into \in Offers, Merge(o, into) PROVE \E new \in [Offers -> Row] : Change(new)
  <2>1. PICK hot \in Scores : Change([d EXCEPT ![o].into = into, ![into].hot = hot])
    BY <1>7 DEF Merge
  <2> DEFINE e == [d EXCEPT ![o].into = into]
  <2>2. [d EXCEPT ![o].into = into, ![into].hot = hot] = [e EXCEPT ![into].hot = hot]
    OBVIOUS
  <2>3. e \in [Offers -> Row]
    BY <1>2, <1>3
  <2> HIDE DEF e
  <2>4. [e EXCEPT ![into].hot = hot] \in [Offers -> Row]
    BY <1>3, <2>3
  <2> QED
    BY <2>1, <2>2, <2>4
<1> QED
  BY <1>1, <1>4, <1>5, <1>6, <1>7

LEMMA TypesStep ==
    ASSUME TypeOK, [Next]_vars
    PROVE  TypeOK'
<1>1. CASE \E c \in Caches : FinishBuild(c)
  BY <1>1, FinishTypes
<1>2. CASE \E c \in Caches : FailBuild(c)
  BY <1>2, FailTypes
<1>3. ASSUME NEW c \in Caches, ReadCopy(c) \/ ReadWaits(c) PROVE TypeOK'
  <2>1. cache' \in {Begun({c}), cache} /\ waiting' \subseteq Caches
    BY <1>3 DEF TypeOK, ReadCopy, ReadWaits
  <2> QED
    BY <1>3, <2>1, BeginTypes DEF TypeOK, ReadCopy, ReadWaits
<1>4. CASE WarmNow
  <2>1. NextOf(0) \subseteq Caches
    BY NextTypes
  <2>2. cache' \in {Begun(NextOf(0)), cache} /\ warmer' \subseteq Caches /\ warmIn' \in 0 .. WarmEvery
    BY <1>4, <2>1, ConstantTypes DEF TypeOK, WarmNow
  <2> QED
    BY <1>4, <2>2, BeginTypes DEF TypeOK, WarmNow
<1>5. CASE WarmSitemap
  <2>1. cache' \in {Begun({"sitemap"}), cache} /\ warmIn' \in 0 .. WarmEvery /\ toWarm' \in BOOLEAN
    BY <1>5 DEF TypeOK, WarmSitemap
  <2> QED
    BY <1>5, <2>1, BeginTypes DEF TypeOK, WarmSitemap
<1>6. CASE Tick
  BY <1>6, TickTypes
<1>7. CASE Restart
  BY <1>7, RestartTypes
<1>8. CASE RowStep
  BY <1>8, RowStepChanges, ChangeTypes
<1>9. CASE UNCHANGED vars
  BY <1>9 DEF TypeOK, vars, Caches
<1> QED
  BY <1>1, <1>2, <1>3, <1>4, <1>5, <1>6, <1>7, <1>8, <1>9 DEF Next, RowStep

\* The types of the pages and of what is known of them.
THEOREM SiteTypes == Spec => []TypeOK
<1>1. Init => TypeOK
  <2> SUFFICES ASSUME Init PROVE TypeOK
    OBVIOUS
  <2>1. PICK cs \in Followed : cache = [c \in cs |-> Cold]
    BY DEF Init
  <2>2. Caches = cs /\ \A c \in Caches : cache[c] \in CacheRow(c)
    BY <2>1, ConstantTypes DEF Caches
  <2>3. d \in [Offers -> Row] /\ gone \in [Offers -> 0 .. GoneCap]
    BY SiteAssumption, ConstantTypes DEF Init
  <2> QED
    BY <2>2, <2>3, ConstantTypes DEF TypeOK, Init, CacheRow
<1>2. TypeOK /\ [Next]_vars => TypeOK'
  BY TypesStep
<1> QED
  BY <1>1, <1>2, PTL DEF Spec
-----------------------------------------------------------------------------
(* What a step leaves in a cache.                                          *)

\* The page stays, and the build is the one there was, begins now or is over.
SamePage(x) ==
    /\ cache'[x].page = cache[x].page /\ cache'[x].age = cache[x].age
    /\ cache'[x].build \in {cache[x].build, [seen |-> <<d>>, took |-> 0], NoBuild}

LEMMA BegunSame ==
    ASSUME TypeOK, NEW cs, cache' \in {Begun(cs), cache}
    PROVE  Caches' = Caches /\ \A x \in Caches : SamePage(x)
<1>1. CASE cache' = cache
  BY <1>1 DEF Caches, SamePage
<1>2. CASE cache' = Begun(cs)
  <2>1. Caches' = Caches
    BY <1>2, BegunRows DEF Caches
  <2>2. ASSUME NEW x \in Caches PROVE SamePage(x)
    BY <1>2, BegunFields DEF SamePage, BegunBuild
  <2> QED
    BY <2>1, <2>2
<1> QED
  BY <1>1, <1>2

LEMMA FinishRows ==
    ASSUME TypeOK, NEW c \in Caches, FinishBuild(c)
    PROVE  /\ Caches' = Caches
           /\ \E page \in Made(c) : cache'[c] = [page |-> page, age |-> 0, build |-> NoBuild]
           /\ \A x \in Caches \ {c} : cache'[x] = Begun(Released(c))[x] /\ SamePage(x)
<1>1. PICK page \in Made(c) : cache' = [Begun(Released(c)) EXCEPT ![c] = [page |-> page, age |-> 0, build |-> NoBuild]]
  BY DEF FinishBuild, Ended
<1>2. DOMAIN Begun(Released(c)) = Caches
  BY BegunRows
<1>3. Caches' = Caches /\ cache'[c] = [page |-> page, age |-> 0, build |-> NoBuild]
  BY <1>1, <1>2 DEF Caches
<1>4. ASSUME NEW x \in Caches \ {c} PROVE cache'[x] = Begun(Released(c))[x] /\ SamePage(x)
  <2>1. cache'[x] = Begun(Released(c))[x]
    BY <1>1, <1>2
  <2>2. cache'[x] = [page |-> cache[x].page, age |-> cache[x].age, build |-> BegunBuild(Released(c), x)]
    BY <2>1, BegunRows
  <2> QED
    BY <2>1, <2>2 DEF SamePage, BegunBuild
<1> QED
  BY <1>3, <1>4

LEMMA FailSame ==
    ASSUME TypeOK, NEW c \in Caches, FailBuild(c)
    PROVE  Caches' = Caches /\ \A x \in Caches : SamePage(x)
<1> DEFINE b == Begun(Released(c))
<1>1. cache' = [b EXCEPT ![c].build = NoBuild]
  BY DEF FailBuild, Ended
<1>2. DOMAIN b = Caches
      /\ \A x \in Caches : b[x] = [page |-> cache[x].page, age |-> cache[x].age, build |-> BegunBuild(Released(c), x)]
  BY BegunRows
<1> HIDE DEF b
<1>3. Caches' = Caches
  BY <1>1, <1>2 DEF Caches
<1>4. ASSUME NEW x \in Caches PROVE SamePage(x)
  <2>1. CASE x = c
    <3>1. cache'[x] = [b[x] EXCEPT !.build = NoBuild]
      BY <1>1, <1>2, <2>1
    <3>2. cache'[x] = [page |-> cache[x].page, age |-> cache[x].age, build |-> NoBuild]
      BY <1>2, <3>1
    <3> QED
      BY <3>2 DEF SamePage
  <2>2. CASE x # c
    <3>1. cache'[x] = b[x]
      BY <1>1, <1>2, <2>2
    <3> QED
      BY <1>2, <3>1 DEF SamePage, BegunBuild
  <2> QED
    BY <2>1, <2>2
<1> QED
  BY <1>3, <1>4

LEMMA TickRows ==
    ASSUME TypeOK, Tick
    PROVE  /\ Caches' = Caches
           /\ \A x \in Caches :
                /\ cache'[x].page = cache[x].page
                /\ cache[x].page # None => cache'[x].age = Older(cache[x].age, AgeCap(x))
                /\ Running(x) => cache'[x].build.seen # <<>> /\ cache'[x].build.took = cache[x].build.took + 1
                /\ Running(x) /\ x # "sitemap" => cache'[x].build.seen = cache[x].build.seen
                /\ ~Running(x) => cache'[x].build = NoBuild
<1>1. Caches' = Caches
  BY DEF Tick, Caches
<1> SUFFICES ASSUME NEW x \in Caches
             PROVE  /\ cache'[x].page = cache[x].page
                    /\ cache[x].page # None => cache'[x].age = Older(cache[x].age, AgeCap(x))
                    /\ Running(x) => cache'[x].build.seen # <<>> /\ cache'[x].build.took = cache[x].build.took + 1
                    /\ Running(x) /\ x # "sitemap" => cache'[x].build.seen = cache[x].build.seen
                    /\ ~Running(x) => cache'[x].build = NoBuild
  BY <1>1
<1> DEFINE b == IF x = "sitemap" THEN Sees(cache[x].build, d') ELSE cache[x].build
<1>2. cache'[x] = [page |-> cache[x].page,
                   age |-> IF cache[x].page = None THEN 0 ELSE Older(cache[x].age, AgeCap(x)),
                   build |-> IF ~Running(x) THEN NoBuild ELSE [b EXCEPT !.took = @ + 1]]
  BY DEF Tick
<1>3. cache[x].build \in Builds /\ d \in [Offers -> Row] /\ d' \in [Offers -> Row]
  BY TickTypes DEF TypeOK
<1>4. CASE Running(x)
  <2>1. /\ b \in Builds /\ b.took = cache[x].build.took /\ b.seen # <<>>
        /\ x # "sitemap" => b.seen = cache[x].build.seen
    BY <1>3, <1>4, SeesNew DEF Running
  <2> HIDE DEF b
  <2>2. [b EXCEPT !.took = @ + 1] = [seen |-> b.seen, took |-> b.took + 1]
    BY <2>1 DEF Builds
  <2>3. cache'[x].build = [seen |-> b.seen, took |-> b.took + 1]
    BY <1>2, <1>4, <2>2
  <2> QED
    BY <1>2, <1>4, <2>1, <2>3
<1>5. CASE ~Running(x)
  <2> HIDE DEF b
  <2> QED
    BY <1>2, <1>5
<1> QED
  BY <1>4, <1>5

LEMMA ChangeRows ==
    ASSUME TypeOK, NEW new \in [Offers -> Row], Change(new)
    PROVE  /\ Caches' = Caches
           /\ \A x \in Caches :
                /\ cache'[x].page = cache[x].page /\ cache'[x].age = cache[x].age
                /\ cache'[x].build.took = cache[x].build.took
                /\ Running(x) => cache'[x].build = Sees(cache[x].build, new) /\ cache'[x].build.seen # <<>>
                /\ ~Running(x) => cache'[x].build = cache[x].build
<1>1. Caches' = Caches
  BY DEF Change, Caches
<1>2. ASSUME NEW x \in Caches
      PROVE  /\ cache'[x].page = cache[x].page /\ cache'[x].age = cache[x].age
             /\ cache'[x].build.took = cache[x].build.took
             /\ Running(x) => cache'[x].build = Sees(cache[x].build, new) /\ cache'[x].build.seen # <<>>
             /\ ~Running(x) => cache'[x].build = cache[x].build
  <2>1. cache[x] \in CacheRow(x) /\ cache[x].build \in Builds
    BY DEF TypeOK, CacheRow
  <2>2. CASE Running(x)
    <3>1. cache'[x] = [cache[x] EXCEPT !.build = Sees(@, new)]
      BY <2>2 DEF Change
    <3>2. Sees(cache[x].build, new).seen # <<>> /\ Sees(cache[x].build, new).took = cache[x].build.took
      BY <2>1, <2>2, SeesNew DEF TypeOK, Running
    <3>3. /\ cache'[x].page = cache[x].page /\ cache'[x].age = cache[x].age
          /\ cache'[x].build = Sees(cache[x].build, new)
      BY <2>1, <3>1 DEF CacheRow
    <3> QED
      BY <2>2, <3>2, <3>3
  <2>3. CASE ~Running(x)
    BY <2>3 DEF Change
  <2> QED
    BY <2>2, <2>3
<1> QED
  BY <1>1, <1>2

-----------------------------------------------------------------------------
(* How far behind a page is.  While its build runs, what a catalogue it saw *)
(* lists left the lists no longer ago than the build took; then it ages with *)
(* the copy.                                                               *)

BuildBehind(b) == \A k \in DOMAIN b.seen : \A o \in Offers : Listed(b.seen[k], o) => gone[o] <= b.took
PageBehind(r) ==
    r.page # None /\ r.age < MaxStale => \A o \in r.page.shows : gone[o] <= r.page.took + r.age
Behind ==
    /\ \A o \in Offers : Listed(d, o) => gone[o] = 0
    /\ \A c \in Caches \ {"sitemap"} : BuildBehind(cache[c].build) /\ PageBehind(cache[c])

LEMMA SameBehind ==
    ASSUME TypeOK, Behind, NEW x \in Caches \ {"sitemap"}, SamePage(x), UNCHANGED gone
    PROVE  (BuildBehind(cache[x].build) /\ PageBehind(cache[x]))'
<1>1. BuildBehind(cache[x].build) /\ PageBehind(cache[x])
  BY DEF Behind
<1>2. \A o \in Offers : Listed(d, o) => gone[o] <= 0
  BY DEF Behind
<1>3. BuildBehind(cache[x].build)'
  <2>1. CASE cache'[x].build = cache[x].build
    BY <1>1, <2>1 DEF BuildBehind
  <2>2. CASE cache'[x].build = [seen |-> <<d>>, took |-> 0]
    <3>1. \A k \in DOMAIN <<d>> : <<d>>[k] = d
      OBVIOUS
    <3> QED
      BY <1>2, <2>2, <3>1 DEF BuildBehind
  <2>3. CASE cache'[x].build = NoBuild
    BY <2>3 DEF BuildBehind, NoBuild
  <2> QED
    BY <2>1, <2>2, <2>3 DEF SamePage
<1>4. PageBehind(cache[x])'
  BY <1>1 DEF PageBehind, SamePage
<1> QED
  BY <1>3, <1>4

LEMMA BehindSame ==
    ASSUME TypeOK, Behind, Caches' = Caches, \A x \in Caches : SamePage(x), UNCHANGED <<d, gone>>
    PROVE  Behind'
<1>1. \A c \in Caches' \ {"sitemap"} : (BuildBehind(cache[c].build) /\ PageBehind(cache[c]))'
  BY SameBehind
<1> QED
  BY <1>1 DEF Behind

\* What a page shows when its build ends has gone no longer ago than the build took.
LEMMA MadeBehind ==
    ASSUME TypeOK, NEW c \in Caches \cap {"home", "hot"}, BuildBehind(cache[c].build), NEW page \in Made(c)
    PROVE  /\ page.took \in Nat /\ page.shows \subseteq Offers
           /\ \A o \in page.shows : gone[o] <= page.took /\ gone[o] <= page.took + 0
<1> DEFINE seen == cache[c].build.seen
<1>1. cache[c].build \in Builds
  BY DEF TypeOK
<1>2. page.took = cache[c].build.took /\ page.took \in Nat /\ page.shows \in Contents(c, seen)
  BY <1>1, ConstantTypes DEF Made, Builds
<1>3. seen \in Seq([Offers -> Row])
  BY <1>1 DEF Builds
<1> HIDE DEF seen
<1>4. page.shows \subseteq Offers /\ page.shows \subseteq EverListed(seen)
  BY <1>2, <1>3, ContentShown
<1>5. \A o \in page.shows : \E k \in DOMAIN seen : Listed(seen[k], o)
  BY <1>4 DEF EverListed
<1>6. \A o \in page.shows : gone[o] <= page.took
  BY <1>2, <1>4, <1>5 DEF BuildBehind, seen
<1>7. page.took + 0 = page.took
  BY <1>2
<1> QED
  BY <1>2, <1>4, <1>6, <1>7

LEMMA BehindFinish ==
    ASSUME TypeOK, Behind, NEW c \in Caches, FinishBuild(c)
    PROVE  Behind'
<1>1. UNCHANGED <<d, gone>>
  BY DEF FinishBuild
<1>2. ASSUME NEW x \in Caches \ {"sitemap"} PROVE (BuildBehind(cache[x].build) /\ PageBehind(cache[x]))'
  <2>1. CASE x # c
    BY <1>1, <2>1, FinishRows, SameBehind
  <2>2. CASE x = c
    <3>1. PICK page \in Made(c) : cache'[c] = [page |-> page, age |-> 0, build |-> NoBuild]
      BY FinishRows
    <3>2. c \in {"home", "hot"} /\ BuildBehind(cache[c].build)
      BY <2>2, SiteAssumption DEF TypeOK, Behind
    <3>4. \A o \in page.shows : gone[o] <= page.took + 0
      BY <3>2, MadeBehind
    <3> QED
      BY <1>1, <2>2, <3>1, <3>4 DEF BuildBehind, PageBehind, NoBuild
  <2> QED
    BY <2>1, <2>2
<1>3. Caches' = Caches
  BY FinishRows
<1> QED
  BY <1>1, <1>2, <1>3 DEF Behind

LEMMA BehindTick ==
    ASSUME TypeOK, Behind, Tick
    PROVE  Behind'
<1>1. \A o \in Offers : d'[o].into = d[o].into /\ d'[o].status = d[o].status
  <2> TAKE o \in Offers
  <2>1. d[o] \in Row
    BY DEF TypeOK
  <2>2. d'[o] = [d[o] EXCEPT !.age = Older(@, FreshFor + 1)]
    BY DEF Tick
  <2> QED
    BY <2>1, <2>2 DEF Row
<1>2. \A o \in Offers : Listed(d', o) <=> Listed(d, o)
  BY <1>1 DEF Listed, Canonical
<1>3. \A o \in Offers : gone[o] \in Nat /\ gone'[o] \in Nat /\ gone'[o] <= gone[o] + 1 /\ (Listed(d, o) => gone'[o] = 0)
  BY ConstantTypes DEF TypeOK, Tick, Older
<1>4. Caches' = Caches
  BY TickRows
<1>5. ASSUME NEW x \in Caches \ {"sitemap"} PROVE (BuildBehind(cache[x].build))'
  <2>1. CASE Running(x)
    <3>1. cache'[x].build.seen = cache[x].build.seen /\ cache'[x].build.took = cache[x].build.took + 1
      BY <2>1, TickRows
    <3>2. cache[x].build.took \in Nat /\ BuildBehind(cache[x].build)
      BY ConstantTypes DEF TypeOK, Behind, Builds
    <3> QED
      BY <1>3, <3>1, <3>2 DEF BuildBehind
  <2>2. CASE ~Running(x)
    <3>1. cache'[x].build = NoBuild
      BY <2>2, TickRows
    <3> QED
      BY <3>1 DEF BuildBehind, NoBuild
  <2> QED
    BY <2>1, <2>2
<1>6. ASSUME NEW x \in Caches \ {"sitemap"} PROVE (PageBehind(cache[x]))'
  <2> SUFFICES ASSUME cache'[x].page # None, cache'[x].age < MaxStale, NEW o \in cache'[x].page.shows
               PROVE  gone'[o] <= cache'[x].page.took + cache'[x].age
    BY DEF PageBehind
  <2>1. cache'[x].page = cache[x].page /\ cache'[x].age = Older(cache[x].age, MaxStale)
    BY TickRows DEF AgeCap
  <2>2. cache[x].page \in Pages /\ cache[x].age \in 0 .. MaxStale /\ MaxStale \in Nat
    BY <2>1, SiteAssumption DEF TypeOK, AgeCap
  <2>3. cache[x].age < MaxStale /\ cache'[x].age = cache[x].age + 1
    BY <2>1, <2>2 DEF Older
  <2>4. o \in Offers /\ cache[x].page.took \in Nat
    BY <2>1, <2>2, ConstantTypes DEF Pages
  <2>5. gone[o] <= cache[x].page.took + cache[x].age
    BY <2>1, <2>3 DEF Behind, PageBehind
  <2> QED
    BY <1>3, <2>1, <2>2, <2>3, <2>4, <2>5
<1> QED
  BY <1>2, <1>3, <1>4, <1>5, <1>6 DEF Behind

LEMMA BehindRestart ==
    ASSUME TypeOK, Behind, Restart
    PROVE  Behind'
<1>1. UNCHANGED <<d, gone>> /\ Caches' = Caches /\ \A c \in Caches : cache'[c] = Cold
  BY DEF Restart, Caches
<1> QED
  BY <1>1 DEF Behind, BuildBehind, PageBehind, Cold, NoBuild

LEMMA BehindChange ==
    ASSUME TypeOK, Behind, NEW new \in [Offers -> Row], Change(new)
    PROVE  Behind'
<1>1. /\ \A x \in Offers : gone[x] \in Nat /\ gone'[x] \in Nat /\ gone'[x] <= gone[x]
      /\ \A x \in Offers : Listed(new, x) => gone'[x] = 0
  BY ConstantTypes DEF TypeOK, Change
<1>2. \A x \in Offers : Listed(d', x) => gone'[x] = 0
  BY <1>1 DEF Change
<1>3. Caches' = Caches
  BY ChangeRows
<1>4. ASSUME NEW x \in Caches \ {"sitemap"} PROVE (BuildBehind(cache[x].build) /\ PageBehind(cache[x]))'
  <2>1. BuildBehind(cache[x].build) /\ PageBehind(cache[x])
    BY DEF Behind
  <2>2. /\ cache[x].build \in Builds /\ cache[x].page \in Pages \cup {None} /\ cache[x].age \in Nat
        /\ cache[x].build.took \in Nat
    BY ConstantTypes DEF TypeOK, Builds
  <2>3. BuildBehind(cache[x].build)'
    <3>1. CASE ~Running(x)
      <4>1. cache'[x].build = cache[x].build
        BY <3>1, ChangeRows
      <4> QED
        BY <1>1, <2>1, <2>2, <4>1 DEF BuildBehind
    <3>2. CASE Running(x)
      <4> DEFINE b == cache'[x].build
      <4>1. b = Sees(cache[x].build, new) /\ b.took = cache[x].build.took
        BY <3>2, ChangeRows
      <4>2. \A k \in DOMAIN b.seen :
              \/ k \in DOMAIN cache[x].build.seen /\ b.seen[k] = cache[x].build.seen[k]
              \/ \A o \in Offers : Listed(b.seen[k], o) <=> Listed(new, o)
        BY <2>2, <3>2, <4>1, SeesNew DEF TypeOK, Running
      <4> HIDE DEF b
      <4>3. ASSUME NEW k \in DOMAIN b.seen, NEW o \in Offers, Listed(b.seen[k], o) PROVE gone'[o] <= b.took
        <5>1. CASE k \in DOMAIN cache[x].build.seen /\ b.seen[k] = cache[x].build.seen[k]
          <6>1. gone[o] <= cache[x].build.took
            BY <2>1, <4>3, <5>1 DEF BuildBehind
          <6> QED
            BY <1>1, <2>2, <4>1, <6>1
        <5>2. CASE Listed(new, o)
          BY <1>1, <2>2, <4>1, <5>2
        <5> QED
          BY <4>2, <4>3, <5>1, <5>2
      <4> QED
        BY <4>3 DEF BuildBehind, b
    <3> QED
      BY <3>1, <3>2
  <2>4. PageBehind(cache[x])'
    <3>1. cache'[x].page = cache[x].page /\ cache'[x].age = cache[x].age
      BY ChangeRows
    <3> QED
      BY <1>1, <2>1, <2>2, <3>1, ConstantTypes DEF PageBehind, Pages
  <2> QED
    BY <2>3, <2>4
<1> QED
  BY <1>2, <1>3, <1>4 DEF Behind

LEMMA BehindStep ==
    ASSUME TypeOK, Behind, [Next]_vars
    PROVE  Behind'
<1>1. CASE \E c \in Caches : FinishBuild(c)
  BY <1>1, BehindFinish
<1>2. ASSUME NEW c \in Caches, FailBuild(c) PROVE Behind'
  <2>1. UNCHANGED <<d, gone>>
    BY <1>2 DEF FailBuild
  <2> QED
    BY <1>2, <2>1, FailSame, BehindSame
<1>3. ASSUME NEW c \in Caches, ReadCopy(c) \/ ReadWaits(c) PROVE Behind'
  <2>1. cache' \in {Begun({c}), cache} /\ UNCHANGED <<d, gone>>
    BY <1>3 DEF ReadCopy, ReadWaits
  <2> QED
    BY <2>1, BegunSame, BehindSame
<1>4. CASE WarmNow
  <2>1. cache' \in {Begun(NextOf(0)), cache} /\ UNCHANGED <<d, gone>>
    BY <1>4 DEF WarmNow
  <2> QED
    BY <2>1, BegunSame, BehindSame
<1>5. CASE WarmSitemap
  <2>1. cache' \in {Begun({"sitemap"}), cache} /\ UNCHANGED <<d, gone>>
    BY <1>5 DEF WarmSitemap
  <2> QED
    BY <2>1, BegunSame, BehindSame
<1>6. CASE Tick
  BY <1>6, BehindTick
<1>7. CASE Restart
  BY <1>7, BehindRestart
<1>8. CASE RowStep
  BY <1>8, RowStepChanges, BehindChange
<1>9. CASE UNCHANGED vars
  <2>1. cache' \in {Begun({}), cache} /\ UNCHANGED <<d, gone>>
    BY <1>9 DEF vars
  <2> QED
    BY <2>1, BegunSame, BehindSame
<1> QED
  BY <1>1, <1>2, <1>3, <1>4, <1>5, <1>6, <1>7, <1>8, <1>9 DEF Next, RowStep

\* No answer shows a deal that had left the lists MaxStale before its build
\* began to read, whatever fails, restarts or waits, for any ages and any
\* catalogue.
THEOREM PagesStaySoonBehind == Spec => []RemovedSoonGone
<1>1. Init => Behind
  <2> SUFFICES ASSUME Init PROVE Behind
    OBVIOUS
  <2>1. PICK cs \in Followed : cache = [c \in cs |-> Cold]
    BY DEF Init
  <2>2. \A c \in Caches : cache[c] = Cold
    BY <2>1 DEF Caches
  <2> QED
    BY <2>2 DEF Init, Behind, BuildBehind, PageBehind, Cold, NoBuild
<1>2. TypeOK /\ Behind /\ [Next]_vars => Behind'
  BY BehindStep
<1>3. TypeOK /\ Behind => RemovedSoonGone
  <2> SUFFICES ASSUME TypeOK, Behind, NEW c \in Caches \ {"sitemap"}, NEW page \in Answers(c), NEW o \in page.shows
               PROVE  gone[o] < page.took + MaxStale
    BY DEF RemovedSoonGone
  <2>1. cache[c].page \in Pages \cup {None} /\ cache[c].age \in Nat /\ cache[c].build \in Builds /\ c \in {"home", "hot"}
    BY ConstantTypes, SiteAssumption DEF TypeOK
  <2>2. \A x \in Offers : gone[x] \in Nat
    BY ConstantTypes DEF TypeOK
  <2>3. MaxStale \in Nat \ {0}
    BY SiteAssumption
  <2>4. CASE Kept(c) /\ page = cache[c].page
    <3>1. cache[c].page \in Pages /\ cache[c].age < MaxStale
      BY <2>1, <2>4 DEF Kept
    <3>2. gone[o] <= page.took + cache[c].age
      BY <2>4, <3>1 DEF Behind, PageBehind, Kept
    <3>3. o \in Offers /\ page.took \in Nat
      BY <2>4, <3>1, ConstantTypes DEF Pages
    <3> QED
      BY <2>1, <2>2, <2>3, <3>1, <3>2, <3>3
  <2>5. CASE Running(c) /\ page \in Made(c)
    <3>1. BuildBehind(cache[c].build)
      BY DEF Behind
    <3>2. page.took \in Nat /\ o \in Offers /\ gone[o] <= page.took
      BY <2>1, <2>5, <3>1, MadeBehind
    <3> QED
      BY <2>2, <2>3, <3>2
  <2> QED
    BY <2>4, <2>5 DEF Answers
<1> QED
  BY <1>1, <1>2, <1>3, SiteTypes, PTL DEF Spec
-----------------------------------------------------------------------------
(* Who waits.  A round of the worker reaches the k-th cache within k builds, *)
(* so its copy is made anew before it is older than a period and k builds.  *)

\* The worker is on, and a period and a round of its builds fit in what a copy
\* may age.
WarmsInTime == HomeTtl > 0 /\ WarmEvery + Len(Warmed) * MaxBuild < MaxStale

\* A round in hand is at the j-th cache, and its builds come to the k-th when its
\* copy is no older than age.
Within(age, took, j, k) == age + (MaxBuild - took) + (k - j) * MaxBuild <= WarmEvery + k * MaxBuild
Reaches(j, k) ==
    Warmed[j] \in warmer /\ Within(cache[Warmed[k]].age, cache[Warmed[j]].build.took, j, k)
\* ... or the k-th was made anew in the last round.
InTime(k) ==
    \/ \E j \in 1 .. k : Reaches(j, k)
    \/ cache[Warmed[k]].age + warmIn <= WarmEvery
OnTime(k) ==
    Warmed[k] \in Caches /\ cache[Warmed[k]].page # None => InTime(k) /\ Warmed[k] \notin waiting
Warm ==
    /\ \A c \in warmer : Running(c)
    /\ failed = {} => \A k \in 1 .. Len(Warmed) : OnTime(k)

LEMMA WithinNext ==
    ASSUME NEW age \in Nat, NEW k \in Nat, NEW j \in 1 .. k, NEW i \in j + 1 .. k,
           NEW took \in 0 .. MaxBuild, NEW again \in 0 .. MaxBuild, Within(age, took, j, k)
    PROVE  Within(age, again, i, k)
<1>1. MaxBuild \in Nat /\ WarmEvery \in Nat
  BY ConstantTypes
<1>2. (k - i) * MaxBuild + MaxBuild <= (k - j) * MaxBuild
  BY <1>1
<1>3. (k - i) * MaxBuild \in Nat /\ (k - j) * MaxBuild \in Nat /\ k * MaxBuild \in Nat
  BY <1>1
<1> DEFINE p == (k - i) * MaxBuild
           q == (k - j) * MaxBuild
           r == k * MaxBuild
<1>4. age + (MaxBuild - took) + q <= WarmEvery + r
  BY DEF Within
<1> HIDE DEF p, q, r
<1>5. age + (MaxBuild - again) + p <= WarmEvery + r
  BY <1>1, <1>2, <1>3, <1>4 DEF p, q, r
<1> QED
  BY <1>5 DEF Within, p, r

LEMMA WithinFirst ==
    ASSUME NEW age \in Nat, NEW k \in Nat, NEW j \in 1 .. k, NEW took \in 0 .. MaxBuild, age <= WarmEvery
    PROVE  Within(age, took, j, k)
<1>1. MaxBuild \in Nat /\ WarmEvery \in Nat
  BY ConstantTypes
<1>2. (k - j) * MaxBuild + MaxBuild <= k * MaxBuild /\ (k - j) * MaxBuild \in Nat /\ k * MaxBuild \in Nat
  BY <1>1
<1> DEFINE p == (k - j) * MaxBuild
           r == k * MaxBuild
<1> HIDE DEF p, r
<1>3. age + (MaxBuild - took) + p <= WarmEvery + r
  BY <1>1, <1>2 DEF p, r
<1> QED
  BY <1>3 DEF Within, p, r

LEMMA WithinFresh ==
    ASSUME WarmsInTime, NEW age \in Nat, NEW k \in 1 .. Len(Warmed), NEW j \in 1 .. k,
           NEW took \in 0 .. MaxBuild, Within(age, took, j, k)
    PROVE  age < MaxStale
<1>1. MaxBuild \in Nat /\ WarmEvery \in Nat /\ MaxStale \in Nat /\ Len(Warmed) \in Nat
  BY ConstantTypes, SiteAssumption
<1>2. (k - j) * MaxBuild \in Nat /\ k * MaxBuild \in Nat /\ Len(Warmed) * MaxBuild \in Nat
      /\ k * MaxBuild <= Len(Warmed) * MaxBuild
  BY <1>1
<1> DEFINE p == (k - j) * MaxBuild
           r == k * MaxBuild
           t == Len(Warmed) * MaxBuild
<1>3. age + (MaxBuild - took) + p <= WarmEvery + r /\ WarmEvery + t < MaxStale
  BY DEF Within, WarmsInTime
<1> HIDE DEF p, r, t
<1> QED
  BY <1>1, <1>2, <1>3 DEF p, r, t

LEMMA WarmedTypes ==
    ASSUME TypeOK
    PROVE  /\ Len(Warmed) \in Nat /\ DOMAIN Warmed = 1 .. Len(Warmed)
           /\ \A k \in 1 .. Len(Warmed) : Warmed[k] \in {"home", "hot"}
           /\ \A c \in Caches : /\ cache[c].age \in Nat /\ cache[c].build.took \in 0 .. MaxBuild
                                /\ cache[c].build \in Builds
  BY SiteAssumption, ConstantTypes DEF TypeOK, Builds

\* The worker does go on to the next of its caches.
LEMMA NextThere ==
    ASSUME NEW n \in Nat, NEW k \in n + 1 .. Len(Warmed), Warmed[k] \in Caches
    PROVE  \E j \in n + 1 .. k : Warmed[j] \in NextOf(n)
<1> DEFINE T == {m \in n + 1 .. k : Warmed[m] \in Caches}
<1>0. Len(Warmed) \in Nat
  BY SiteAssumption
<1>1. T \subseteq Nat /\ T # {}
  BY <1>0
<1> HIDE DEF T
<1>2. PICK j \in T : \A i \in T : ~(<<i, j>> \in OpToRel(<, Nat))
  BY <1>1, NatLessThanWellFounded, WFMin, Zenon
<1>3. \A i \in T : ~(i < j)
  BY <1>1, <1>2 DEF OpToRel
<1>4. j \in n + 1 .. k /\ Warmed[j] \in Caches /\ \A i \in n + 1 .. j - 1 : Warmed[i] \notin Caches
  <2>1. j \in n + 1 .. k /\ Warmed[j] \in Caches
    BY <1>2 DEF T
  <2>2. ASSUME NEW i \in n + 1 .. j - 1 PROVE Warmed[i] \notin Caches
    <3>1. i \in n + 1 .. k /\ i < j
      BY <1>0, <2>1
    <3> QED
      BY <1>3, <3>1 DEF T
  <2> QED
    BY <2>1, <2>2
<1> QED
  BY <1>0, <1>4 DEF NextOf

\* A round that is at the j-th cache goes on with the next after it.
LEMMA ReleasedNext ==
    ASSUME NEW j \in 1 .. Len(Warmed), Warmed[j] \in warmer
    PROVE  Released(Warmed[j]) = NextOf(j)
<1>1. DOMAIN Warmed = 1 .. Len(Warmed)
  BY SiteAssumption
<1>2. {k \in DOMAIN Warmed : Warmed[k] = Warmed[j]} = {j}
  BY <1>1, SiteAssumption
<1> QED
  BY <1>2 DEF Released

LEMMA ReleasedOthers ==
    ASSUME TypeOK, NEW c
    PROVE  Released(c) \subseteq Caches \ {c}
<1>1. ASSUME NEW n \in DOMAIN Warmed, Warmed[n] = c PROVE NextOf(n) \subseteq Caches \ {c}
  <2>1. \A k \in n + 1 .. Len(Warmed) : k \in DOMAIN Warmed /\ k # n
    BY SiteAssumption
  <2>2. \A k \in n + 1 .. Len(Warmed) : Warmed[k] # c
    BY <1>1, <2>1, SiteAssumption
  <2> QED
    BY <2>2 DEF NextOf
<1> QED
  BY <1>1 DEF Released

LEMMA BegunRuns ==
    ASSUME TypeOK, NEW cs, NEW x \in Caches
    PROVE  /\ Running(x) => BegunBuild(cs, x) = cache[x].build
           /\ Running(x) \/ x \in cs => BegunBuild(cs, x).seen # <<>>
<1>1. <<d>> # <<>>
  OBVIOUS
<1> QED
  BY <1>1 DEF BegunBuild, Running
\* A step that at most begins builds, and makes no reader of a fresh page wait.
LEMMA WarmBegun ==
    ASSUME TypeOK, Warm, NEW cs, cache' \in {Begun(cs), cache}, UNCHANGED <<warmer, warmIn, failed>>,
           failed = {} => \A k \in 1 .. Len(Warmed) :
               OnTime(k) /\ Warmed[k] \in Caches /\ cache[Warmed[k]].page # None => Warmed[k] \notin waiting'
    PROVE  Warm'
<1>1. Caches' = Caches /\ \A x \in Caches : cache'[x].page = cache[x].page /\ cache'[x].age = cache[x].age
  BY BegunSame DEF SamePage
<1>2. \A x \in Caches : Running(x) => cache'[x].build = cache[x].build
  <2>1. CASE cache' = cache
    BY <2>1
  <2>2. CASE cache' = Begun(cs)
    BY <2>2, BegunFields, BegunRuns
  <2> QED
    BY <2>1, <2>2
<1>3. \A x \in warmer : x \in Caches /\ Running(x) /\ cache'[x].build = cache[x].build
  BY <1>2 DEF Warm, TypeOK
<1>4. (\A c \in warmer : Running(c))'
  BY <1>3 DEF Running
<1>5. ASSUME failed = {}, NEW k \in 1 .. Len(Warmed) PROVE OnTime(k)'
  <2> SUFFICES ASSUME Warmed[k] \in Caches', cache'[Warmed[k]].page # None
               PROVE  InTime(k)' /\ Warmed[k] \notin waiting'
    BY DEF OnTime
  <2>1. OnTime(k) /\ InTime(k)
    BY <1>1, <1>5 DEF Warm, OnTime
  <2>2. ASSUME NEW j \in 1 .. k, Reaches(j, k) PROVE InTime(k)'
    <3>1. Reaches(j, k)'
      BY <1>1, <1>3, <2>2 DEF Reaches, Within
    <3> QED
      BY <3>1 DEF InTime
  <2>3. ASSUME cache[Warmed[k]].age + warmIn <= WarmEvery PROVE InTime(k)'
    BY <1>1, <2>3 DEF InTime
  <2> QED
    BY <1>1, <1>5, <2>1, <2>2, <2>3 DEF InTime
<1> QED
  BY <1>4, <1>5 DEF Warm

LEMMA InTimeFresh ==
    ASSUME TypeOK, WarmsInTime, NEW k \in 1 .. Len(Warmed), Warmed[k] \in Caches, InTime(k)
    PROVE  cache[Warmed[k]].age < MaxStale
<1>1. cache[Warmed[k]].age \in Nat /\ warmIn \in Nat /\ WarmEvery \in Nat /\ Len(Warmed) \in Nat
      /\ MaxStale \in Nat /\ MaxBuild \in Nat
  BY WarmedTypes, ConstantTypes, SiteAssumption DEF TypeOK
<1>2. CASE \E j \in 1 .. k : Reaches(j, k)
  <2>1. PICK j \in 1 .. k : Reaches(j, k)
    BY <1>2
  <2>2. cache[Warmed[j]].build.took \in 0 .. MaxBuild
    BY <2>1, WarmedTypes DEF Reaches, TypeOK
  <2> QED
    BY <1>1, <2>1, <2>2, WithinFresh DEF Reaches
<1>3. CASE cache[Warmed[k]].age + warmIn <= WarmEvery
  <2>1. Len(Warmed) * MaxBuild \in Nat
    BY <1>1
  <2>2. WarmEvery < MaxStale
    BY <1>1, <2>1 DEF WarmsInTime
  <2> QED
    BY <1>1, <1>3, <2>2
<1> QED
  BY <1>2, <1>3 DEF InTime

LEMMA WarmFinish ==
    ASSUME TypeOK, Warm, NEW c \in Caches, FinishBuild(c)
    PROVE  Warm'
<1>1. /\ warmer' = (warmer \ {c}) \cup Released(c) /\ waiting' = waiting \ {c}
      /\ warmIn' = warmIn /\ failed' = failed /\ warmer \subseteq Caches
  BY DEF FinishBuild, TypeOK
<1>2. Caches' = Caches /\ \E page \in Made(c) : cache'[c] = [page |-> page, age |-> 0, build |-> NoBuild]
  BY FinishRows
<1>3. \A x \in Caches \ {c} : /\ cache'[x].page = cache[x].page /\ cache'[x].age = cache[x].age
                              /\ cache'[x].build = BegunBuild(Released(c), x)
                              /\ cache'[x].build.took \in 0 .. MaxBuild
  <2> TAKE x \in Caches \ {c}
  <2>1. cache'[x] = Begun(Released(c))[x]
    BY FinishRows
  <2> QED
    BY <2>1, BegunFields
<1>4. Released(c) \subseteq Caches \ {c}
  BY ReleasedOthers
<1>5. ASSUME NEW x \in warmer' PROVE Running(x)'
  <2>1. x \in Caches \ {c} /\ (Running(x) \/ x \in Released(c))
    BY <1>1, <1>4, <1>5 DEF Warm
  <2>2. BegunBuild(Released(c), x).seen # <<>>
    BY <2>1, BegunRuns
  <2> QED
    BY <1>3, <2>1, <2>2 DEF Running
<1>6. ASSUME failed = {}, NEW k \in 1 .. Len(Warmed) PROVE OnTime(k)'
  <2> SUFFICES ASSUME Warmed[k] \in Caches, cache'[Warmed[k]].page # None
               PROVE  InTime(k)' /\ Warmed[k] \notin waiting'
    BY <1>2 DEF OnTime
  <2>1. CASE Warmed[k] = c
    <3>1. cache'[Warmed[k]].age = 0 /\ warmIn \in 0 .. WarmEvery /\ WarmEvery \in Nat
      BY <1>2, <2>1, ConstantTypes DEF TypeOK
    <3>2. cache'[Warmed[k]].age + warmIn' <= WarmEvery
      BY <1>1, <3>1
    <3> QED
      BY <1>1, <2>1, <3>2 DEF InTime
  <2>2. CASE Warmed[k] # c
    <3>1. /\ cache[Warmed[k]].page # None /\ cache'[Warmed[k]].age = cache[Warmed[k]].age
          /\ cache[Warmed[k]].age \in Nat
      BY <1>3, <2>2, WarmedTypes
    <3>2. InTime(k) /\ Warmed[k] \notin waiting
      BY <1>6, <3>1 DEF Warm, OnTime
    <3>3. ASSUME cache[Warmed[k]].age + warmIn <= WarmEvery PROVE InTime(k)'
      BY <1>1, <3>1, <3>2, <3>3 DEF InTime
    <3>4. ASSUME NEW j \in 1 .. k, Reaches(j, k) PROVE InTime(k)'
      <4>0. Len(Warmed) \in Nat /\ j \in 1 .. Len(Warmed) /\ Warmed[j] \in warmer /\ Warmed[j] \in Caches
        BY <1>1, <3>4, WarmedTypes DEF Reaches
      <4>1. CASE Warmed[j] # c
        <5>1. Running(Warmed[j]) /\ Warmed[j] \in warmer'
          BY <1>1, <4>0, <4>1 DEF Warm
        <5>2. cache'[Warmed[j]].build = cache[Warmed[j]].build
          BY <1>3, <4>0, <4>1, <5>1, BegunRuns
        <5>3. Reaches(j, k)'
          BY <3>1, <3>4, <5>1, <5>2 DEF Reaches, Within
        <5> QED
          BY <5>3 DEF InTime
      <4>2. CASE Warmed[j] = c
        <5>1. j # k /\ k \in j + 1 .. Len(Warmed)
          BY <2>2, <4>0, <4>2
        <5>2. PICK i \in j + 1 .. k : Warmed[i] \in NextOf(j)
          BY <4>0, <5>1, NextThere
        <5>3. Warmed[i] \in Released(c)
          BY <4>0, <4>2, <5>2, ReleasedNext
        <5>4. Warmed[i] \in warmer' /\ Warmed[i] \in Caches \ {c}
          BY <1>1, <1>4, <5>3
        <5>5. cache'[Warmed[i]].build.took \in 0 .. MaxBuild
          BY <1>3, <5>4
        <5>6. cache[Warmed[j]].build.took \in 0 .. MaxBuild
          BY <4>0, WarmedTypes
        <5>7. Within(cache[Warmed[k]].age, cache[Warmed[j]].build.took, j, k)
          BY <3>4 DEF Reaches
        <5>8. Within(cache[Warmed[k]].age, cache'[Warmed[i]].build.took, i, k)
          <6> DEFINE a == cache[Warmed[k]].age
                     t == cache[Warmed[j]].build.took
                     u == cache'[Warmed[i]].build.took
          <6>1. a \in Nat /\ k \in Nat /\ t \in 0 .. MaxBuild /\ u \in 0 .. MaxBuild /\ Within(a, t, j, k)
            BY <3>1, <4>0, <5>5, <5>6, <5>7
          <6> HIDE DEF a, t, u
          <6>2. Within(a, u, i, k)
            BY <5>2, <6>1, WithinNext
          <6> QED
            BY <6>2 DEF a, u
        <5>9. Reaches(i, k)'
          BY <3>1, <5>4, <5>8 DEF Reaches, Within
        <5>10. i \in 1 .. k
          BY <4>0, <5>2
        <5> QED
          BY <5>9, <5>10 DEF InTime
      <4> QED
        BY <4>1, <4>2
    <3>5. InTime(k)'
      BY <3>2, <3>3, <3>4 DEF InTime
    <3> QED
      BY <1>1, <3>2, <3>5
  <2> QED
    BY <2>1, <2>2
<1> QED
  BY <1>1, <1>5, <1>6 DEF Warm

LEMMA WarmFail ==
    ASSUME TypeOK, Warm, NEW c \in Caches, FailBuild(c)
    PROVE  Warm'
<1>1. warmer' = (warmer \ {c}) \cup Released(c) /\ failed' = failed \cup {c} /\ warmer \subseteq Caches
  BY DEF FailBuild, TypeOK
<1> DEFINE b == Begun(Released(c))
<1>2. cache' = [b EXCEPT ![c].build = NoBuild]
  BY DEF FailBuild, Ended
<1>3. DOMAIN b = Caches /\ \A x \in Caches : b[x].build = BegunBuild(Released(c), x)
  BY BegunRows, BegunFields
<1> HIDE DEF b
<1>4. ASSUME NEW x \in warmer' PROVE Running(x)'
  <2>1. x \in Caches \ {c} /\ (Running(x) \/ x \in Released(c))
    BY <1>1, <1>4, ReleasedOthers DEF Warm
  <2>2. cache'[x] = b[x]
    BY <1>2, <1>3, <2>1
  <2>3. BegunBuild(Released(c), x).seen # <<>>
    BY <2>1, BegunRuns
  <2> QED
    BY <1>3, <2>1, <2>2, <2>3 DEF Running
<1> QED
  BY <1>1, <1>4 DEF Warm

LEMMA WarmWarmNow ==
    ASSUME TypeOK, Warm, WarmNow
    PROVE  Warm'
<1>1. /\ warmer' = warmer \cup NextOf(0) /\ warmIn = 0 /\ waiting' = waiting /\ failed' = failed
      /\ cache' = Begun(NextOf(0)) /\ warmer \subseteq Caches
  BY DEF WarmNow, TypeOK
<1>2. NextOf(0) \subseteq Caches
  BY NextTypes
<1>3. Caches' = Caches /\ \A x \in Caches : cache'[x].page = cache[x].page /\ cache'[x].age = cache[x].age
  BY <1>1, BegunSame DEF SamePage
<1>4. \A x \in Caches : cache'[x].build = BegunBuild(NextOf(0), x) /\ BegunBuild(NextOf(0), x).took \in 0 .. MaxBuild
  BY <1>1, BegunFields
<1>5. ASSUME NEW x \in warmer' PROVE Running(x)'
  <2>1. x \in Caches /\ (Running(x) \/ x \in NextOf(0))
    BY <1>1, <1>2, <1>5 DEF Warm
  <2>2. BegunBuild(NextOf(0), x).seen # <<>>
    BY <2>1, BegunRuns
  <2> QED
    BY <1>4, <2>1, <2>2 DEF Running
<1>6. ASSUME failed = {}, NEW k \in 1 .. Len(Warmed) PROVE OnTime(k)'
  <2> SUFFICES ASSUME Warmed[k] \in Caches, cache[Warmed[k]].page # None
               PROVE  InTime(k)' /\ Warmed[k] \notin waiting
    BY <1>1, <1>3 DEF OnTime
  <2>1. InTime(k) /\ Warmed[k] \notin waiting
    BY <1>6 DEF Warm, OnTime
  <2>2. Len(Warmed) \in Nat /\ cache[Warmed[k]].age \in Nat
    BY WarmedTypes
  <2>3. ASSUME NEW j \in 1 .. k, Reaches(j, k) PROVE InTime(k)'
    <3>1. Warmed[j] \in Caches /\ Running(Warmed[j]) /\ Warmed[j] \in warmer'
      BY <1>1, <2>3 DEF Reaches, Warm
    <3>2. cache'[Warmed[j]].build = cache[Warmed[j]].build
      BY <1>4, <3>1, BegunRuns
    <3>3. Reaches(j, k)'
      BY <1>3, <2>3, <3>1, <3>2 DEF Reaches, Within
    <3> QED
      BY <3>3 DEF InTime
  <2>4. ASSUME cache[Warmed[k]].age + warmIn <= WarmEvery PROVE InTime(k)'
    <3>1. cache[Warmed[k]].age <= WarmEvery
      BY <1>1, <2>2, <2>4
    <3>2. PICK j \in 0 + 1 .. k : Warmed[j] \in NextOf(0)
      BY <2>2, NextThere
    <3>3. Warmed[j] \in Caches /\ Warmed[j] \in warmer' /\ j \in 1 .. k
      BY <1>1, <1>2, <3>2
    <3>4. cache'[Warmed[j]].build.took \in 0 .. MaxBuild
      BY <1>4, <3>3
    <3>5. Within(cache[Warmed[k]].age, cache'[Warmed[j]].build.took, j, k)
      BY <2>2, <3>1, <3>3, <3>4, WithinFirst
    <3>6. Reaches(j, k)'
      BY <1>3, <3>3, <3>5 DEF Reaches, Within
    <3> QED
      BY <3>3, <3>6 DEF InTime
  <2> QED
    BY <2>1, <2>3, <2>4 DEF InTime
<1> QED
  BY <1>1, <1>5, <1>6 DEF Warm
LEMMA WarmTick ==
    ASSUME TypeOK, WarmsInTime, Warm, Tick
    PROVE  Warm'
<1>1. /\ warmer' = warmer /\ waiting' = waiting /\ failed' = failed /\ warmer \subseteq Caches
      /\ Caches' = Caches
  BY TickRows DEF Tick, TypeOK
<1>2. \A x \in Caches : /\ cache'[x].page = cache[x].page
                        /\ Running(x) => cache'[x].build.seen # <<>>
                                         /\ cache'[x].build.took = cache[x].build.took + 1
  BY TickRows
<1>3. ASSUME NEW x \in Caches, cache[x].page # None
      PROVE  cache[x].age \in Nat /\ cache'[x].age \in Nat /\ cache'[x].age <= cache[x].age + 1
  BY <1>3, TickRows, WarmedTypes DEF Older
<1>4. ASSUME NEW x \in warmer' PROVE Running(x)'
  BY <1>1, <1>2, <1>4 DEF Warm, Running
<1>5. ASSUME failed = {}, NEW k \in 1 .. Len(Warmed) PROVE OnTime(k)'
  <2> SUFFICES ASSUME Warmed[k] \in Caches, cache[Warmed[k]].page # None
               PROVE  InTime(k)' /\ Warmed[k] \notin waiting
    BY <1>1, <1>2 DEF OnTime
  <2>1. InTime(k) /\ Warmed[k] \notin waiting
    BY <1>5 DEF Warm, OnTime
  <2>2. Len(Warmed) \in Nat /\ MaxBuild \in Nat /\ WarmEvery \in Nat
    BY WarmedTypes, ConstantTypes
  <2>3. ASSUME NEW j \in 1 .. k, Reaches(j, k) PROVE InTime(k)'
    <3>1. Warmed[j] \in Caches /\ Running(Warmed[j])
      BY <1>1, <2>3 DEF Reaches, Warm
    <3>2. cache[Warmed[j]].build.took \in Nat /\ cache'[Warmed[j]].build.took = cache[Warmed[j]].build.took + 1
      BY <1>2, <3>1, WarmedTypes
    <3>3. Within(cache[Warmed[k]].age, cache[Warmed[j]].build.took, j, k)
      BY <2>3 DEF Reaches
    <3> DEFINE a == cache[Warmed[k]].age
               b == cache'[Warmed[k]].age
               t == cache[Warmed[j]].build.took
               u == cache'[Warmed[j]].build.took
               p == (k - j) * MaxBuild
               r == k * MaxBuild
    <3>4. p \in Int /\ r \in Int
      BY <2>2
    <3>5. a \in Nat /\ b \in Nat /\ b <= a + 1 /\ t \in Nat /\ u = t + 1 /\ a + (MaxBuild - t) + p <= WarmEvery + r
      BY <1>3, <3>2, <3>3 DEF Within
    <3> HIDE DEF a, b, t, u, p, r
    <3>6. b + (MaxBuild - u) + p <= WarmEvery + r
      BY <2>2, <3>4, <3>5
    <3>7. Reaches(j, k)'
      BY <1>1, <2>3, <3>6 DEF Reaches, Within, b, u, p, r
    <3> QED
      BY <3>7 DEF InTime
  <2>4. ASSUME cache[Warmed[k]].age + warmIn <= WarmEvery PROVE InTime(k)'
    <3>1. Warming
      <4>1. PICK j \in 0 + 1 .. k : Warmed[j] \in NextOf(0)
        BY <2>2, NextThere
      <4> QED
        BY <4>1 DEF Warming, WarmsInTime
    <3>2. warmIn \in Nat /\ warmIn > 0 /\ warmIn' = warmIn - 1
      BY <3>1, ConstantTypes DEF Tick, TypeOK
    <3>3. cache'[Warmed[k]].age + warmIn' <= WarmEvery
      BY <1>3, <2>2, <2>4, <3>2, SMTT(30)
    <3> QED
      BY <3>3 DEF InTime
  <2> QED
    BY <2>1, <2>3, <2>4 DEF InTime
<1> QED
  BY <1>1, <1>4, <1>5 DEF Warm

\* What a build has seen says nothing of who waits for it.
LEMMA WarmChange ==
    ASSUME TypeOK, Warm, NEW new \in [Offers -> Row], Change(new)
    PROVE  Warm'
<1>1. /\ warmer' = warmer /\ waiting' = waiting /\ failed' = failed /\ warmIn' = warmIn
      /\ warmer \subseteq Caches /\ Caches' = Caches
  BY ChangeRows DEF Change, TypeOK
<1>2. \A x \in Caches : /\ cache'[x].page = cache[x].page /\ cache'[x].age = cache[x].age
                        /\ cache'[x].build.took = cache[x].build.took
                        /\ Running(x) => cache'[x].build.seen # <<>>
  BY ChangeRows
<1>3. (\A c \in warmer : Running(c))'
  BY <1>1, <1>2 DEF Warm, Running
<1>4. ASSUME failed = {}, NEW k \in 1 .. Len(Warmed) PROVE OnTime(k)'
  <2> SUFFICES ASSUME Warmed[k] \in Caches, cache[Warmed[k]].page # None
               PROVE  InTime(k)' /\ Warmed[k] \notin waiting
    BY <1>1, <1>2 DEF OnTime
  <2>1. InTime(k) /\ Warmed[k] \notin waiting
    BY <1>4 DEF Warm, OnTime
  <2>2. ASSUME NEW j \in 1 .. k, Reaches(j, k) PROVE InTime(k)'
    <3>1. Reaches(j, k)'
      BY <1>1, <1>2, <2>2 DEF Reaches, Within
    <3> QED
      BY <3>1 DEF InTime
  <2>3. ASSUME cache[Warmed[k]].age + warmIn <= WarmEvery PROVE InTime(k)'
    BY <1>1, <1>2, <2>3 DEF InTime
  <2> QED
    BY <2>1, <2>2, <2>3 DEF InTime
<1> QED
  BY <1>1, <1>3, <1>4 DEF Warm

LEMMA WarmStep ==
    ASSUME TypeOK, WarmsInTime, Warm, [Next]_vars
    PROVE  Warm'
<1>1. CASE \E c \in Caches : FinishBuild(c)
  BY <1>1, WarmFinish
<1>2. CASE \E c \in Caches : FailBuild(c)
  BY <1>2, WarmFail
<1>3. ASSUME NEW c \in Caches, ReadCopy(c) PROVE Warm'
  <2>1. cache' \in {Begun({c}), cache} /\ UNCHANGED <<waiting, warmer, warmIn, failed>>
    BY <1>3 DEF ReadCopy
  <2> QED
    BY <2>1, WarmBegun DEF OnTime
<1>4. ASSUME NEW c \in Caches, ReadWaits(c) PROVE Warm'
  <2>1. /\ cache' \in {Begun({c}), cache} /\ UNCHANGED <<warmer, warmIn, failed>>
        /\ waiting' = waiting \cup {c} /\ ~Kept(c)
    BY <1>4 DEF ReadWaits
  <2>2. ASSUME NEW k \in 1 .. Len(Warmed), OnTime(k), Warmed[k] \in Caches, cache[Warmed[k]].page # None
        PROVE  Warmed[k] \notin waiting'
    <3>1. InTime(k) /\ Warmed[k] \notin waiting
      BY <2>2 DEF OnTime
    <3>2. cache[Warmed[k]].age < MaxStale
      BY <2>2, <3>1, InTimeFresh
    <3>3. Warmed[k] # "sitemap"
      BY WarmedTypes
    <3>4. Kept(Warmed[k])
      BY <2>2, <3>2, <3>3 DEF Kept, TtlOf, WarmsInTime
    <3> QED
      BY <2>1, <3>1, <3>4
  <2> QED
    BY <2>1, <2>2, WarmBegun
<1>5. CASE WarmNow
  BY <1>5, WarmWarmNow
<1>6. CASE WarmSitemap
  <2>1. cache' \in {Begun({"sitemap"}), cache} /\ UNCHANGED <<waiting, warmer, warmIn, failed>>
    BY <1>6 DEF WarmSitemap
  <2> QED
    BY <2>1, WarmBegun DEF OnTime
<1>7. CASE Tick
  BY <1>7, WarmTick
<1>8. CASE Restart
  <2>1. warmer' = {} /\ Caches' = Caches /\ \A c \in Caches : cache'[c] = Cold
    BY <1>8 DEF Restart, Caches
  <2> QED
    BY <2>1 DEF Warm, OnTime, Cold
<1>9. CASE RowStep
  BY <1>9, RowStepChanges, WarmChange
<1>10. CASE UNCHANGED vars
  <2>1. cache' \in {Begun({}), cache} /\ UNCHANGED <<waiting, warmer, warmIn, failed>>
    BY <1>10 DEF vars
  <2> QED
    BY <2>1, WarmBegun DEF OnTime
<1> QED
  BY <1>1, <1>2, <1>3, <1>4, <1>5, <1>6, <1>7, <1>8, <1>9, <1>10 DEF Next, RowStep

\* With the worker on and a round of its builds short enough for the ages a copy
\* may reach, no reader waits for a page that was there since the start and no
\* build of which has failed, for any number of caches, ages and readers.
THEOREM OnlyTheFirstPays ==
    ASSUME WarmsInTime
    PROVE  Spec => []NobodyPaysTwice
<1>1. Init => Warm
  <2> SUFFICES ASSUME Init PROVE Warm
    OBVIOUS
  <2>1. PICK cs \in Followed : cache = [c \in cs |-> Cold]
    BY DEF Init
  <2>2. \A c \in Caches : cache[c] = Cold
    BY <2>1 DEF Caches
  <2> QED
    BY <2>2 DEF Init, Warm, OnTime, Cold
<1>2. TypeOK /\ Warm /\ [Next]_vars => Warm'
  BY WarmStep
<1>3. TypeOK /\ Warm => NobodyPaysTwice
  <2> SUFFICES ASSUME TypeOK, Warm, failed = {}, NEW c \in Range(Warmed) \cap Caches, cache[c].page # None
               PROVE  c \notin waiting
    BY DEF NobodyPaysTwice
  <2>1. PICK k \in 1 .. Len(Warmed) : Warmed[k] = c
    BY WarmedTypes DEF Range
  <2> QED
    BY <2>1 DEF Warm, OnTime
<1> QED
  BY <1>1, <1>2, <1>3, SiteTypes, PTL DEF Spec
-----------------------------------------------------------------------------
(* The latest observation and the price comparison.                        *)

\* A finite set with a strict order has a first.
LEMMA HasFirst ==
    ASSUME NEW S, NEW R, IsFiniteSet(S), Strict(R, S), S # {}
    PROVE  \E x \in S : \A y \in S \ {x} : <<x, y>> \in R
<1> DEFINE s == ByPlace(S, Places(R, S))
<1>1. Lists(s, S) /\ InOrder(s, R)
  BY SortedLists
<1> HIDE DEF s
<1>2. Len(s) \in Nat /\ DOMAIN s = 1 .. Len(s) /\ \A y \in S : \E n \in 1 .. Len(s) : s[n] = y
  BY <1>1 DEF Lists, Once, Range
<1>3. Len(s) >= 1
  BY <1>2
<1>4. s[1] \in S
  BY <1>1, <1>2, <1>3 DEF Lists, Range
<1>5. ASSUME NEW y \in S \ {s[1]} PROVE <<s[1], y>> \in R
  <2>1. PICK n \in 1 .. Len(s) : s[n] = y
    BY <1>2
  <2>2. n # 1 /\ 1 < n
    BY <1>5, <2>1
  <2> QED
    BY <1>1, <1>3, <2>1, <2>2 DEF InOrder
<1> QED
  BY <1>4, <1>5

Newer(d0, x, y) == d0[x].age < d0[y].age \/ (d0[x].age = d0[y].age /\ Later(x, y))
Observed(d0, r) == {o \in Group(Into(d0), r) : d0[o].seen /\ d0[o].live}

LEMMA LatestIsNewest ==
    ASSUME NEW d0 \in [Offers -> Row], NEW r
    PROVE  \/ Latest(d0, r) = NoObs
           \/ /\ Latest(d0, r).of \in Offers
              /\ Latest(d0, r).age \in Nat
<1> DEFINE S == Observed(d0, r)
           R == {p \in S \X S : Newer(d0, p[1], p[2])}
           first(x) == \A y \in S \ {x} : Newer(d0, x, y)
<1>1. S \subseteq Offers
  BY DEF Observed, Group, Into
<1>2. CASE S = {}
  BY <1>2 DEF Latest, Observed
<1>3. CASE S # {}
  <2>1. \A o \in S : d0[o].age \in Nat
    BY <1>1, CatalogueAssumption DEF Row
  <2>2. Strict(R, S)
    <3> HIDE DEF S
    <3> QED
      BY <1>1, <2>1, SeqBreaks, LaterStrict DEF Strict, Newer, Later
  <2>3. \E x \in S : first(x)
    <3>1. IsFiniteSet(S)
      BY <1>1, OffersFinite
    <3>2. \A x, y \in S : <<x, y>> \in R => Newer(d0, x, y)
      OBVIOUS
    <3> HIDE DEF S, R
    <3>3. \E x \in S : \A y \in S \ {x} : <<x, y>> \in R
      BY <1>3, <2>2, <3>1, HasFirst
    <3> QED
      BY <3>2, <3>3
  <2> DEFINE o == CHOOSE x \in S : first(x)
  <2>4. o \in S
    <3> HIDE DEF S, first
    <3> QED
      BY <2>3
  <2>5. Latest(d0, r) = [of |-> o, age |-> d0[o].age]
    BY <1>3, Zenon DEF Latest, Observed, Newer
  <2> HIDE DEF S, o
  <2> QED
    BY <1>1, <2>1, <2>4, <2>5
<1> QED
  BY <1>2, <1>3

LEMMA LatestTypes ==
    ASSUME NEW d0 \in [Offers -> Row], NEW r
    PROVE  LET l == Latest(d0, r)
           IN  /\ l.age \in Nat /\ (IsFresh(l) => l.of \in Offers) /\ (l.of # None => l.of \in Offers)
               /\ IsFresh(l) \in BOOLEAN
               /\ PriceOf(l) \in Nat /\ CurOf(l) \in Nat
<1> DEFINE l == Latest(d0, r)
<1>1. l.age \in Nat /\ (l.of = None \/ l.of \in Offers)
  <2>1. NoObs.of = None /\ NoObs.age \in Nat
    BY CatalogueAssumption DEF NoObs
  <2> QED
    BY <2>1, LatestIsNewest
<1> HIDE DEF l
<1>2. PriceOf(l) \in Nat /\ CurOf(l) \in Nat
  BY <1>1, CatalogueAssumption DEF PriceOf, CurOf, NoPrice, NoCurrency
<1> QED
  BY <1>1, <1>2 DEF IsFresh, l

ViewRow == [at : Offers, rank : 1 .. 4, cur : Nat, price : Nat]

LEMMA ViewTypes ==
    ASSUME NEW d0 \in [Offers -> Row], NEW o \in Offers
    PROVE  /\ View(d0[o], o, Latest(d0, o)) \in ViewRow
           /\ View(d0[o], o, Latest(d0, o)).at = o
           /\ View(d0[o], o, Latest(d0, o)).rank = 1 <=>
                /\ d0[o].status = "active" /\ IsFresh(Latest(d0, o))
                /\ PriceOf(Latest(d0, o)) # NoPrice /\ CurOf(Latest(d0, o)) # NoCurrency
           /\ View(d0[o], o, Latest(d0, o)).rank < 3 <=> d0[o].status = "active" /\ IsFresh(Latest(d0, o))
<1> DEFINE l == Latest(d0, o)
           k == Rank(d0[o], l)
<1>1. PriceOf(l) \in Nat /\ CurOf(l) \in Nat
  BY LatestTypes
<1> HIDE DEF l
<1>2. /\ k \in 1 .. 4
      /\ k = 1 <=> d0[o].status = "active" /\ IsFresh(l) /\ PriceOf(l) # NoPrice /\ CurOf(l) # NoCurrency
      /\ k < 3 <=> d0[o].status = "active" /\ IsFresh(l)
  <2>1. CASE d0[o].status # "active"
    BY <2>1 DEF Rank
  <2>2. CASE d0[o].status = "active" /\ ~IsFresh(l)
    BY <2>2 DEF Rank
  <2>3. CASE d0[o].status = "active" /\ IsFresh(l)
    BY <2>3 DEF Rank
  <2> QED
    BY <2>1, <2>2, <2>3
<1> DEFINE v == View(d0[o], o, l)
<1>3. v = [at |-> o, rank |-> k, cur |-> CurOf(l), price |-> PriceOf(l)]
  BY DEF View
<1> HIDE DEF k, v
<1>4. v \in ViewRow /\ v.at = o /\ v.rank = k
  BY <1>1, <1>2, <1>3 DEF ViewRow
<1> QED
  BY <1>2, <1>4 DEF l, v

BeforeIn(tie, S) == {p \in S \X S : Before(tie, p[1], p[2])}

LEMMA BeforeStrict ==
    ASSUME NEW S, S \subseteq ViewRow, \A v, w \in S : v.at = w.at => v = w, NEW tie \in Ties
    PROVE  Strict(BeforeIn(tie, S), S)
<1>1. \A v \in S : v.rank \in Int /\ v.cur \in Int /\ v.price \in Int /\ v.at \in Offers
  BY DEF ViewRow
<1>2. \A v, w \in S : v = w \/ LaterBy(tie, v.at, w.at) \/ LaterBy(tie, w.at, v.at)
  BY <1>1, TiesBreak, LaterStrict
<1>3. \A v \in S : ~Before(tie, v, v)
  BY <1>1, TiesBreak, LaterStrict DEF Before, Cheaper
<1>4. \A v, w \in S : v = w \/ Before(tie, v, w) \/ Before(tie, w, v)
  BY <1>1, <1>2 DEF Before, Cheaper
<1>5. ASSUME NEW u \in S, NEW v \in S, NEW w \in S, Before(tie, u, v), Before(tie, v, w) PROVE Before(tie, u, w)
  <2>1. LaterBy(tie, u.at, v.at) /\ LaterBy(tie, v.at, w.at) => LaterBy(tie, u.at, w.at)
    BY <1>1, TiesBreak, LaterStrict
  <2> QED
    BY <1>1, <1>5, <2>1 DEF Before, Cheaper
<1> QED
  BY <1>3, <1>4, <1>5 DEF Strict, BeforeIn

\* The comparison of a product lists its offers' views, each once and in order.
LEMMA ComparisonLists ==
    ASSUME NEW d0 \in [Offers -> Row], NEW p, NEW tie \in Ties
    PROVE  LET V == {View(d0[o], o, Latest(d0, o)) : o \in Compared(d0, p)}
               s == ProductPage(d0, p, tie).offers
           IN  Lists(s, V) /\ InOrder(s, BeforeIn(tie, V))
<1> DEFINE V == {View(d0[o], o, Latest(d0, o)) : o \in Compared(d0, p)}
           s == ProductPage(d0, p, tie).offers
<1>1. Compared(d0, p) \subseteq Offers
  BY DEF Compared
<1>2. V \subseteq ViewRow /\ \A v, w \in V : v.at = w.at => v = w
  BY <1>1, ViewTypes
<1>3. IsFiniteSet(V)
  <2> DEFINE C == Compared(d0, p)
             f == [o \in C |-> View(d0[o], o, Latest(d0, o))]
  <2>1. IsFiniteSet(C)
    BY <1>1, OffersFinite
  <2>2. f \in Surjection(C, V)
    BY DEF Surjection
  <2> HIDE DEF f, C, V
  <2> QED
    BY <2>1, <2>2, FS_Surjection
<1>4. s = ByPlace(V, {<<x, Cardinality({y \in V : Before(tie, y, x)}) + 1>> : x \in V})
  BY Zenon DEF ProductPage, Sorted
<1> HIDE DEF V, s
<1>5. \A x \in V : {y \in V : Before(tie, y, x)} = Ahead(BeforeIn(tie, V), V, x)
  BY DEF Ahead, BeforeIn
<1>6. s = ByPlace(V, Places(BeforeIn(tie, V), V))
  BY <1>4, <1>5 DEF Places
<1>7. Strict(BeforeIn(tie, V), V)
  BY <1>2, BeforeStrict
<1>8. Lists(s, V) /\ InOrder(s, BeforeIn(tie, V))
  BY <1>3, <1>6, <1>7, SortedLists
<1> QED
  BY <1>8 DEF V, s

\* For any catalogue, prices and ages: nothing stands before a price that holds
\* now but a price that holds now, no dearer in the same currency.
THEOREM ComparisonsHoldNow == Spec => []OldPricesLast
<1>1. TypeOK => OldPricesLast
  <2> SUFFICES ASSUME TypeOK, NEW p \in Products(d), NEW tie \in Ties PROVE
        LET s == ProductPage(d, p, tie).offers
            holds(v) == d[v.at].status = "active" /\ IsFresh(Latest(d, v.at))
                        /\ v.price # NoPrice /\ v.cur # NoCurrency
        IN  \A i, j \in DOMAIN s : i < j /\ holds(s[j]) =>
                holds(s[i]) /\ (s[i].cur = s[j].cur => s[i].price <= s[j].price)
    BY DEF OldPricesLast
  <2> DEFINE V == {View(d[o], o, Latest(d, o)) : o \in Compared(d, p)}
             s == ProductPage(d, p, tie).offers
             holds(v) == d[v.at].status = "active" /\ IsFresh(Latest(d, v.at))
                         /\ v.price # NoPrice /\ v.cur # NoCurrency
  <2>1. d \in [Offers -> Row]
    BY DEF TypeOK
  <2>2. Lists(s, V) /\ InOrder(s, BeforeIn(tie, V))
    BY <2>1, ComparisonLists
  <2>3. \A v \in V : v \in ViewRow /\ (holds(v) <=> v.rank = 1)
    <3> SUFFICES ASSUME NEW o \in Compared(d, p)
                 PROVE  LET v == View(d[o], o, Latest(d, o)) IN v \in ViewRow /\ (holds(v) <=> v.rank = 1)
      OBVIOUS
    <3> DEFINE v == View(d[o], o, Latest(d, o))
    <3>1. o \in Offers
      BY DEF Compared
    <3>2. v.price = PriceOf(Latest(d, o)) /\ v.cur = CurOf(Latest(d, o))
      BY DEF View
    <3> HIDE DEF v
    <3>3. v \in ViewRow /\ v.at = o
          /\ (v.rank = 1 <=> d[o].status = "active" /\ IsFresh(Latest(d, o))
                             /\ PriceOf(Latest(d, o)) # NoPrice /\ CurOf(Latest(d, o)) # NoCurrency)
      BY <2>1, <3>1, ViewTypes DEF v
    <3> QED
      BY <3>2, <3>3 DEF v
  <2> HIDE DEF V, s, holds
  <2>4. ASSUME NEW i \in DOMAIN s, NEW j \in DOMAIN s, i < j, holds(s[j])
        PROVE  holds(s[i]) /\ (s[i].cur = s[j].cur => s[i].price <= s[j].price)
    <3>1. s[i] \in V /\ s[j] \in V /\ i \in 1 .. Len(s) /\ j \in 1 .. Len(s)
      BY <2>2 DEF Lists, Once, Range
    <3>2. Before(tie, s[i], s[j])
      BY <2>2, <2>4, <3>1 DEF InOrder, BeforeIn
    <3>3. s[i] \in ViewRow /\ s[j] \in ViewRow /\ s[j].rank = 1
      BY <2>3, <2>4, <3>1
    <3>4. s[i].rank \in 1 .. 4 /\ s[i].cur \in Nat /\ s[j].cur \in Nat /\ s[i].price \in Nat /\ s[j].price \in Nat
      BY <3>3 DEF ViewRow
    <3>5. s[i].rank = 1 /\ (s[i].cur = s[j].cur => s[i].price <= s[j].price)
      BY <3>2, <3>3, <3>4 DEF Before, Cheaper
    <3> QED
      BY <2>3, <3>1, <3>5
  <2> QED
    BY <2>4 DEF s, holds
<1> QED
  BY <1>1, SiteTypes, PTL
-----------------------------------------------------------------------------
(* Lists over pages.                                                       *)

LEMMA OnceCounts ==
    ASSUME NEW s, NEW S, Once(s, S)
    PROVE  Len(s) = Cardinality(Range(s))
<1>1. Len(s) \in Nat /\ DOMAIN s = 1 .. Len(s) /\ s \in Seq(S)
  BY DEF Once
<1> DEFINE R == Range(s)
<1>2. \A n \in 1 .. Len(s) : s[n] \in R
  BY <1>1 DEF Range
<1>3. s \in [1 .. Len(s) -> R]
  BY <1>1, <1>2
<1>4. \A x \in R : \E n \in 1 .. Len(s) : s[n] = x
  BY <1>1 DEF Range
<1> HIDE DEF R
<1>5. s \in Surjection(1 .. Len(s), R)
  BY <1>3, <1>4 DEF Surjection
<1>6. s \in Injection(1 .. Len(s), R)
  BY <1>1, <1>3 DEF Injection, IsInjective, Once
<1>7. ExistsBijection(1 .. Len(s), R)
  BY <1>5, <1>6 DEF ExistsBijection, Bijection
<1>8. Cardinality(R) = Len(s)
  BY <1>1, <1>7, FS_CountingElements
<1> QED
  BY <1>8 DEF R

\* Where the p-th page of a list of len ends.
PageEnd(p, size, len) == IF p * size < len THEN p * size ELSE len

LEMMA SectionOfList ==
    ASSUME NEW s, NEW S, s \in Seq(S), NEW from \in Nat, NEW to \in Nat, from <= to, to <= Len(s)
    PROVE  /\ DOMAIN SubSeq(s, from + 1, to) = 1 .. (to - from)
           /\ \A i \in 1 .. (to - from) : SubSeq(s, from + 1, to)[i] = s[from + i]
<1>1. Len(s) \in Nat
  OBVIOUS
<1>2. from + 1 \in Nat /\ to - from \in Nat
  OBVIOUS
<1>3. DOMAIN SubSeq(s, from + 1, to) = 1 .. (to - from)
  BY <1>1, <1>2
<1>4. ASSUME NEW i \in 1 .. (to - from) PROVE SubSeq(s, from + 1, to)[i] = s[from + i]
  <2>1. i \in 1 .. to + 1 - (from + 1) /\ (from + 1) + i - 1 = from + i
    OBVIOUS
  <2> QED
    BY <1>1, <1>2, <2>1
<1> QED
  BY <1>3, <1>4

LEMMA Division ==
    ASSUME NEW n \in Nat \ {0}, NEW size \in Nat \ {0}
    PROVE  \E q \in Nat, r \in 1 .. size : (n - 1) \div size = q /\ n = q * size + r
<1>1. n - 1 \in Nat
  OBVIOUS
<1>2. /\ n - 1 = size * ((n - 1) \div size) + ((n - 1) % size)
      /\ (n - 1) % size \in 0 .. size - 1 /\ (n - 1) \div size \in Nat
  BY <1>1
<1> DEFINE q == (n - 1) \div size
           r == (n - 1) % size
<1> HIDE DEF q, r
<1>3. q \in Nat /\ r \in 0 .. size - 1 /\ n - 1 = size * q + r
  BY <1>2 DEF q, r
<1>4. r + 1 \in 1 .. size /\ n = q * size + (r + 1)
  BY <1>3
<1> QED
  BY <1>3, <1>4 DEF q

LEMMA PageEnds ==
    ASSUME NEW p \in Nat \ {0}, NEW size \in Nat \ {0}, NEW len \in Nat, (p - 1) * size <= len
    PROVE  LET from == (p - 1) * size
               to == PageEnd(p, size, len)
           IN  from \in Nat /\ to \in Nat /\ p * size = from + size /\ from <= to /\ to <= len /\ to <= from + size
<1> DEFINE from == (p - 1) * size
           to == PageEnd(p, size, len)
<1>1. from \in Nat /\ p * size = from + size
  OBVIOUS
<1>2. from <= len
  OBVIOUS
<1> HIDE DEF from
<1>3. to \in Nat /\ from <= to /\ to <= len /\ to <= from + size
  BY <1>1, <1>2 DEF PageEnd
<1> QED
  BY <1>1, <1>3 DEF from

\* A list cut at every size is spread over its pages.
CutAt(s, pages, size) ==
    /\ 1 \in DOMAIN pages
    /\ \A p \in DOMAIN pages :
         /\ p \in Nat \ {0} /\ (p - 1) * size <= Len(s)
         /\ pages[p] = SubSeq(s, (p - 1) * size + 1, PageEnd(p, size, Len(s)))
    /\ \A n \in 1 .. Len(s) : ((n - 1) \div size) + 1 \in DOMAIN pages

LEMMA CutPage ==
    ASSUME NEW s, NEW S, s \in Seq(S), NEW size \in Nat \ {0}, NEW pages, CutAt(s, pages, size),
           NEW p \in DOMAIN pages
    PROVE  \E from \in Nat, to \in Nat :
             /\ p \in Nat \ {0} /\ from = (p - 1) * size /\ to = PageEnd(p, size, Len(s)) /\ p * size = from + size
             /\ from <= to /\ to <= Len(s) /\ to <= from + size
             /\ DOMAIN pages[p] = 1 .. (to - from) /\ \A i \in 1 .. (to - from) : pages[p][i] = s[from + i]
<1> DEFINE from == (p - 1) * size
           to == PageEnd(p, size, Len(s))
<1>0. Len(s) \in Nat
  OBVIOUS
<1>1. p \in Nat \ {0} /\ from <= Len(s) /\ pages[p] = SubSeq(s, from + 1, to)
  BY DEF CutAt
<1>2. from \in Nat /\ to \in Nat /\ p * size = from + size /\ from <= to /\ to <= Len(s) /\ to <= from + size
  BY <1>0, <1>1, PageEnds
<1> HIDE DEF from, to
<1>3. DOMAIN pages[p] = 1 .. (to - from) /\ \A i \in 1 .. (to - from) : pages[p][i] = s[from + i]
  BY <1>1, <1>2, SectionOfList
<1> QED
  BY <1>1, <1>2, <1>3 DEF from, to

LEMMA CutSpread ==
    ASSUME NEW s, NEW S, s \in Seq(S), NEW size \in Nat \ {0}, NEW pages, CutAt(s, pages, size)
    PROVE  Spread(s, pages, size)
<1>0. Len(s) \in Nat /\ DOMAIN s = 1 .. Len(s)
  OBVIOUS
<1>1. 1 \in DOMAIN pages
  BY DEF CutAt
<1>2. ASSUME NEW n \in 1 .. Len(s)
      PROVE  \E p \in DOMAIN pages, i \in 1 .. size : n = (p - 1) * size + i /\ i \in DOMAIN pages[p]
  <2>1. PICK q \in Nat, r \in 1 .. size : (n - 1) \div size = q /\ n = q * size + r
    BY <1>0, Division
  <2> DEFINE p == q + 1
  <2>2. p \in DOMAIN pages
    BY <2>1 DEF CutAt
  <2> HIDE DEF p
  <2>3. PICK from \in Nat, to \in Nat :
          /\ p \in Nat \ {0} /\ from = (p - 1) * size /\ to = PageEnd(p, size, Len(s)) /\ p * size = from + size
          /\ from <= to /\ to <= Len(s) /\ to <= from + size
          /\ DOMAIN pages[p] = 1 .. (to - from) /\ \A i \in 1 .. (to - from) : pages[p][i] = s[from + i]
    BY <2>2, CutPage
  <2>4. (p - 1) * size = q * size
    BY DEF p
  <2>5. n = from + r
    BY <2>1, <2>3, <2>4
  <2>6. r <= to - from
    BY <1>0, <2>3, <2>5 DEF PageEnd
  <2>7. r \in DOMAIN pages[p]
    BY <2>3, <2>6
  <2> QED
    BY <2>2, <2>3, <2>5, <2>7
<1>3. ASSUME NEW p \in DOMAIN pages, NEW i \in DOMAIN pages[p]
      PROVE  LET n == (p - 1) * size + i IN i \in 1 .. size /\ n \in DOMAIN s /\ pages[p][i] = s[n]
  <2>1. PICK from \in Nat, to \in Nat :
          /\ p \in Nat \ {0} /\ from = (p - 1) * size /\ to = PageEnd(p, size, Len(s)) /\ p * size = from + size
          /\ from <= to /\ to <= Len(s) /\ to <= from + size
          /\ DOMAIN pages[p] = 1 .. (to - from) /\ \A j \in 1 .. (to - from) : pages[p][j] = s[from + j]
    BY CutPage
  <2>2. i \in 1 .. (to - from)
    BY <2>1
  <2>3. from <= to /\ to <= Len(s) /\ to <= from + size
    BY <2>1
  <2>4. i \in 1 .. size /\ from + i \in 1 .. Len(s)
    BY ONLY <1>0, <2>2, <2>3, from \in Nat, to \in Nat, size \in Nat
  <2> QED
    BY <1>0, <2>1, <2>2, <2>4
<1> QED
  BY <1>1, <1>2, <1>3 DEF Spread
LEMMA ListSeq ==
    ASSUME NEW s, NEW S, S \subseteq Offers, Lists(s, S)
    PROVE  s \in Seq(Offers) /\ (s # <<>> <=> S # {})
<1>1. s \in Seq(S) /\ Len(s) \in Nat /\ DOMAIN s = 1 .. Len(s) /\ Range(s) = S
  BY DEF Lists, Once
<1>2. s # <<>> => 1 \in DOMAIN s
  BY <1>1
<1>3. s = <<>> => DOMAIN s = {}
  OBVIOUS
<1> QED
  BY <1>1, <1>2, <1>3 DEF Range

\* What each list is a list of.
Members(d0, path) ==
    CASE path[1] = "/hot"    -> Actives(d0)
      [] path[1] = "/new"    -> Actives(d0)
      [] path[1] = "/ending" -> {o \in Actives(d0) : Facts[o].ends # Never}
      [] path[1] = "/picks"  -> {o \in Actives(d0) : d0[o].pick}
      [] path[1] = "/c"      -> {o \in Actives(d0) : Facts[o].category = path[2]}
      [] path[1] = "/at"     -> {o \in Offers : Listed(d0, o) /\ Facts[o].seller = path[2]}
      [] path[1] = "/s"      -> {o \in Offers : Listed(d0, o) /\ Facts[o].store = path[2]}
      [] path[1] = "/search" -> {o \in Offers : IF path[2] = "expired too" THEN Listed(d0, o) ELSE Active(d0, o)}
ListNames == {"/hot", "/new", "/ending", "/picks", "/c", "/at", "/s", "/search"}

\* The order of each, where a query of it orders what ties by tie.
PathOrder(d0, path, tie) ==
    LET S == Members(d0, path)
    IN  CASE path[1] = "/hot"                     -> HotIn(d0, S)
          [] path[1] = "/ending"                  -> EndsIn(S)
          [] path[1] \in {"/new", "/picks", "/c"} -> LaterIn(BySeq, S)
          [] path[1] \in {"/at", "/s"}            -> ActiveIn(d0, tie, S)
          [] path[1] = "/search"                  -> LaterIn(tie, S)

LEMMA ListOfSorted ==
    ASSUME NEW d0 \in [Offers -> Row], NEW path, path[1] \in ListNames, NEW tie \in Ties
    PROVE  /\ SortedIn(ListOf(d0, path, tie), Members(d0, path), PathOrder(d0, path, tie))
           /\ Members(d0, path) \subseteq Offers
<1>0. Actives(d0) \subseteq Offers
  BY DEF Actives
<1> DEFINE byHot(S) == ByPlace(S, {<<x, Cardinality({y \in S : HotThenNewest(d0, y, x)}) + 1>> : x \in S})
           byActive(S) == ByPlace(S, {<<x, Cardinality({y \in S : ActiveThenNewest(d0, tie, y, x)}) + 1>> : x \in S})
           byTime(S) == ByPlace(S, {<<x, Cardinality({y \in S : LaterBy(tie, y, x)}) + 1>> : x \in S})
           M == Members(d0, path)
<1>1. CASE path[1] = "/hot"
  <2>1. M = Actives(d0) /\ PathOrder(d0, path, tie) = HotIn(d0, M)
    BY <1>1 DEF Members, PathOrder
  <2>2. ListOf(d0, path, tie) = byHot(Actives(d0))
    BY <1>1, Zenon DEF ListOf, Hot, Sorted
  <2>3. SortedIn(byHot(Actives(d0)), Actives(d0), HotIn(d0, Actives(d0)))
    BY <1>0, HotSorted
  <2> HIDE DEF byHot, M
  <2> QED
    BY <1>0, <2>1, <2>2, <2>3 DEF M
<1>2. CASE path[1] \in {"/new", "/picks", "/c"}
  <2>1. M \subseteq Offers /\ PathOrder(d0, path, tie) = LaterIn(BySeq, M)
    BY <1>0, <1>2 DEF Members, PathOrder
  <2>2. ListOf(d0, path, tie) = Newest(M)
    BY <1>2 DEF ListOf, Members, New, Picks, OfCategory
  <2> HIDE DEF M
  <2> QED
    BY <2>1, <2>2, NewestSorted DEF M
<1>3. CASE path[1] = "/ending"
  <2> DEFINE S == {o \in Actives(d0) : Facts[o].ends # Never}
  <2>1. M = S /\ PathOrder(d0, path, tie) = EndsIn(M) /\ ListOf(d0, path, tie) = Ending(d0)
    BY <1>3 DEF Members, PathOrder, ListOf
  <2>2. SortedIn(Ending(d0), S, EndsIn(S)) /\ S \subseteq Offers
    BY EndingSorted
  <2> HIDE DEF S, M
  <2> QED
    BY <2>1, <2>2 DEF M
<1>4. CASE path[1] \in {"/at", "/s"}
  <2>1. M \subseteq Offers /\ PathOrder(d0, path, tie) = ActiveIn(d0, tie, M)
    BY <1>4 DEF Members, PathOrder
  <2>2. ListOf(d0, path, tie) = byActive(M)
    <3>1. CASE path[1] = "/at"
      <4>1. M = {o \in Offers : Listed(d0, o) /\ Facts[o].seller = path[2]} /\ ListOf(d0, path, tie) = OfSeller(d0, path[2], tie)
        BY <3>1 DEF Members, ListOf
      <4> HIDE DEF M
      <4> QED
        BY <4>1, Zenon DEF OfSeller, Sorted
    <3>2. CASE path[1] = "/s"
      <4>1. M = {o \in Offers : Listed(d0, o) /\ Facts[o].store = path[2]} /\ ListOf(d0, path, tie) = OfStore(d0, path[2], tie)
        BY <3>2 DEF Members, ListOf
      <4> HIDE DEF M
      <4> QED
        BY <4>1, Zenon DEF OfStore, Sorted
    <3> QED
      BY <1>4, <3>1, <3>2
  <2> HIDE DEF M
  <2>3. SortedIn(byActive(M), M, ActiveIn(d0, tie, M))
    BY <2>1, TiesBreak, ActiveSorted
  <2> HIDE DEF byActive
  <2> QED
    BY <2>1, <2>2, <2>3 DEF M
<1>5. CASE path[1] = "/search"
  <2> DEFINE also == path[2] = "expired too"
             S == {o \in Offers : IF also THEN Listed(d0, o) ELSE Active(d0, o)}
  <2>1. M = S /\ S \subseteq Offers /\ PathOrder(d0, path, tie) = LaterIn(tie, M)
    BY <1>5 DEF Members, PathOrder
  <2>2. ListOf(d0, path, tie) = Found(d0, also, tie)
    BY <1>5 DEF ListOf
  <2>3. Found(d0, also, tie) = byTime(S)
    BY Zenon DEF Found, Sorted
  <2> HIDE DEF S, M
  <2>4. SortedIn(byTime(S), S, LaterIn(tie, S))
    BY <2>1, TiesBreak, LaterSorted
  <2> HIDE DEF byTime
  <2> QED
    BY <2>1, <2>2, <2>3, <2>4 DEF M
<1> QED
  BY <1>1, <1>2, <1>3, <1>4, <1>5 DEF ListNames

LEMMA ListOfLists ==
    ASSUME NEW d0 \in [Offers -> Row], NEW path, path[1] \in ListNames, NEW tie \in Ties
    PROVE  Lists(ListOf(d0, path, tie), Members(d0, path)) /\ Members(d0, path) \subseteq Offers
<1> DEFINE l == ListOf(d0, path, tie)
           M == Members(d0, path)
           R == PathOrder(d0, path, tie)
<1>1. SortedIn(l, M, R) /\ M \subseteq Offers
  BY ListOfSorted
<1> HIDE DEF l, M, R
<1>2. Lists(l, M)
  BY <1>1, InLists
<1> QED
  BY <1>1, <1>2 DEF l, M

\* A deal that ties with none has one place, however the others are ordered.
LEMMA PlacesAgree ==
    ASSUME NEW d0 \in [Offers -> Row], NEW path, path[1] \in ListNames, NEW tie \in Ties, NEW other \in Ties,
           NEW o \in Members(d0, path), \A x \in Members(d0, path) : ~Tied(d0, path, o, x)
    PROVE  PlaceIn(PathOrder(d0, path, tie), Members(d0, path))[o]
           = PlaceIn(PathOrder(d0, path, other), Members(d0, path))[o]
<1> DEFINE M == Members(d0, path)
           R == PathOrder(d0, path, tie)
           Q == PathOrder(d0, path, other)
<1>1. Strict(R, M) /\ Strict(Q, M) /\ M \subseteq Offers
  BY ListOfSorted DEF SortedIn
<1>2. ASSUME NEW y \in M PROVE <<y, o>> \in R <=> <<y, o>> \in Q
  <2>1. CASE y = o
    BY <1>1, <2>1 DEF Strict
  <2>2. CASE y # o /\ path[1] \in {"/hot", "/ending", "/new", "/picks", "/c"}
    BY <2>2 DEF PathOrder
  <2>3. CASE y # o /\ path[1] \in {"/at", "/s"}
    <3>1. R = ActiveIn(d0, tie, M) /\ Q = ActiveIn(d0, other, M)
      BY <2>3 DEF PathOrder
    <3>2. Facts[o].born # Facts[y].born \/ (d0[o].status = "active") # (d0[y].status = "active")
      BY <2>3 DEF Tied
    <3> HIDE DEF R, Q, M
    <3>3. ActiveThenNewest(d0, tie, y, o) <=> ActiveThenNewest(d0, other, y, o)
      BY <3>2 DEF ActiveThenNewest, LaterBy
    <3> QED
      BY <3>1, <3>3 DEF ActiveIn, M
  <2>4. CASE y # o /\ path[1] = "/search"
    <3>1. R = LaterIn(tie, M) /\ Q = LaterIn(other, M)
      BY <2>4 DEF PathOrder
    <3>2. Facts[o].born # Facts[y].born
      BY <2>4 DEF Tied
    <3> HIDE DEF R, Q, M
    <3>3. LaterBy(tie, y, o) <=> LaterBy(other, y, o)
      BY <3>2 DEF LaterBy
    <3> QED
      BY <3>1, <3>3 DEF LaterIn, M
  <2> QED
    BY <2>1, <2>2, <2>3, <2>4 DEF ListNames
<1> HIDE DEF R, Q, M
<1>3. Ahead(R, M, o) = Ahead(Q, M, o)
  BY <1>2 DEF Ahead
<1>4. PlaceIn(R, M)[o] = PlaceIn(Q, M)[o]
  BY <1>3 DEF PlaceIn, M
<1> QED
  BY <1>4 DEF R, Q, M

LEMMA PathNames ==
    ASSUME NEW d0, NEW path \in ListPaths(d0)
    PROVE  /\ path[1] \in ListNames /\ path = <<path[1], path[2]>>
           /\ path[1] \in {"/hot", "/new", "/ending", "/picks"} => path[2] = ""
           /\ path[1] = "/c" => path[2] \in Categories(d0)
           /\ path[1] = "/at" => path[2] \in Sellers(d0)
           /\ path[1] = "/s" => path[2] \in {Facts[o].store : o \in Offers}
<1> DEFINE Named(q) ==
             /\ q[1] \in ListNames /\ q = <<q[1], q[2]>>
             /\ q[1] \in {"/hot", "/new", "/ending", "/picks"} => q[2] = ""
             /\ q[1] = "/c" => q[2] \in Categories(d0)
             /\ q[1] = "/at" => q[2] \in Sellers(d0)
             /\ q[1] = "/s" => q[2] \in {Facts[o].store : o \in Offers}
<1>1. ASSUME NEW p \in {"/hot", "/new", "/ending", "/picks"}
      PROVE  Named(<<p, "">>)
  <2> DEFINE q == <<p, "">>
  <2>1. q[1] = p /\ q[2] = "" /\ q = <<q[1], q[2]>>
    OBVIOUS
  <2> HIDE DEF q
  <2>2. Named(q)
    BY <1>1, <2>1 DEF ListNames
  <2> QED
    BY <2>2 DEF q
<1>2. ASSUME NEW c \in Categories(d0) PROVE Named(<<"/c", c>>)
  <2> DEFINE q == <<"/c", c>>
  <2>1. q[1] = "/c" /\ q[2] = c /\ q = <<q[1], q[2]>>
    OBVIOUS
  <2> HIDE DEF q
  <2>2. Named(q)
    BY <1>2, <2>1 DEF ListNames
  <2> QED
    BY <2>2 DEF q
<1>3. ASSUME NEW c \in Sellers(d0) PROVE Named(<<"/at", c>>)
  <2> DEFINE q == <<"/at", c>>
  <2>1. q[1] = "/at" /\ q[2] = c /\ q = <<q[1], q[2]>>
    OBVIOUS
  <2> HIDE DEF q
  <2>2. Named(q)
    BY <1>3, <2>1 DEF ListNames
  <2> QED
    BY <2>2 DEF q
<1>4. ASSUME NEW o \in Offers PROVE Named(<<"/s", Facts[o].store>>)
  <2> DEFINE q == <<"/s", Facts[o].store>>
  <2>1. q[1] = "/s" /\ q[2] = Facts[o].store /\ q = <<q[1], q[2]>>
    OBVIOUS
  <2> HIDE DEF q
  <2>2. Named(q)
    BY <1>4, <2>1 DEF ListNames
  <2> QED
    BY <2>2 DEF q
<1>5. ASSUME NEW a PROVE Named(<<"/search", a>>)
  <2> DEFINE q == <<"/search", a>>
  <2>1. q[1] = "/search" /\ q[2] = a /\ q = <<q[1], q[2]>>
    OBVIOUS
  <2> HIDE DEF q
  <2>2. Named(q)
    BY <2>1 DEF ListNames
  <2> QED
    BY <2>2 DEF q
<1>6. \/ \E p \in {"/hot", "/new", "/ending", "/picks"} : path = <<p, "">>
      \/ \E c \in Categories(d0) : path = <<"/c", c>>
      \/ \E c \in Sellers(d0) : path = <<"/at", c>>
      \/ \E o \in Offers : path = <<"/s", Facts[o].store>>
      \/ \E a : path = <<"/search", a>>
  BY Zenon DEF ListPaths
<1> HIDE DEF Named
<1>7. Named(path)
  BY <1>1, <1>2, <1>3, <1>4, <1>5, <1>6, Zenon
<1> QED
  BY <1>7 DEF Named


\* The page at a path is a page of its list; past its end it is none, but of a
\* search an empty one.
LEMMA PageAtPage ==
    ASSUME NEW d0, NEW path \in ListPaths(d0), NEW n, NEW tie
    PROVE  PageAt(d0, path, n, tie) = IF path[1] = "/search" THEN Window(ListOf(d0, path, tie), n)
                                      ELSE PageOf(ListOf(d0, path, tie), n)
<1>1. path[1] \in ListNames /\ path = <<path[1], path[2]>>
  BY PathNames
<1>2. CASE path[1] = "/s"
  <2>1. path[2] \in {Facts[o].store : o \in Offers}
    BY <1>2, PathNames
  <2> QED
    BY <1>2, <2>1 DEF PageAt, StorePage, ListOf
<1>3. CASE path[1] = "/at"
  <2>1. path[2] \in Sellers(d0)
    BY <1>3, PathNames
  <2> QED
    BY <1>3, <2>1 DEF PageAt, SellerPage, ListOf
<1>4. CASE path[1] = "/c"
  <2>1. path[2] \in Categories(d0)
    BY <1>4, PathNames
  <2> QED
    BY <1>4, <2>1 DEF PageAt, CategoryPage, ListOf
<1>5. CASE path[1] = "/search"
  <2>1. PageAt(d0, path, n, tie) = SearchPage(d0, path[2], n, tie)
    BY <1>5 DEF PageAt
  <2> QED
    BY <1>1, <1>5, <2>1 DEF SearchPage
<1>6. CASE path[1] \in {"/hot", "/new", "/ending", "/picks"}
  <2>1. path[2] = ""
    BY <1>6, PathNames
  <2>2. PageAt(d0, path, n, tie) = ListPage(d0, path[1], n)
    BY <1>6 DEF PageAt
  <2>3. ListOf(d0, path, BySeq) = ListOf(d0, path, tie)
    BY <1>6 DEF ListOf
  <2> QED
    BY <1>1, <1>6, <2>1, <2>2, <2>3 DEF ListPage
<1> QED
  BY <1>1, <1>2, <1>3, <1>4, <1>5, <1>6 DEF ListNames

\* One page has the k-th entry, the one its number says.
LEMMA PageNumber ==
    ASSUME NEW q \in Nat, NEW r \in 1 .. PerPage, NEW m \in Nat \ {0}
    PROVE  (m - 1) * PerPage < q * PerPage + r /\ q * PerPage + r <= m * PerPage <=> m = q + 1
<1>1. PerPage \in Nat \ {0}
  BY CatalogueAssumption
<1>2. m * PerPage = (m - 1) * PerPage + PerPage /\ (m - 1) * PerPage \in Nat /\ q * PerPage \in Nat
  BY <1>1
<1>3. m - 1 < q => (m - 1) * PerPage + PerPage <= q * PerPage
  BY <1>1
<1>4. m - 1 > q => q * PerPage + PerPage <= (m - 1) * PerPage
  BY <1>1
<1>5. m - 1 = q => (m - 1) * PerPage = q * PerPage
  OBVIOUS
<1> DEFINE a == (m - 1) * PerPage
           b == q * PerPage
           c == m * PerPage
<1>6. a \in Nat /\ b \in Nat /\ c = a + PerPage
  BY <1>2
<1>7. /\ m - 1 < q => a + PerPage <= b
      /\ m - 1 > q => b + PerPage <= a
      /\ m - 1 = q => a = b
  BY <1>3, <1>4, <1>5
<1> HIDE DEF a, b, c
<1>8. a < b + r /\ b + r <= c <=> m = q + 1
  BY <1>1, <1>6, <1>7
<1> QED
  BY <1>8 DEF a, b, c

\* The rows of a page are the entries its number says.
LEMMA OnWindow ==
    ASSUME NEW s \in Seq(Offers), Once(s, Offers), NEW k \in 1 .. Len(s), NEW m \in Nat \ {0}
    PROVE  /\ Window(s, m) \in Seq(Offers)
           /\ s[k] \in Range(Window(s, m)) <=> (m - 1) * PerPage < k /\ k <= m * PerPage
<1> DEFINE from == (m - 1) * PerPage
           to == PageEnd(m, PerPage, Len(s))
           w == Window(s, m)
<1>1. PerPage \in Nat \ {0} /\ Len(s) \in Nat /\ DOMAIN s = 1 .. Len(s)
  BY CatalogueAssumption
<1>2. w = SubSeq(s, from + 1, to)
  BY Zenon DEF Window, PageEnd
<1>3. from \in Nat /\ m * PerPage = from + PerPage
  BY <1>1
<1>4. CASE from <= Len(s)
  <2>1. to \in Nat /\ from <= to /\ to <= Len(s) /\ to <= from + PerPage
    BY <1>1, <1>4, PageEnds
  <2>2. k <= to <=> k <= m * PerPage
    BY <1>1, <1>3, <2>1 DEF PageEnd
  <2> HIDE DEF from, to, w
  <2>3. /\ DOMAIN w = 1 .. (to - from) /\ \A i \in 1 .. (to - from) : w[i] = s[from + i]
    BY <1>2, <1>3, <2>1, SectionOfList
  <2>4. w \in Seq(Offers)
    BY <1>2, <1>3, <2>1
  <2>5. ASSUME s[k] \in Range(w) PROVE from < k /\ k <= to
    <3>1. PICK i \in 1 .. (to - from) : s[from + i] = s[k]
      BY <2>3, <2>5 DEF Range
    <3>2. from + i \in 1 .. Len(s) /\ from + i <= to /\ from < from + i
      BY <1>1, <1>3, <2>1
    <3>3. from + i = k
      BY <3>1, <3>2 DEF Once
    <3> QED
      BY <3>2, <3>3
  <2>6. ASSUME from < k, k <= to PROVE s[k] \in Range(w)
    <3>1. k - from \in 1 .. (to - from) /\ from + (k - from) = k
      BY <1>1, <1>3, <2>1, <2>6
    <3>2. w[k - from] = s[k]
      BY <2>3, <3>1
    <3> QED
      BY <2>3, <3>1, <3>2 DEF Range
  <2>7. s[k] \in Range(w) <=> from < k /\ k <= to
    BY <2>5, <2>6
  <2> QED
    BY <2>2, <2>4, <2>7 DEF from, w
<1>5. CASE from > Len(s)
  <2>1. to = Len(s)
    <3>1. from + PerPage > Len(s)
      <4> HIDE DEF from
      <4> QED
        BY <1>1, <1>3, <1>5
    <3>2. ~(m * PerPage < Len(s))
      <4> HIDE DEF from
      <4> QED
        BY <1>1, <1>3, <3>1
    <3> QED
      BY <3>2, Zenon DEF PageEnd
  <2> HIDE DEF from, to, w
  <2>2. w = <<>>
    BY <1>1, <1>2, <1>3, <1>5, <2>1
  <2>3. DOMAIN w = {} /\ w \in Seq(Offers)
    BY <2>2
  <2>4. ~(from < k)
    BY <1>1, <1>3, <1>5
  <2> QED
    BY <2>3, <2>4 DEF from, w, Range
<1> QED
  BY <1>1, <1>3, <1>4, <1>5

\* ... and there is a page for every entry.
LEMMA OnPageOf ==
    ASSUME NEW s \in Seq(Offers), Once(s, Offers), NEW k \in 1 .. Len(s), NEW m \in Nat \ {0}
    PROVE  /\ OnPage(s[k], Window(s, m)) <=> (m - 1) * PerPage < k /\ k <= m * PerPage
           /\ OnPage(s[k], PageOf(s, m)) <=> (m - 1) * PerPage < k /\ k <= m * PerPage
<1> DEFINE last == (Len(s) + PerPage - 1) \div PerPage
           w == Window(s, m)
           here == (m - 1) * PerPage < k /\ k <= m * PerPage
<1>1. PerPage \in Nat \ {0} /\ Len(s) \in Nat /\ s # <<>>
  BY CatalogueAssumption
<1>2. w \in Seq(Offers) /\ (s[k] \in Range(w) <=> here)
  BY OnWindow
<1>3. w # None
  BY <1>2, CatalogueAssumption
<1>4. PageOf(s, m) = IF m > last THEN None ELSE w
  BY <1>1, Zenon DEF PageOf
<1>5. m > last => ~here
  <2> SUFFICES ASSUME m > last PROVE k <= (m - 1) * PerPage
    BY <1>1
  <2>1. last \in Nat /\ Len(s) <= last * PerPage
    BY <1>1
  <2> HIDE DEF last
  <2>2. last <= m - 1
    BY <2>1
  <2>3. last * PerPage <= (m - 1) * PerPage
    BY <1>1, <2>1, <2>2
  <2>4. k <= Len(s) /\ last * PerPage \in Nat /\ (m - 1) * PerPage \in Nat
    BY <1>1, <2>1
  <2> DEFINE a == last * PerPage
             b == (m - 1) * PerPage
  <2>5. a \in Nat /\ b \in Nat /\ a <= b /\ Len(s) <= a
    BY <2>1, <2>3, <2>4
  <2> HIDE DEF a, b
  <2>6. k <= b
    BY <1>1, <2>4, <2>5
  <2> QED
    BY <2>6 DEF b
<1> HIDE DEF last, w, here
<1>6. (OnPage(s[k], w) <=> here) /\ (OnPage(s[k], PageOf(s, m)) <=> here)
  BY <1>2, <1>3, <1>4, <1>5 DEF OnPage
<1> QED
  BY <1>6 DEF w, here

\* For any catalogue and page size: whoever turns the pages of a list while
\* nothing changes meets each deal on one page, in whatever order each page's
\* query puts the deals posted together, but for those that tie with another.
THEOREM EachOnOnePage == Spec => []OnOnePage
<1>1. TypeOK => OnOnePage
  <2> SUFFICES ASSUME TypeOK, NEW path \in ListPaths(d), NEW first \in Ties,
                      NEW o \in Range(ListOf(d, path, first)),
                      \A x \in Range(ListOf(d, path, first)) : ~Tied(d, path, o, x)
               PROVE  \E n \in 1 .. Cardinality(Offers) + 1 :
                        \A m \in 1 .. Cardinality(Offers) + 1 : \A tie \in Ties :
                            OnPage(o, PageAt(d, path, m, tie)) <=> m = n
    BY DEF OnOnePage
  <2> DEFINE M == Members(d, path)
             N == Cardinality(M)
             l(tie) == ListOf(d, path, tie)
             R(tie) == PathOrder(d, path, tie)
             k == PlaceIn(R(first), M)[o]
  <2>1. d \in [Offers -> Row] /\ path[1] \in ListNames
    BY PathNames DEF TypeOK
  <2>2. M \subseteq Offers /\ IsFiniteSet(M) /\ \A tie \in Ties : SortedIn(l(tie), M, R(tie))
    BY <2>1, ListOfSorted, OffersFinite
  <2>3. N \in Nat /\ Cardinality(Offers) \in Nat /\ N <= Cardinality(Offers)
    BY <2>2, CatalogueAssumption, FS_Subset, FS_CardinalityType
  <2>4. ASSUME NEW tie \in Ties
        PROVE  /\ Lists(l(tie), M) /\ Len(l(tie)) = N
               /\ \A n \in 1 .. N : PlaceIn(R(tie), M)[l(tie)[n]] = n
    <3> HIDE DEF l, R, M
    <3> QED
      BY <2>2, SortedLists DEF SortedIn
  <2>5. o \in M
    BY <2>4 DEF Lists
  <2>6. \A tie \in Ties : PlaceIn(R(tie), M)[o] = k
    <3>1. \A x \in M : ~Tied(d, path, o, x)
      BY <2>4 DEF Lists
    <3> QED
      BY <2>1, <2>5, <3>1, PlacesAgree
  <2> HIDE DEF l, R, M, k
  <2>7. \A tie \in Ties : Once(l(tie), Offers) /\ l(tie) \in Seq(Offers) /\ Range(l(tie)) = M /\ DOMAIN l(tie) = 1 .. N
    BY <2>2, <2>4 DEF Lists, Once
  <2>8. ASSUME NEW tie \in Ties PROVE k \in 1 .. N /\ l(tie)[k] = o
    <3>1. PICK n \in 1 .. N : l(tie)[n] = o
      <4>1. Range(l(tie)) = M /\ DOMAIN l(tie) = 1 .. N
        BY <2>7
      <4> QED
        BY <2>5, <4>1, Zenon DEF Range
    <3>2. n = k
      BY <2>4, <2>6, <3>1
    <3> QED
      BY <3>1, <3>2
  <2>9. k \in 1 .. N
    BY <2>8
  <2>10. PICK q \in Nat, r \in 1 .. PerPage : (k - 1) \div PerPage = q /\ k = q * PerPage + r
    <3>1. k \in Nat \ {0} /\ PerPage \in Nat \ {0}
      BY <2>3, <2>9, CatalogueAssumption
    <3> QED
      BY <3>1, Division
  <2>11. q + 1 \in 1 .. Cardinality(Offers) + 1
    <3>1. q <= q * PerPage
      BY CatalogueAssumption
    <3> DEFINE p == q * PerPage
    <3>2. p \in Int /\ q <= p /\ k = p + r
      BY <2>10, <3>1, CatalogueAssumption
    <3> HIDE DEF p
    <3>3. q <= Cardinality(Offers)
      BY <2>3, <2>9, <3>2, CatalogueAssumption
    <3> QED
      BY <2>3, <3>3
  <2>12. ASSUME NEW m \in 1 .. Cardinality(Offers) + 1, NEW tie \in Ties
         PROVE  OnPage(o, PageAt(d, path, m, tie)) <=> m = q + 1
    <3>0. m \in Nat \ {0}
      BY <2>3
    <3>1. (m - 1) * PerPage < k /\ k <= m * PerPage <=> m = q + 1
      BY <2>10, <3>0, PageNumber
    <3> DEFINE s == l(tie)
    <3>2. Once(s, Offers) /\ s \in Seq(Offers) /\ k \in 1 .. Len(s) /\ s[k] = o
      BY <2>4, <2>7, <2>8, <2>9
    <3>3. PageAt(d, path, m, tie) = IF path[1] = "/search" THEN Window(s, m) ELSE PageOf(s, m)
      BY PageAtPage DEF l
    <3> HIDE DEF s
    <3>4. /\ OnPage(s[k], Window(s, m)) <=> m = q + 1
          /\ OnPage(s[k], PageOf(s, m)) <=> m = q + 1
      BY <3>0, <3>1, <3>2, OnPageOf
    <3> QED
      BY <3>2, <3>3, <3>4
  <2> QED
    BY <2>11, <2>12
<1> QED
  BY <1>1, SiteTypes, PTL

\* For any catalogues and any changes of them while the front page is built: a
\* page made of what its five queries and its cards may have read shows a deal
\* once but for the soon ending, in no list twice, in none more than there is
\* room for.
THEOREM NothingShownTwice == Spec => []EachDealOnce
<1>1. TypeOK => EachDealOnce
  <2> SUFFICES ASSUME TypeOK, "home" \in Caches, NEW h \in HomePages(cache["home"].build.seen)
               PROVE  /\ \A s, t \in DOMAIN h : s # t /\ {s, t} # {"latest", "ending"} => Disjoint(h, s, t)
                      /\ \A s \in DOMAIN h : Len(h[s]) <= HomeCards /\ Len(h[s]) = Cardinality(Range(h[s]))
    BY DEF EachDealOnce
  <2> DEFINE seen == cache["home"].build.seen
             A == EverActive(seen)
  <2>1. seen \in Seq([Offers -> Row])
    BY DEF TypeOK, Builds
  <2>2. PICK m \in DOMAIN seen : \E rows \in HomeRows(seen, m) : \E cheap : h = Home(rows, cheap)
    <3> DEFINE J(m) == Judged(Offers, {{o \in Offers : Cheap(seen[j], o)} : j \in m .. Len(seen)})
    <3>1. HomePages(seen) = UNION {{Home(rows, cheap) : rows \in HomeRows(seen, m), cheap \in J(m)} : m \in DOMAIN seen}
      BY DEF HomePages
    <3> HIDE DEF J
    <3> QED
      BY <3>1
  <2>3. PICK rows \in HomeRows(seen, m) : \E cheap : h = Home(rows, cheap)
    BY <2>2
  <2>7. PICK cheap : h = Home(rows, cheap)
    BY <2>3
  <2> HIDE DEF seen
  <2>4. \A s \in HomeLists : RowsOf(rows[s], A)
    BY <2>1, HomeRowsActive
  <2> HIDE DEF A
  <2>5. /\ \A s \in DOMAIN h : SectionOf(h[s], A)
        /\ \A s, t \in DOMAIN h : s # t /\ {s, t} # {"latest", "ending"} => Disjoint(h, s, t)
    BY <2>7, <2>4, HomeSections
  <2>6. \A s \in DOMAIN h : Len(h[s]) <= HomeCards /\ Len(h[s]) = Cardinality(Range(h[s]))
    BY <2>5, OnceCounts DEF SectionOf, RowsOf
  <2> QED
    BY <2>5, <2>6
<1> QED
  BY <1>1, SiteTypes, PTL
-----------------------------------------------------------------------------
(* Sitemaps.                                                               *)

\* A set of numbers that is not empty has a least.
LEMMA HasLeast ==
    ASSUME NEW S, S \subseteq Nat, S # {}
    PROVE  \E a \in S : \A b \in S : a <= b
<1>1. PICK a \in S : \A i \in S : ~(<<i, a>> \in OpToRel(<, Nat))
  BY NatLessThanWellFounded, WFMin, Zenon
<1>2. \A i \in S : ~(i < a)
  BY <1>1 DEF OpToRel
<1> QED
  BY <1>2

LEMMA IndexedProducts ==
    ASSUME d \in [Offers -> Row], NEW p, NEW tie
    PROVE  ProductEntry(d, p).indexable = ProductPage(d, p, tie).indexable
<1> DEFINE T == {x \in Compared(d, p) : d[x].status = "active" /\ Latest(d, x).of # None}
           ages == {Latest(d, o).age : o \in T}
           V == {View(d[o], o, Latest(d, o)) : o \in Compared(d, p)}
           young == \E a \in ages : a <= FreshFor /\ \A b \in ages : a <= b
           shown == \E v \in V : v.rank < 3
           holds == \E o \in Compared(d, p) : d[o].status = "active" /\ IsFresh(Latest(d, o))
<1>1. ProductEntry(d, p).indexable = young /\ ProductPage(d, p, tie).indexable = shown
  BY DEF ProductEntry, ProductPage
<1>2. \A o \in Compared(d, p) : o \in Offers
  BY DEF Compared
<1>3. shown <=> holds
  BY <1>2, ViewTypes
<1>4. \A o \in Offers : Latest(d, o).age \in Nat
  BY LatestTypes
<1>5. \A o \in T : IsFresh(Latest(d, o)) <=> Latest(d, o).age <= FreshFor
  BY DEF IsFresh
<1>6. \A o \in Compared(d, p) : d[o].status = "active" /\ IsFresh(Latest(d, o)) => o \in T
  BY DEF IsFresh
<1>7. T \subseteq Compared(d, p) /\ \A o \in T : d[o].status = "active"
  OBVIOUS
<1> HIDE DEF T
<1>8. ages \subseteq Nat
  BY <1>2, <1>4, <1>7
<1>9. young => holds
  BY <1>5, <1>7
<1>10. ASSUME holds PROVE young
  <2>1. PICK o \in T : Latest(d, o).age <= FreshFor
    BY <1>5, <1>6, <1>10
  <2>2. Latest(d, o).age \in ages
    BY <2>1
  <2> HIDE DEF ages
  <2>3. PICK a \in ages : \A b \in ages : a <= b
    BY <1>8, <2>2, HasLeast
  <2>4. a <= Latest(d, o).age /\ a \in Nat /\ Latest(d, o).age \in Nat /\ FreshFor \in Nat
    BY <1>8, <2>2, <2>3, CatalogueAssumption
  <2>5. a <= FreshFor
    BY <2>1, <2>4
  <2> QED
    BY <2>3, <2>5
<1> HIDE DEF young, shown, holds
<1>11. young = shown
  <2>1. young <=> shown
    BY <1>3, <1>9, <1>10
  <2>2. young \in BOOLEAN /\ shown \in BOOLEAN
    BY DEF young, shown
  <2> QED
    BY <2>1, <2>2
<1> QED
  BY <1>1, <1>11

\* Lists that have something on them, but for stores and searches, are named.
LEMMA IndexedLists ==
    ASSUME d \in [Offers -> Row], NEW path \in ListPaths(d), NEW tie \in Ties, path[1] \in Covered
    PROVE  path \in PageEntries(d) <=> ListOf(d, path, tie) # <<>>
<1>1. /\ path[1] \in ListNames /\ path = <<path[1], path[2]>>
      /\ path[1] \in {"/hot", "/new", "/ending", "/picks"} => path[2] = ""
      /\ path[1] = "/c" => path[2] \in Categories(d)
      /\ path[1] = "/at" => path[2] \in Sellers(d)
  BY PathNames
<1>2. ListOf(d, path, tie) # <<>> <=> Members(d, path) # {}
  BY <1>1, ListOfLists, ListSeq
<1> DEFINE front  == IF Actives(d) = {} THEN {} ELSE {Top("/"), Top("/hot"), Top("/new")}
           ending == IF Ending(d) = <<>> THEN {} ELSE {Top("/ending")}
           picks  == IF Picks(d) = <<>> THEN {} ELSE {Top("/picks")}
           others == {Top("/crowdfunding")} \cup {<<"/c", c>> : c \in Categories(d)} \cup {<<"/at", s>> : s \in Sellers(d)}
                     \cup (IF Categories(d) = {} THEN {} ELSE {Top("/c")})
                     \cup (IF Sellers(d) = {} THEN {} ELSE {Top("/at")})
<1>3. PageEntries(d) = front \cup ending \cup picks \cup others
  BY DEF PageEntries
<1>4. /\ \A q \in others : q[1] \in {"/crowdfunding", "/c", "/at"}
      /\ \A q \in front : q[1] \in {"/", "/hot", "/new"}
      /\ \A q \in ending : q[1] = "/ending"
      /\ \A q \in picks : q[1] = "/picks"
  <2>0. \A p : Top(p)[1] = p
    BY DEF Top
  <2> DEFINE C == {<<"/c", c>> : c \in Categories(d)}
             S == {<<"/at", s>> : s \in Sellers(d)}
  <2>1. \A q \in C : q[1] = "/c"
    <3>1. \A c \in Categories(d) : <<"/c", c>>[1] = "/c"
      OBVIOUS
    <3> QED
      BY <3>1, Zenon
  <2>2. \A q \in S : q[1] = "/at"
    <3>1. \A s \in Sellers(d) : <<"/at", s>>[1] = "/at"
      OBVIOUS
    <3> QED
      BY <3>1, Zenon
  <2>3. others = {Top("/crowdfunding")} \cup C \cup S
                 \cup (IF Categories(d) = {} THEN {} ELSE {Top("/c")})
                 \cup (IF Sellers(d) = {} THEN {} ELSE {Top("/at")})
    OBVIOUS
  <2> HIDE DEF C, S, others
  <2>4. \A q \in others : q[1] \in {"/crowdfunding", "/c", "/at"}
    BY <2>0, <2>1, <2>2, <2>3
  <2>5. /\ \A q \in front : q[1] \in {"/", "/hot", "/new"}
        /\ \A q \in ending : q[1] = "/ending"
        /\ \A q \in picks : q[1] = "/picks"
    BY <2>0
  <2> QED
    BY <2>4, <2>5
<1> HIDE DEF others
<1>5. CASE path[1] \in {"/hot", "/new"}
  <2>1. path = Top(path[1]) /\ Members(d, path) = Actives(d)
    BY <1>1, <1>5 DEF Top, Members
  <2>2. path \notin others /\ path \notin ending /\ path \notin picks
    <3> HIDE DEF front, ending, picks
    <3> QED
      BY <1>4, <1>5
  <2>3. path \in front <=> Actives(d) # {}
    BY <1>5, <2>1
  <2> HIDE DEF front, ending, picks
  <2> QED
    BY <1>2, <1>3, <2>1, <2>2, <2>3
<1>6. CASE path[1] = "/ending"
  <2>1. path = Top("/ending") /\ ListOf(d, path, tie) = Ending(d)
    BY <1>1, <1>6 DEF Top, ListOf
  <2>2. path \notin others /\ path \notin front /\ path \notin picks
    <3> HIDE DEF front, ending, picks
    <3> QED
      BY <1>4, <1>6
  <2>3. path \in ending <=> Ending(d) # <<>>
    BY <2>1
  <2> HIDE DEF front, ending, picks
  <2> QED
    BY <1>3, <2>1, <2>2, <2>3
<1>7. CASE path[1] = "/picks"
  <2>1. path = Top("/picks") /\ ListOf(d, path, tie) = Picks(d)
    BY <1>1, <1>7 DEF Top, ListOf
  <2>2. path \notin others /\ path \notin front /\ path \notin ending
    <3> HIDE DEF front, ending, picks
    <3> QED
      BY <1>4, <1>7
  <2>3. path \in picks <=> Picks(d) # <<>>
    BY <2>1
  <2> HIDE DEF front, ending, picks
  <2> QED
    BY <1>3, <2>1, <2>2, <2>3
<1>8. CASE path[1] = "/c"
  <2>1. path \in PageEntries(d)
    BY <1>1, <1>8 DEF PageEntries
  <2>2. \E o \in Actives(d) : Facts[o].category = path[2]
    BY <1>1, <1>8 DEF Categories
  <2>3. Members(d, path) # {}
    BY <1>8, <2>2 DEF Members
  <2> QED
    BY <1>2, <2>1, <2>3
<1>9. CASE path[1] = "/at"
  <2>1. path \in PageEntries(d)
    BY <1>1, <1>9 DEF PageEntries
  <2>2. \E o \in Offers : Listed(d, o) /\ Facts[o].seller = path[2]
    BY <1>1, <1>9 DEF Sellers
  <2>3. Members(d, path) # {}
    BY <1>9, <2>2 DEF Members
  <2> QED
    BY <1>2, <2>1, <2>3
<1> QED
  BY <1>5, <1>6, <1>7, <1>8, <1>9 DEF Covered

\* The files hold every entry.
LEMMA ChunksCut ==
    ASSUME NEW s, NEW S, s \in Seq(S)
    PROVE  Spread(s, Chunks(s), ChunkMax)
<1>0. /\ Len(s) \in Nat /\ (s = <<>> <=> Len(s) = 0) /\ DOMAIN s = 1 .. Len(s)
      /\ ChunkMax \in Nat \ {0}
  BY CatalogueAssumption
<1> DEFINE most == (Len(s) + ChunkMax - 1) \div ChunkMax
           files == IF s = <<>> THEN 1 ELSE most
           pages == Chunks(s)
<1>1. /\ DOMAIN pages = 1 .. files
      /\ \A i \in 1 .. files : pages[i] = SubSeq(s, (i - 1) * ChunkMax + 1, PageEnd(i, ChunkMax, Len(s)))
  BY DEF Chunks, PageEnd
<1> HIDE DEF pages
<1>2. most \in Nat /\ most * ChunkMax <= Len(s) + ChunkMax - 1
  BY <1>0
<1>3. Len(s) # 0 => most >= 1
  BY <1>0
<1> HIDE DEF most
<1>4. files \in Nat \ {0} /\ (s # <<>> => files = most)
  BY <1>0, <1>2, <1>3
<1>5. ASSUME NEW i \in 1 .. files PROVE i \in Nat \ {0} /\ (i - 1) * ChunkMax <= Len(s)
  <2>1. CASE s = <<>>
    BY <1>0, <2>1
  <2>2. CASE s # <<>>
    <3>1. i \in Nat \ {0} /\ i <= most /\ most \in Nat
      BY <1>2, <1>4, <2>2
    <3>2. i * ChunkMax <= most * ChunkMax
      BY <1>0, <3>1
    <3>3. i * ChunkMax <= Len(s) + ChunkMax - 1
      BY <1>0, <1>2, <3>1, <3>2
    <3>4. (i - 1) * ChunkMax = i * ChunkMax - ChunkMax /\ i * ChunkMax \in Nat
      BY <1>0, <3>1
    <3> QED
      BY <1>0, <3>1, <3>3, <3>4
  <2> QED
    BY <2>1, <2>2
<1>6. ASSUME NEW n \in 1 .. Len(s) PROVE ((n - 1) \div ChunkMax) + 1 \in 1 .. files
  <2>0. n \in Nat \ {0} /\ s # <<>>
    BY <1>0
  <2>1. PICK q \in Nat, r \in 1 .. ChunkMax : (n - 1) \div ChunkMax = q /\ n = q * ChunkMax + r
    BY <1>0, <2>0, Division
  <2>2. q + 1 = (q * ChunkMax + ChunkMax) \div ChunkMax
    BY <1>0, <2>1
  <2>3. q * ChunkMax + ChunkMax <= Len(s) + ChunkMax - 1
    BY <1>0, <2>1
  <2>4. (q * ChunkMax + ChunkMax) \div ChunkMax <= (Len(s) + ChunkMax - 1) \div ChunkMax
    BY <1>0, <2>1, <2>3
  <2>5. q + 1 <= most
    BY <2>2, <2>4 DEF most
  <2> QED
    BY <1>4, <2>0, <2>1, <2>5
<1> HIDE DEF files
<1>7. CutAt(s, pages, ChunkMax)
  BY <1>1, <1>4, <1>5, <1>6 DEF CutAt
<1> QED
  BY <1>0, <1>7, CutSpread DEF pages


\* The entries a sitemap has room for, of a list of entries that repeats none.
LEMMA IndexableOnce ==
    ASSUME NEW n \in Nat, NEW es, DOMAIN es = 1 .. n, es = [k \in 1 .. n |-> es[k]],
           \A j, k \in 1 .. n : es[j] = es[k] => j = k
    PROVE  Indexable(es) \in Seq(Range(es)) /\ Range(Indexable(es)) = {e \in Range(es) : e.indexable}
<1>1. es \in [1 .. n -> Range(es)]
  BY DEF Range
<1>2. es \in Seq(Range(es)) /\ Len(es) = n
  BY <1>1
<1>3. Once(es, Range(es))
  BY <1>2 DEF Once
<1> DEFINE T == {e \in Range(es) : e.indexable}
<1>4. Indexable(es) = Only(es, T) /\ T \subseteq Range(es)
  BY DEF Indexable
<1> HIDE DEF T
<1>5. Once(Only(es, T), Range(es) \cap T) /\ Range(Only(es, T)) = Range(es) \cap T
  BY <1>3, OnlyOnce
<1>6. Only(es, T) \in Seq(Range(es))
  <2>1. Range(es) \cap T \subseteq Range(es)
    OBVIOUS
  <2> HIDE DEF T
  <2> QED
    BY <1>5, <2>1 DEF Once
<1> QED
  BY <1>4, <1>5, <1>6 DEF T

AllListed(d0) == {o \in Offers : Listed(d0, o)}
Entry(d0, o) == [at |-> o, indexable |-> OfferIndexable(d0[o], Latest(d0, o))]

\* The rows of the offers' query: each once, and none newer left out.
LEMMA RowsNewest ==
    ASSUME NEW d0, NEW rows \in OfferRows(d0)
    PROVE  /\ Once(rows, Offers)
           /\ \A o \in AllListed(d0) \ Range(rows) :
                MapMax <= Cardinality({x \in Offers \ {o} : Listed(d0, x) /\ Facts[x].born >= Facts[o].born})
<1> DEFINE L == AllListed(d0)
           list(tie) == Sorted({o \in Offers : Listed(d0, o)}, LAMBDA a, b : LaterBy(tie, a, b))
<1>1. PICK tie \in Ties : rows = FirstOf(list(tie), MapMax)
  BY DEF OfferRows
<1> DEFINE l == list(tie)
<1>2. l = ByPlace(L, {<<x, Cardinality({y \in L : LaterBy(tie, y, x)}) + 1>> : x \in L})
  BY Zenon DEF Sorted, AllListed
<1>3. L \subseteq Offers /\ MapMax \in Nat /\ rows = FirstOf(l, MapMax)
  BY <1>1, CatalogueAssumption DEF AllListed
<1> HIDE DEF list, l, L
<1>4. SortedIn(l, L, LaterIn(tie, L))
  BY <1>2, <1>3, TiesBreak, LaterSorted
<1>5. Lists(l, L) /\ InOrder(l, LaterIn(tie, L))
  BY <1>3, <1>4, InLists
<1>6. Once(l, Offers) /\ Range(l) = L /\ Len(l) \in Nat /\ DOMAIN l = 1 .. Len(l)
  BY <1>3, <1>5, ListsOnce DEF Once
<1>7. Once(rows, Offers) /\ Range(rows) \subseteq L
  BY <1>3, <1>6, FirstOnce
<1>8. ASSUME NEW o \in L \ Range(rows)
      PROVE  MapMax <= Cardinality({x \in Offers \ {o} : Listed(d0, x) /\ Facts[x].born >= Facts[o].born})
  <2> DEFINE newer == {x \in Offers \ {o} : Listed(d0, x) /\ Facts[x].born >= Facts[o].born}
             n == IF Len(l) < MapMax THEN Len(l) ELSE MapMax
  <2>1. PICK k \in 1 .. Len(l) : l[k] = o
    BY <1>6 DEF Range
  <2>2. n \in Nat /\ n <= Len(l) /\ rows = SubSeq(l, 1, n)
    BY <1>3, <1>6 DEF FirstOf
  <2>3. DOMAIN rows = 1 .. n /\ Len(rows) = n /\ \A i \in 1 .. n : rows[i] = l[i]
    <3> HIDE DEF n
    <3>1. l \in Seq(Offers)
      BY <1>6 DEF Once
    <3> QED
      BY <1>6, <2>2, <3>1
  <2>4. k > n
    <3>1. k \in 1 .. n => o \in Range(rows)
      <4> HIDE DEF n
      <4> QED
        BY <2>1, <2>3, Zenon DEF Range
    <3> HIDE DEF n
    <3> QED
      BY <1>6, <1>8, <2>2, <3>1
  <2>5. n = MapMax
    <3>1. CASE Len(l) < MapMax
      <4>1. n = Len(l)
        BY <3>1
      <4> HIDE DEF n
      <4> QED
        BY <1>6, <2>1, <2>4, <4>1
    <3>2. CASE ~(Len(l) < MapMax)
      BY <3>2, Zenon
    <3> QED
      BY <3>1, <3>2
  <2> HIDE DEF n
  <2>6. \A i \in 1 .. n : l[i] \in newer
    <3> TAKE i \in 1 .. n
    <3>1. i \in 1 .. Len(l) /\ i < k
      BY <1>6, <2>1, <2>2, <2>4
    <3>2. <<l[i], o>> \in LaterIn(tie, L) /\ l[i] \in L /\ l[i] \in Offers
      BY <1>3, <1>5, <1>6, <2>1, <3>1 DEF InOrder, Range
    <3>3. LaterBy(tie, l[i], o)
      BY <3>2 DEF LaterIn
    <3>4. l[i] # o
      BY <1>3, <3>2, <3>3, TiesBreak, LaterStrict
    <3>5. Facts[l[i]].born >= Facts[o].born
      BY <1>3, <3>2, <3>3, TiesBreak DEF LaterBy, Tiebreak
    <3> QED
      BY <3>2, <3>4, <3>5 DEF L, AllListed
  <2>7. Range(rows) \subseteq newer
    <3> HIDE DEF newer
    <3> QED
      BY <2>3, <2>6 DEF Range
  <2>8. IsFiniteSet(newer)
    <3>1. newer \subseteq Offers
      OBVIOUS
    <3> QED
      BY <3>1, OffersFinite
  <2> HIDE DEF newer
  <2>9. Cardinality(Range(rows)) <= Cardinality(newer)
    BY <2>7, <2>8, FS_Subset
  <2>10. Cardinality(Range(rows)) = MapMax
    BY <1>7, <2>3, <2>5, OnceCounts
  <2> QED
    BY <2>9, <2>10 DEF newer
<1> QED
  BY <1>7, <1>8 DEF L

\* A page that calls itself indexable is an entry, if its row is one.
LEMMA OffersNamed ==
    ASSUME NEW rows \in OfferRows(d)
    PROVE  LET es == Indexable(OfferEntries(rows, d))
           IN  /\ \E S : es \in Seq(S)
               /\ \A o \in Offers : OfferAnswer(d, o).indexable => (\E e \in Range(es) : e.at = o) \/ NoRoomFor(o)
<1> DEFINE list == OfferEntries(rows, d)
           es == Indexable(list)
           n == Len(rows)
<1>1. /\ Once(rows, Offers)
      /\ \A o \in AllListed(d) \ Range(rows) : NoRoomFor(o)
  BY RowsNewest DEF NoRoomFor
<1>2. n \in Nat /\ DOMAIN rows = 1 .. n
  BY <1>1 DEF Once
<1>3. list = [k \in 1 .. n |-> Entry(d, rows[k])]
  BY <1>2 DEF OfferEntries, Entry
<1> HIDE DEF n, list
<1>4. \A o : Entry(d, o).at = o /\ (Entry(d, o).indexable <=> OfferIndexable(d[o], Latest(d, o)))
  BY DEF Entry
<1>5. /\ DOMAIN list = 1 .. n /\ list = [k \in 1 .. n |-> list[k]]
      /\ \A j, k \in 1 .. n : list[j] = list[k] => j = k
  BY <1>1, <1>3, <1>4 DEF Once, n
<1>6. es \in Seq(Range(list)) /\ Range(es) = {e \in Range(list) : e.indexable}
  BY <1>2, <1>5, IndexableOnce
<1> HIDE DEF es
<1>7. ASSUME NEW o \in Offers, OfferAnswer(d, o).indexable
      PROVE  (\E e \in Range(es) : e.at = o) \/ NoRoomFor(o)
  <2>1. o \in AllListed(d) /\ OfferIndexable(d[o], Latest(d, o))
    <3>1. CASE d[o].into # None
      BY <1>7, <3>1 DEF OfferAnswer
    <3>2. CASE d[o].into = None /\ d[o].status = "disabled"
      BY <1>7, <3>2 DEF OfferAnswer, OfferPage
    <3>3. CASE d[o].into = None /\ d[o].status # "disabled"
      BY <1>7, <3>3 DEF OfferAnswer, OfferPage, AllListed, Listed, Canonical
    <3> QED
      BY <3>1, <3>2, <3>3
  <2>2. CASE o \in Range(rows)
    <3>1. PICK k \in 1 .. n : rows[k] = o
      BY <1>2, <2>2 DEF Range
    <3>2. list[k] \in Range(list) /\ list[k] = Entry(d, o)
      BY <1>3, <1>5, <3>1 DEF Range
    <3> QED
      BY <1>4, <1>6, <2>1, <3>2
  <2>3. CASE o \notin Range(rows)
    BY <1>1, <2>1, <2>3
  <2> QED
    BY <2>2, <2>3
<1> QED
  BY <1>6, <1>7 DEF es, list

LEMMA ProductsEntered ==
    ASSUME NEW products \in ProductRows(d)
    PROVE  \E S : Indexable([n \in DOMAIN products |-> ProductEntry(d, products[n])]) \in Seq(S)
<1> DEFINE P == Products(d)
           n == IF Cardinality(P) < MapMax THEN Cardinality(P) ELSE MapMax
           es == [k \in DOMAIN products |-> ProductEntry(d, products[k])]
<1>1. IsFiniteSet(P)
  <2> DEFINE A == {o \in Offers : Listed(d, o)}
             Q == {Facts[o].product : o \in A}
             f == [o \in A |-> Facts[o].product]
  <2>1. IsFiniteSet(A)
    <3>1. A \subseteq Offers
      OBVIOUS
    <3> HIDE DEF A
    <3> QED
      BY <3>1, OffersFinite
  <2>2. f \in Surjection(A, Q)
    BY DEF Surjection
  <2>3. P \subseteq Q
    BY DEF Products
  <2> HIDE DEF A, Q, f, P
  <2>4. IsFiniteSet(Q)
    BY <2>1, <2>2, FS_Surjection
  <2> QED
    BY <2>3, <2>4, FS_Subset
<1>2. n \in Nat
  <2>1. Cardinality(P) \in Nat /\ MapMax \in Nat
    BY <1>1, FS_CardinalityType, CatalogueAssumption
  <2> QED
    BY <2>1
<1>3. products \in [1 .. n -> P] /\ \A j, k \in 1 .. n : products[j] = products[k] => j = k
  <2>1. products \in [1 .. n -> P] /\ IsInjective(products)
    BY DEF ProductRows
  <2> HIDE DEF n, P
  <2> QED
    BY <2>1 DEF IsInjective
<1> HIDE DEF n, P
<1>4. \A p : ProductEntry(d, p).at = p
  BY DEF ProductEntry
<1>5. /\ DOMAIN es = 1 .. n /\ es = [k \in 1 .. n |-> es[k]]
      /\ \A j, k \in 1 .. n : es[j] = es[k] => j = k
  BY <1>3, <1>4
<1> HIDE DEF es
<1>6. Indexable(es) \in Seq(Range(es))
  BY <1>2, <1>5, IndexableOnce
<1> QED
  BY <1>6 DEF es

LEMMA Joined ==
    ASSUME NEW S, NEW T, NEW s \in Seq(S), NEW t \in Seq(T)
    PROVE  s \o t \in Seq(S \cup T) /\ Range(s) \subseteq Range(s \o t)
<1>1. s \in Seq(S \cup T) /\ t \in Seq(S \cup T) /\ DOMAIN s = 1 .. Len(s) /\ Len(s) \in Nat /\ Len(t) \in Nat
  OBVIOUS
<1>2. /\ s \o t \in Seq(S \cup T) /\ DOMAIN (s \o t) = 1 .. Len(s) + Len(t)
      /\ \A i \in 1 .. Len(s) : (s \o t)[i] = s[i]
  BY <1>1
<1> DEFINE st == s \o t
<1> HIDE DEF st
<1>3. st \in Seq(S \cup T) /\ DOMAIN st = 1 .. Len(s) + Len(t) /\ \A i \in 1 .. Len(s) : st[i] = s[i]
  BY <1>2 DEF st
<1>4. Range(s) \subseteq Range(st)
  BY <1>1, <1>3 DEF Range
<1> QED
  BY <1>3, <1>4 DEF st

\* For any catalogue and any room in a query: a product is named as its page
\* says, a list when it has something to show, an offer whose page calls itself
\* indexable unless as many no older had the room, and the files leave out no
\* entry.
THEOREM SitemapAsPages == Spec => []SitemapAgrees
<1>1. TypeOK => SitemapAgrees
  <2> SUFFICES ASSUME TypeOK PROVE SitemapAgrees
    OBVIOUS
  <2>1. d \in [Offers -> Row]
    BY DEF TypeOK
  <2>2. \A p \in Products(d), tie \in Ties : ProductEntry(d, p).indexable = ProductPage(d, p, tie).indexable
    BY <2>1, IndexedProducts
  <2>3. \A path \in ListPaths(d), tie \in Ties :
          path[1] \in Covered => (path \in PageEntries(d) <=> ListOf(d, path, tie) # <<>>)
    BY <2>1, IndexedLists
  <2>4. ASSUME NEW rows \in OfferRows(d), NEW products \in ProductRows(d)
        PROVE  LET catalog == CatalogEntries(d, rows, products)
               IN  /\ \A o \in Offers : OfferAnswer(d, o).indexable =>
                        (\E e \in Range(catalog) : e.at = o) \/ NoRoomFor(o)
                   /\ Spread(catalog, Chunks(catalog), ChunkMax)
    <3> DEFINE s == Indexable(OfferEntries(rows, d))
               t == Indexable([n \in DOMAIN products |-> ProductEntry(d, products[n])])
               catalog == CatalogEntries(d, rows, products)
    <3>1. PICK S : s \in Seq(S)
      BY OffersNamed
    <3>2. PICK T : t \in Seq(T)
      BY ProductsEntered
    <3>3. catalog = s \o t
      BY DEF CatalogEntries
    <3>4. \A o \in Offers : OfferAnswer(d, o).indexable => (\E e \in Range(s) : e.at = o) \/ NoRoomFor(o)
      BY OffersNamed
    <3> HIDE DEF s, t, catalog
    <3>5. catalog \in Seq(S \cup T) /\ Range(s) \subseteq Range(catalog)
      BY <3>1, <3>2, <3>3, Joined
    <3>6. Spread(catalog, Chunks(catalog), ChunkMax)
      BY <3>5, ChunksCut
    <3>7. \A o \in Offers : OfferAnswer(d, o).indexable => (\E e \in Range(catalog) : e.at = o) \/ NoRoomFor(o)
      BY <3>4, <3>5
    <3> QED
      BY <3>6, <3>7 DEF catalog
  <2> QED
    BY <2>2, <2>3, <2>4 DEF SitemapAgrees
<1> QED
  BY <1>1, SiteTypes, PTL
=============================================================================
