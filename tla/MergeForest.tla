---------------------------- MODULE MergeForest ----------------------------
(***************************************************************************)
(* Merge pointers (server/domain/reads.js).  A merge moves no row: offer B *)
(* merged into A only sets B.merged_into = A, and everything shown for A   *)
(* is read over its group, A and every offer whose chain of pointers ends  *)
(* at A.  A pointer table is a function m on offer ids; m[o] is another    *)
(* offer, or any value outside DOMAIN m for "not merged".                  *)
(*                                                                         *)
(* The code walks the pointers with loops that give up after 50 hops.  The *)
(* operators are defined by closure instead, with no hop limit: on fewer   *)
(* than 50 offers they agree, and they can be reasoned about.              *)
(***************************************************************************)

\* A set of offers that contains whatever its members point to.
Closed(m, S) == \A x \in S : m[x] \in DOMAIN m => m[x] \in S

\* o and every offer reached from it along the pointers.
Chain(m, o) ==
    {r \in DOMAIN m : \A S \in SUBSET DOMAIN m : o \in S /\ Closed(m, S) => r \in S}

\* groupIds(r): r and every offer merged into it, however deep.
Group(m, r) == {o \in DOMAIN m : r \in Chain(m, o)}

IsRoot(m, o) == o \in DOMAIN m /\ m[o] \notin DOMAIN m

\* root(o): the offer at the end of o's chain.  If the pointers form a cycle
\* the code stops at its 50th hop, on some member of that cycle.
Roots(m, o) ==
    LET ends == {r \in Chain(m, o) : IsRoot(m, r)}
    IN  IF ends # {} THEN ends
        ELSE {r \in Chain(m, o) : r \in Chain(m, m[r])}

\* Every nonempty set of offers has a member whose pointer leaves the set:
\* following pointers always ends.
Acyclic(m) == \A S \in SUBSET DOMAIN m : S # {} => \E x \in S : m[x] \notin S
=============================================================================
