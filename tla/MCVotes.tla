------------------------------ MODULE MCVotes ------------------------------
(* Votes on small instances. *)
EXTENDS Votes

CONSTANTS o1, o2, x, y

\* o1 was imported, o2 posted by y.
PosterOf == [o \in Offers |-> IF o = o2 THEN y ELSE NoVoter]

\* Nobody has voted, or x has voted for o1.
NobodyVoted == [v \in Voters |-> NoOffer]
XVotedForO1 == [v \in Voters |-> IF v = x THEN o1 ELSE NoOffer]

AnyValue == {-1, 0, 1}
ForOrAgainst == {-1, 1}
=============================================================================
