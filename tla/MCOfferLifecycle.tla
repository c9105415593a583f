-------------------------- MODULE MCOfferLifecycle --------------------------
(* Small instances of OfferLifecycle for TLC. *)
EXTENDS OfferLifecycle, TLC

\* The seeded offers are interchangeable, and so are the request slots.
Symmetry == Permutations(Seeded) \cup Permutations(Slots)
=============================================================================
