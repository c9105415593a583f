------------------------------- MODULE MCSite -------------------------------
(* Small instances of Site for TLC. *)
EXTENDS Site

MCWarmed == <<"home", "hot">>

EUR == 1
USD == 2
Fact(born, seq, ends, price, cur) ==
    [born |-> born, seq |-> seq, ends |-> ends, price |-> price, cur |-> cur,
     store |-> "st", seller |-> None, category |-> None, product |-> "prod"]
\* b and c were posted together.
MCFacts ==
    [a |-> [Fact(1, 1, 1, 10, USD) EXCEPT !.seller = "sel"],
     b |-> [Fact(2, 2, 2, 20, USD) EXCEPT !.category = "cat"],
     c |-> [Fact(2, 3, Never, NoPrice, USD) EXCEPT !.seller = "sel", !.category = "cat"]]
MCScores == {0, 1}
MCUnder == [amount |-> 20, cur |-> USD]

Plain == [status |-> "active", into |-> None, pending |-> FALSE, seen |-> TRUE, age |-> 1, live |-> TRUE,
          hot |-> 0, pick |-> FALSE]

\* The caches: c waits for review and shows the newer price of b, merged into it;
\* that price holds when the one of a does no longer.  With two caches the
\* question is who pays for their builds.
MCFollowed == {{"home", "hot"}, {"home"}, {"sitemap"}}
MCMaxChanges == [cs \in MCFollowed |-> IF Cardinality(cs) > 1 THEN 0 ELSE 1]
MCCatalogues ==
    {[a |-> [Plain EXCEPT !.hot = 1, !.pick = TRUE], b |-> [Plain EXCEPT !.into = "c", !.age = 0],
      c |-> [Plain EXCEPT !.pending = TRUE]]}

\* The views: nobody reads a cache, and more changes of the catalogue.
NoCaches == {{}}
ViewChanges == [cs \in NoCaches |-> 2]
ViewCatalogues ==
    {[a |-> [Plain EXCEPT !.hot = 1], b |-> [Plain EXCEPT !.age = 0], c |-> Plain],
     [a |-> [Plain EXCEPT !.age = 0], b |-> [Plain EXCEPT !.status = "expired"],
      c |-> [Plain EXCEPT !.into = "b", !.hot = 1, !.pick = TRUE]]}
=============================================================================
