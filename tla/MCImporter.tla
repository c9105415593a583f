---------------------------- MODULE MCImporter ----------------------------
(* Small instances of Importer for TLC. *)
EXTENDS Importer, TLC
CONSTANT p1

MCOffers == Keys \cup {p1}
MCKinds  == [a |-> "article", b |-> "product"]
MCLinks  == [a |-> <<"x">>, b |-> <<"y", "x", "y">>]
MCWatchOf == [word |-> [kind |-> "keyword", subject |-> "ann", cur |-> "USD", max |-> 0],
              price |-> [kind |-> "price_below", subject |-> "ann", cur |-> "USD", max |-> 100]]
\* Watches of somebody who reports nothing.
MCBobs == [w \in {"word", "price"} |-> [MCWatchOf[w] EXCEPT !.subject = "bob"]]
dear  == [usable |-> TRUE, price |-> 99, cur |-> "USD", list |-> 100]
cheap == [usable |-> TRUE, price |-> 90, cur |-> "USD", list |-> 100]
MCStatements == {dear, cheap}
MCPersonSays == {cheap}
MCFlaws == [a |-> {}, b |-> {"title"}]
=============================================================================
