---------------------------- MODULE PriceTrend ----------------------------
(***************************************************************************)
(* A deal's price over time (server/domain/price-trend.js).  A history is  *)
(* a sequence of observations in the order they were recorded; an          *)
(* observation states a price (0 for "not stated"), its currency, a list   *)
(* price (0 for none) and the time it was made.  The code sorts the rows   *)
(* newest first and walks them; here "newest" is an order on positions.    *)
(***************************************************************************)
EXTENDS Naturals, FiniteSets

NoPrice == 0
NoCurrency == "not stated"

\* reads.observations: ORDER BY observed_at DESC, seq DESC.
Newer(h, i, j) == h[i].at > h[j].at \/ (h[i].at = h[j].at /\ i > j)

Newest(h, S) == CHOOSE i \in S : \A j \in S \ {i} : Newer(h, i, j)

\* The whole percents a stated list price is above the price (0: none).
SavingPct(o) ==
    IF o.list = NoPrice \/ o.price = NoPrice \/ o.list <= o.price THEN 0
    ELSE ((o.list - o.price) * 100) \div o.list

\* The positions a trend is drawn from: stated prices of sources that are
\* still there, in the currency of the newest one that names a currency.
Points(h, S) ==
    LET stated == {i \in S : h[i].price # NoPrice}
        named  == {i \in stated : h[i].cur # NoCurrency}
        cur    == IF named = {} THEN NoCurrency ELSE h[Newest(h, named)].cur
    IN  {i \in stated : h[i].cur = cur}

DroppedOrLevel(latest, previous, lowest, differ) == lowest \/ latest.price < previous.price
\* The lowest of prices that differ, or lower than the one before.
Dropped(latest, previous, lowest, differ) == (lowest /\ differ) \/ latest.price < previous.price

\* isDeal over the positions S of h.  A reason, or "none".
DealReason(h, S, watchHit) ==
    LET points   == Points(h, S)
        latest   == Newest(h, points)
        previous == Newest(h, points \ {latest})
        lowest   == \A i \in points : h[latest].price <= h[i].price
        differ   == \E i \in points : h[i].price # h[latest].price
        several  == points # {latest}
    IN  CASE points # {} /\ SavingPct(h[latest]) >= 5 -> "list_price"
          [] points # {} /\ several
             /\ Dropped(h[latest], h[previous], lowest, differ) -> "price_drop"
          [] OTHER -> IF watchHit THEN "watch" ELSE "none"
=============================================================================
