----------------------------- MODULE FeedLedger -----------------------------
(***************************************************************************)
(* What the importer promises of the items it follows, whatever order the  *)
(* feed, its replays, the re-confirmation, failed pages and restarts come  *)
(* in (the header of domain/source-items.js): a source row only moves      *)
(* forward, to what Sources has published; each move is one observation,   *)
(* so a replay is no move; and a row taken away stays away.  Two imports   *)
(* that write one row at once lose the order of its moves, not the rest.   *)
(***************************************************************************)
EXTENDS Naturals

CONSTANT Keys        \* an item and the part of it that became an offer

VARIABLES
    published,       \* [rev, at, gone]: what Sources says of the item now
    row,             \* [rev, at, live]: what Deals holds of it
    moves,           \* observations recorded from the row
    inTurn           \* no import has written over another's rows

Versions == [rev : Nat, at : Nat, gone : BOOLEAN]
Rows     == [rev : Nat, at : Nat, live : BOOLEAN]

lvars == <<published, row, moves, inTurn>>

LedgerInit ==
    /\ published = [k \in Keys |-> [rev |-> 0, at |-> 0, gone |-> FALSE]]
    /\ row = [k \in Keys |-> [rev |-> 0, at |-> 0, live |-> FALSE]]
    /\ moves = [k \in Keys |-> 0]
    /\ inTurn = TRUE

Stay(k) == row'[k] = row[k] /\ moves'[k] = moves[k]

\* Forward in the revision or in the time of retrieval, back in neither, not
\* past what was published, and not after the row was taken away.
Advance(k) ==
    /\ row[k].live \/ row[k].rev = 0
    /\ row'[k].live /\ row'[k].rev > 0
    /\ row'[k].rev \in row[k].rev .. published[k].rev
    /\ row'[k].at \in row[k].at .. published[k].at
    /\ row'[k] # row[k]
    /\ moves'[k] = moves[k] + 1

Withdraw(k) ==
    /\ row[k].live
    /\ row'[k] = [row[k] EXCEPT !.live = FALSE]
    /\ moves'[k] = moves[k]

\* What is left of it when two imports overlap: both may record one move, and
\* the older may commit last; but nothing unpublished comes in, no observation
\* goes, and what was taken away does not come back.
Overtaken(k) ==
    /\ row[k].rev > 0 /\ ~row[k].live => ~row'[k].live
    /\ row'[k].rev <= published[k].rev /\ row'[k].at <= published[k].at
    /\ moves'[k] >= moves[k]

\* One transaction of the importer: some rows move, the others stay.
Import ==
    /\ \A k \in Keys : Stay(k) \/ Advance(k) \/ Withdraw(k) \/ (~inTurn' /\ Overtaken(k))
    /\ row' \in [Keys -> Rows] /\ moves' \in [Keys -> Nat]
    /\ inTurn' \in {inTurn, FALSE}
    /\ UNCHANGED published

\* Sources publishes, fetches again, or takes down.
Announce ==
    /\ published' \in [Keys -> Versions]
    /\ \A k \in Keys : published'[k].rev >= published[k].rev /\ published'[k].at >= published[k].at
    /\ UNCHANGED <<row, moves, inTurn>>

LedgerSpec == LedgerInit /\ [][Import \/ Announce]_lvars
=============================================================================
