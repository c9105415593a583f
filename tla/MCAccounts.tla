------------------------------ MODULE MCAccounts ------------------------------
(* A small instance of Accounts for TLC. *)
EXTENDS Accounts

Nothing == [token |-> "none", verified |-> TRUE, sandbox |-> FALSE, staff |-> FALSE, owner |-> Nobody,
            names |-> Nobody, caps |-> {}, relays |-> FALSE]
Browser(p)   == [Nothing EXCEPT !.token = "user", !.owner = p]
App(of, p)   == [Nothing EXCEPT !.token = "app", !.owner = of, !.names = p, !.caps = Caps \ {"deals.offer.moderate"}]
Service(p)   == [Nothing EXCEPT !.token = "svc", !.names = p, !.caps = Caps]

Readers == {Nothing, Browser("ann"), Browser("bob"), App("ann", Nobody), Service("bob")}
Callers == Readers \cup
    {App("ann", "bob"), [App("ann", "ann") EXCEPT !.sandbox = TRUE], [Service("ann") EXCEPT !.verified = FALSE],
     [Service(Nobody) EXCEPT !.relays = TRUE], [Browser("ann") EXCEPT !.verified = FALSE],
     [Browser("bob") EXCEPT !.owner = Nobody], [Service("ann") EXCEPT !.caps = {}]}

Doing(does, doors) == {r \in Routes : r.does \in does /\ r.door \in doors}
Scene(cs, rs, n) ==
    [creds |-> cs, routes |-> rs, requests |-> n, audiences |-> {}, sheets |-> 0, rings |-> FALSE,
     deletions |-> {}, faults |-> 0, windows |-> 0]

MCScenes ==
    <<\* every token at every door
      [Scene(Callers, Routes, 1) EXCEPT !.audiences = {"people"}, !.faults = 1, !.windows = 1],
      \* watches, their audiences, restarts
      [Scene({Browser("ann"), Browser("bob")}, Doing({"watch", "unwatch", "default"}, {"form"}), 3)
          EXCEPT !.audiences = {"people", "link"}, !.sheets = 1, !.faults = 1],
      \* reports, rings and decisions
      [Scene({Browser("ann"), Browser("bob"), Service(Nobody)}, Doing({"report", "decide"}, {"api"}), 3)
          EXCEPT !.rings = TRUE, !.faults = 1, !.windows = 1],
      \* an account deleted while its person is about
      [Scene({Browser("ann"), Browser("bob")}, Doing({"watch", "default", "report"}, {"form"}), 2)
          EXCEPT !.audiences = {"people"}, !.sheets = 1, !.deletions = {"ann"}, !.faults = 1]>>

\* A moderator ends a deal from its page, from theirs and by the API.
MCExpiry == <<Scene({Browser("bob")}, Doing({"expire"}, {"api", "form"}), 2)>>
=============================================================================
