------------------------------ MODULE Accounts ------------------------------
(***************************************************************************)
(* What people keep and do beside deals, under the rights of Access: their *)
(* watches (domain/watches.js) and who may read them (sharing.js), reports *)
(* and the moderators' decisions on them (domain/flags.js), and the        *)
(* deletion of an account (http/events.js, domain/account-data.js).        *)
(*                                                                         *)
(* A request is charged to its budget and admitted, then takes a step per  *)
(* statement or transaction; others run between its steps, and a restart   *)
(* ends it where it is.  The Share sheet is the SDK's; what else a request *)
(* may do is in the modules of deals and votes, where it leaves to.        *)
(***************************************************************************)
EXTENDS Access, Sequences, Integers

Audiences == {"private", "people", "link", "public"}

CONSTANTS
    Watches, Flags,  \* ids; bound: watches and flags ever made in a behaviour
    NoOne,           \* no watch, no flag
    Slots,           \* requests served at a time
    WatchLimit,      \* config.abuse.watchesPerSubject
    FlagLimit,       \* config.abuse.flagPerDay
    BudgetLimit,     \* requests of one actor per window, whatever the budget
    SecretSet,       \* DEALS_FORM_SECRET is set
    Scenes           \* bounds: the tokens and routes a behaviour is about, and how many requests,
                     \* Share sheets, deletions, faults and windows it has, by number

ASSUME AccountsAssumption ==
    /\ WatchLimit \in Nat \ {0} /\ FlagLimit \in Nat \ {0} /\ BudgetLimit \in Nat \ {0}
    /\ SecretSet \in BOOLEAN
    /\ \A n \in DOMAIN Scenes :
         /\ Scenes[n].creds \subseteq Credentials /\ Scenes[n].routes \subseteq Routes
         /\ Scenes[n].audiences \subseteq Audiences /\ Scenes[n].deletions \subseteq People

VARIABLES
    watch,      \* deal_watches: [state, owner]
    share,      \* shares and share_members by watch: [audience, members]
    default,    \* deals_share_defaults
    flag,       \* deal_flags on the deal: [key, reporter, status]
    log,        \* moderation_log: the decisions on each flag, in order
    hits,       \* rate_events 'flag' of the last day
    used,       \* per-actor counters of this process and window
    req,        \* requests being served
    life,       \* which process this is
    deletion,   \* network.account.deleted by person: none, sent, done
    chosen,     \* history: the audience each watch should have
    raced,      \* history: watches, flags and people something overlapped on
    scene, requests, sheets, faults, windows

sharing == <<watch, share, default, chosen>>
reports == <<flag, log, hits>>
bounds  == <<scene, requests, sheets, faults, windows>>
vars == <<sharing, reports, used, req, life, deletion, raced, bounds>>

-----------------------------------------------------------------------------
Unused  == [x \in Actors \X Budgets |-> 0]
NoShare == [audience |-> "none", members |-> {}]
NoWatch == [state |-> "none", owner |-> Nobody]
NoFlag  == [key |-> "none", reporter |-> Nobody, status |-> "none"]

\* `cred`, `route` and `form` are what the request came with, the rest what it
\* has read.  `stale` is history: what it read has been overtaken.
Idle == [pc |-> "idle", does |-> "", cred |-> NoOne, form |-> NoOne, who |-> Nobody,
         key |-> "none", on |-> NoOne, audience |-> "none", status |-> "none",
         stale |-> FALSE]

Live(p) == {w \in Watches : watch[w].state = "live" /\ watch[w].owner = p}
OpenBy(key) == {f \in Flags : flag[f].status = "open" /\ flag[f].key = key}
About == Scenes[scene]
Busy == {s \in Slots : req[s].pc # "idle"}

\* A fault: nothing stored is not Only me.
StoredDefault(p) == default[p]
DefaultOf(p) == IF default[p] = "none" THEN "private" ELSE default[p]

Init ==
    /\ watch = [w \in Watches |-> NoWatch]
    /\ share = [w \in Watches |-> NoShare]
    /\ default = [p \in People |-> "none"]
    /\ flag = [f \in Flags |-> NoFlag]
    /\ log = [f \in Flags |-> <<>>]
    /\ hits = [p \in People |-> 0]
    /\ used = Unused
    /\ req = [s \in Slots |-> Idle]
    /\ life = 0
    /\ deletion = [p \in People |-> "none"]
    /\ chosen = [w \in Watches |-> "private"]
    /\ raced = {}
    /\ scene \in DOMAIN Scenes
    /\ requests = 0 /\ sheets = 0 /\ faults = 0 /\ windows = 0

-----------------------------------------------------------------------------
(* Who may read a watch.                                                   *)

\* A fault: whoever it is shared with.
CanViewAny(v, w) == share[w].audience # "private"
\* The SDK's rule for a share row that is not the viewer's own.
CanView(v, w) ==
    \/ share[w].audience \in {"link", "public"}
    \/ share[w].audience = "people" /\ SignedIn(v) /\ v.subject \in share[w].members

\* watches.view: the owner by whatever token, others by the share row.
View(v, w) ==
    /\ watch[w].state = "live"
    /\ (v.subject # Nobody /\ v.subject = watch[w].owner) \/ CanView(v, w)

ApiShows(c, w) == LET v == Resolve(c, "api")
                  IN  v.kind # "refused" /\ Guard(v, "deals.watch.read") /\ View(v, w)

\* The page, or the gate of a watch shared with specific people, or nothing.
WatchPage(c, w) ==
    CASE View(Resolve(c, "form"), w)   -> "shown"
      [] share[w].audience = "people" /\ ~View(Resolve(c, "form"), w) -> "gate"
      [] OTHER                         -> "not found"

-----------------------------------------------------------------------------
(* Requests.                                                               *)

\* Slots are alike: a request takes the first that is free.
Free(s) == s \notin Busy /\ s = (CHOOSE t \in Slots : t \notin Busy) /\ requests < About.requests
Step(s, does, pc) == req[s].does = does /\ req[s].pc = pc
Go(s, r) == req' = [req EXCEPT ![s] = r]
Done(s) == Go(s, Idle)

\* A write past its deletion is the person's own doing.
TooLate(p) == IF p \in People /\ deletion[p] = "done" THEN {p} ELSE {}

\* The budget is charged before anything is asked of the viewer; a request
\* refused before that changes nothing and is no step.
Arrive(s, c, r, form) ==
    LET v == Resolve(c, r.door)
        a == Actor(v)
    IN  /\ Free(s)
        /\ v.kind # "refused" /\ Guard(v, r.cap)
        /\ r.budget # "" => used[<<a, r.budget>>] < BudgetLimit
        /\ requests' = requests + 1
        /\ used' = IF r.budget = "" THEN used ELSE [used EXCEPT ![<<a, r.budget>>] = @ + 1]
        /\ IF Admitted(v, r, form, SecretSet, life)
           THEN /\ Go(s, [Idle EXCEPT !.pc = "begun", !.does = r.does, !.cred = c, !.who = v.subject,
                                      !.form = IF r.door = "form" THEN form ELSE NoOne])
                /\ raced' = raced \cup TooLate(v.subject)
           ELSE UNCHANGED <<req, raced>>
        /\ UNCHANGED <<sharing, reports, life, deletion, scene, sheets, faults, windows>>

Handled == {"watch", "unwatch", "default", "report", "decide"}

\* Anything else goes on in OfferLifecycle or Votes.
Leave(s) ==
    /\ req[s].pc = "begun" /\ req[s].does \notin Handled
    /\ Done(s)
    /\ UNCHANGED <<sharing, reports, used, life, deletion, raced, bounds>>

-----------------------------------------------------------------------------
(* Watches (watches.js) and their audience (sharing.js).                   *)

Quiet == UNCHANGED <<reports, used, life, deletion, bounds>>

\* create counts, inserts, reads the default and registers the share row, each
\* a statement of its own.
CountWatches(s) ==
    /\ Step(s, "watch", "begun")
    /\ IF Cardinality(Live(req[s].who)) < WatchLimit THEN Go(s, [req[s] EXCEPT !.pc = "counted"])
       ELSE Done(s)
    /\ Quiet /\ UNCHANGED <<sharing, raced>>

InsertWatch(s) ==
    /\ Step(s, "watch", "counted")
    /\ \E w \in Watches : watch[w] = NoWatch
    /\ LET w == CHOOSE w \in Watches : watch[w] = NoWatch
       IN  /\ watch' = [watch EXCEPT ![w] = [state |-> "live", owner |-> req[s].who]]
           /\ Go(s, [req[s] EXCEPT !.pc = "inserted", !.on = w])
    /\ Quiet /\ UNCHANGED <<share, default, chosen, raced>>

ReadDefault(s) ==
    /\ Step(s, "watch", "inserted")
    /\ Go(s, [req[s] EXCEPT !.pc = "read", !.audience = DefaultOf(req[s].who)])
    /\ chosen' = [chosen EXCEPT ![req[s].on] = DefaultOf(req[s].who)]
    /\ Quiet /\ UNCHANGED <<watch, share, default, raced>>

Register(s) ==
    LET w == req[s].on
    IN  /\ Step(s, "watch", "read")
        /\ share' = [share EXCEPT ![w] = [audience |-> req[s].audience, members |-> {}]]
        /\ raced' = IF req[s].stale \/ watch[w].state # "live" THEN raced \cup {w} ELSE raced
        /\ Done(s)
        /\ Quiet /\ UNCHANGED <<watch, default, chosen>>

\* remove marks the watch, then forgets what it was shared with.
RemoveWatch(s) ==
    /\ Step(s, "unwatch", "begun")
    /\ \/ /\ Live(req[s].who) = {} /\ Done(s) /\ UNCHANGED watch
       \/ \E w \in Live(req[s].who) :
            /\ watch' = [watch EXCEPT ![w].state = "deleted"]
            /\ Go(s, [req[s] EXCEPT !.pc = "marked", !.on = w])
    /\ Quiet /\ UNCHANGED <<share, default, chosen, raced>>

Forget(s) ==
    /\ Step(s, "unwatch", "marked")
    /\ share' = [share EXCEPT ![req[s].on] = NoShare]
    /\ Done(s)
    /\ Quiet /\ UNCHANGED <<watch, default, chosen, raced>>

\* setDefault: the default, then with applyAll the shares there are.  It is meant
\* for all their watches, but a create that has read the default before will
\* register the old one.
SaveDefault(s, audience, all) ==
    /\ Step(s, "default", "begun")
    /\ default' = [default EXCEPT ![req[s].who] = audience]
    /\ Go(s, IF all THEN [req[s] EXCEPT !.pc = "saved", !.audience = audience] ELSE Idle)
    /\ Quiet /\ UNCHANGED <<watch, share, chosen, raced>>

ApplyAll(s) ==
    LET p == req[s].who
        theirs == {w \in Watches : watch[w].owner = p}
        shared == {w \in theirs : share[w].audience # "none"}
    IN  /\ Step(s, "default", "saved")
        /\ share' = [w \in Watches |-> IF w \in shared THEN [share[w] EXCEPT !.audience = req[s].audience]
                                       ELSE share[w]]
        /\ chosen' = [w \in Watches |-> IF w \in theirs THEN req[s].audience ELSE chosen[w]]
        /\ req' = [t \in Slots |-> IF t = s THEN Idle
                                   ELSE [req[t] EXCEPT !.stale = @ \/ (Step(t, "watch", "read") /\ req[t].who = p)]]
        /\ Quiet /\ UNCHANGED <<watch, default, raced>>

\* The owner's Share sheet, of one watch.
ShareSheet(w, audience, members) ==
    /\ sheets < About.sheets
    /\ watch[w].state = "live" /\ share[w].audience # "none"
    /\ watch[w].owner \notin members
    /\ share' = [share EXCEPT ![w] = [audience |-> audience, members |-> members]]
    /\ chosen' = [chosen EXCEPT ![w] = audience]
    /\ sheets' = sheets + 1
    /\ raced' = raced \cup UNION {TooLate(p) : p \in members}
    /\ UNCHANGED <<watch, default, reports, used, req, life, deletion, scene, requests, faults, windows>>

-----------------------------------------------------------------------------
(* Reports and decisions (flags.js).                                       *)

\* Inside its transaction, report looks for the open flag of its key; only a
\* new one is counted against the person's day.
LookForReport(s) ==
    LET p == req[s].who
    IN  /\ Step(s, "report", "begun")
        /\ CASE OpenBy(p) # {} ->
                  Go(s, [req[s] EXCEPT !.pc = "found", !.on = CHOOSE f \in OpenBy(p) : TRUE])
             [] OpenBy(p) = {} /\ hits[p] < FlagLimit -> Go(s, [req[s] EXCEPT !.pc = "new", !.key = p])
             [] OTHER -> Done(s)
        /\ Quiet /\ UNCHANGED <<sharing, raced>>

\* A vote that looks like a ring's raises the same kind of flag, in the vote's
\* own transaction.
RaiseRing(s) ==
    /\ Free(s) /\ About.rings
    /\ requests' = requests + 1
    /\ Go(s, IF OpenBy("ring") = {} THEN [Idle EXCEPT !.pc = "new", !.does = "ring", !.key = "ring"] ELSE Idle)
    /\ UNCHANGED <<sharing, reports, used, life, deletion, raced, scene, sheets, faults, windows>>

\* The flag found gets the new details, even if it has been decided since; its
\* status stays.
Touch(s) ==
    /\ Step(s, "report", "found")
    /\ Done(s)
    /\ Quiet /\ UNCHANGED <<sharing, raced>>

\* deal_flags_open lets one open flag of a key in: the second insert fails and
\* takes its transaction, for a ring the vote, with it.
InsertFlag(s) ==
    LET key == req[s].key
        f == CHOOSE f \in Flags : flag[f] = NoFlag
    IN  /\ req[s].pc = "new"
        /\ IF OpenBy(key) # {} THEN UNCHANGED <<flag, hits>>
           ELSE /\ \E g \in Flags : flag[g] = NoFlag
                /\ flag' = [flag EXCEPT ![f] = [key |-> key, reporter |-> req[s].who, status |-> "open"]]
                /\ hits' = IF req[s].does = "ring" THEN hits ELSE [hits EXCEPT ![req[s].who] = @ + 1]
        /\ Done(s)
        /\ UNCHANGED <<sharing, log, used, life, deletion, raced, bounds>>

\* A fault: the status is not asked.
Decidable(f) == flag[f].status # "none"
Undecided(f) == flag[f].status = "open"

\* resolve reads the flag, then writes by id whatever it has become.
ReadFlag(s, f, status) ==
    /\ Step(s, "decide", "begun")
    /\ flag[f] # NoFlag
    /\ Go(s, IF Undecided(f) THEN [req[s] EXCEPT !.pc = "read", !.on = f, !.status = status] ELSE Idle)
    /\ Quiet /\ UNCHANGED <<sharing, raced>>
NoSuchFlag(s) ==
    /\ Step(s, "decide", "begun")
    /\ Done(s)
    /\ Quiet /\ UNCHANGED <<sharing, raced>>

Decide(s) ==
    LET f == req[s].on
    IN  /\ Step(s, "decide", "read")
        /\ flag' = [flag EXCEPT ![f].status = req[s].status]
        /\ log' = [log EXCEPT ![f] = Append(@, req[s].status)]
        /\ req' = [t \in Slots |-> IF t = s THEN Idle
                                   ELSE [req[t] EXCEPT !.stale = @ \/ (Step(t, "decide", "read") /\ req[t].on = f)]]
        /\ raced' = IF req[s].stale THEN raced \cup {f} ELSE raced
        /\ UNCHANGED <<sharing, hits, used, life, deletion, bounds>>

-----------------------------------------------------------------------------
(* Deletion of an account, time and restarts.                              *)

Announce(p) ==
    /\ p \in About.deletions /\ deletion[p] = "none"
    /\ deletion' = [deletion EXCEPT ![p] = "sent"]
    /\ UNCHANGED <<sharing, reports, used, req, life, raced, bounds>>

\* A fault: members stay on other people's watches.
SharesKeptBy(p) == [w \in Watches |-> IF watch[w].owner = p THEN NoShare ELSE share[w]]
SharesLeftBy(p) ==
    [w \in Watches |-> IF watch[w].owner = p THEN NoShare ELSE [share[w] EXCEPT !.members = @ \ {p}]]

WatchesErasedOf(p) ==
    [w \in Watches |-> IF watch[w].owner = p THEN [watch[w] EXCEPT !.state = "erased"] ELSE watch[w]]
\* A report stays without its author, but the key of the flag names them.
ReportsLeftBy(p) ==
    [f \in Flags |-> IF flag[f].reporter = p THEN [flag[f] EXCEPT !.reporter = Nobody] ELSE flag[f]]

\* The receipt, everything erased and the answer to Network are one transaction.
\* Requests of the person that are under way write after it.
Deliver(p) ==
    /\ deletion[p] = "sent"
    /\ deletion' = [deletion EXCEPT ![p] = "done"]
    /\ watch' = WatchesErasedOf(p)
    /\ share' = SharesLeftBy(p)
    /\ default' = [default EXCEPT ![p] = "none"]
    /\ flag' = ReportsLeftBy(p)
    /\ hits' = [hits EXCEPT ![p] = 0]
    /\ raced' = IF \E s \in Busy : req[s].who = p THEN raced \cup {p} ELSE raced
    /\ UNCHANGED <<chosen, log, used, req, life, bounds>>

\* The answer does not reach Network: all of it rolls back, and Events delivers
\* again.
DeliveryFails(p) ==
    /\ deletion[p] = "sent" /\ faults < About.faults
    /\ faults' = faults + 1
    /\ UNCHANGED <<sharing, reports, used, req, life, deletion, raced, scene, requests, sheets, windows>>

\* Requests end where they are: a watch may stay without its share row, or a
\* removed one with it.  The counters start again.
Restart ==
    /\ faults < About.faults
    /\ faults' = faults + 1
    /\ life' = life + 1
    /\ used' = Unused
    /\ req' = [s \in Slots |-> Idle]
    /\ raced' = raced \cup {req[s].on : s \in {t \in Slots : Step(t, "unwatch", "marked")}}
    /\ UNCHANGED <<sharing, reports, deletion, scene, requests, sheets, windows>>

WindowPasses ==
    /\ windows < About.windows
    /\ windows' = windows + 1
    /\ used' = Unused
    /\ hits' = [p \in People |-> 0]
    /\ UNCHANGED <<sharing, flag, log, req, life, deletion, raced, scene, requests, sheets, faults>>

Next ==
    \/ \E s \in Slots :
        \/ \E c \in About.creds, r \in About.routes :
             IF r.door = "api" THEN Arrive(s, c, r, NoOne)
             ELSE \E of \in People, l \in 0 .. life : Arrive(s, c, r, [of |-> of, life |-> l])
        \/ Leave(s)
        \/ CountWatches(s) \/ InsertWatch(s) \/ ReadDefault(s) \/ Register(s)
        \/ RemoveWatch(s) \/ Forget(s)
        \/ \E audience \in About.audiences, all \in BOOLEAN : SaveDefault(s, audience, all)
        \/ ApplyAll(s)
        \/ LookForReport(s) \/ RaiseRing(s) \/ Touch(s) \/ InsertFlag(s)
        \/ \E f \in Flags, status \in {"resolved", "dismissed"} : ReadFlag(s, f, status)
        \/ NoSuchFlag(s) \/ Decide(s)
    \/ \E w \in Watches, audience \in About.audiences, members \in SUBSET People : ShareSheet(w, audience, members)
    \/ \E p \in People : Announce(p) \/ Deliver(p) \/ DeliveryFails(p)
    \/ Restart \/ WindowPasses

Spec == Init /\ [][Next]_vars
\* Events delivers until it is answered.
FairSpec == Spec /\ \A p \in People : WF_vars(Deliver(p))

-----------------------------------------------------------------------------
(* Properties.                                                             *)

Places == {"idle", "begun", "counted", "inserted", "read", "marked", "saved", "found", "new"}
Doings == {r.does : r \in Routes} \cup {"", "ring"}
Forms  == [of : People, life : Nat]
Requests ==
    [pc : Places, does : Doings, cred : Credentials \cup {NoOne}, form : Forms \cup {NoOne}, who : People \cup {Nobody},
     key : People \cup {"none", "ring"}, on : Watches \cup Flags \cup {NoOne},
     audience : Audiences \cup {"none"}, status : {"none", "resolved", "dismissed"},
     stale : BOOLEAN]

\* Every variable holds a value of its kind.
TypeOK ==
    /\ watch \in [Watches -> [state : {"none", "live", "deleted", "erased"}, owner : People \cup {Nobody}]]
    /\ share \in [Watches -> [audience : Audiences \cup {"none"}, members : SUBSET People]]
    /\ default \in [People -> Audiences \cup {"none"}]
    /\ flag \in [Flags -> [key : People \cup {"none", "ring"}, reporter : People \cup {Nobody},
                           status : {"none", "open", "resolved", "dismissed"}]]
    /\ log \in [Flags -> Seq({"resolved", "dismissed"})]
    /\ hits \in [People -> Nat]
    /\ used \in [Actors \X Budgets -> 0 .. BudgetLimit]
    /\ req \in [Slots -> Requests]
    /\ life \in Nat
    /\ deletion \in [People -> {"none", "sent", "done"}]
    /\ chosen \in [Watches -> Audiences]
    /\ raced \subseteq Watches \cup Flags \cup People

ActsFor(c, p) ==
    /\ p # Nobody /\ c.verified
    /\ \/ c.token = "user" /\ c.owner = p
       \/ c.token = "app" /\ ~c.sandbox /\ c.owner = p
       \/ c.token = "svc" /\ c.names = p
Moderates(c, cap) ==
    /\ c.verified
    /\ \/ c.token = "user" /\ (c.staff \/ c.owner \in Moderators)
       \/ c.token = "svc" /\ cap \in c.caps
       \/ c.token = "app" /\ ~c.sandbox /\ cap \in c.caps

\* Whatever the door and whatever the token names, an operation is under way
\* only for a person by who may act for them, or by a moderator where it takes
\* one (viewer.js 43, access.js 6); and a form only for the browser it was made
\* for, by the process that signed it (forms.js 6).
NothingWithoutRight ==
    \A s \in Busy :
        LET x == req[s]
        IN  /\ CASE x.does = "ring" -> TRUE
                 [] x.does \in {"merge", "unmerge"} -> Moderates(x.cred, "deals.offer.merge")
                 [] x.does \in {"disable", "enable", "review", "decide"} ->
                        Moderates(x.cred, "deals.offer.moderate")
                 [] x.does \in {"update", "expire"} ->
                        Moderates(x.cred, "deals.offer.moderate") \/ ActsFor(x.cred, Poster)
                 [] x.does = "product" /\ x.who = Nobody -> x.cred.verified /\ x.cred.token # "user"
                 [] OTHER -> ActsFor(x.cred, x.who)
            /\ x.form # NoOne => /\ x.cred.token = "user" /\ x.form.of = x.cred.owner
                                 /\ SecretSet \/ x.form.life = life

\* "A page form and the API route that do the same thing share one budget"
\* (actor-limits.js 58): who may do an operation no more by one of its routes
\* may not by another.  False of expire.
OneBudgetAnOperation ==
    \A r, t \in Routes, a \in Actors :
        r.does = t.does /\ "" \notin {r.budget, t.budget} =>
            (used[<<a, r.budget>>] = BudgetLimit <=> used[<<a, t.budget>>] = BudgetLimit)

CanRead(c, w) == ApiShows(c, w) \/ WatchPage(c, w) = "shown"
MayRead(c, w) ==
    \/ ActsFor(c, watch[w].owner)
    \/ chosen[w] \in {"link", "public"}
    \/ chosen[w] = "people" /\ c.token = "user" /\ \E p \in share[w].members : ActsFor(c, p)

\* A watch is read by whom its owner chose, when it was made or since, through
\* either door, and has that audience; one removed answers as if it never was
\* (sharing.js 6, 163).  Unless a change of all of them overtook its making, or
\* its removal was cut off or overtook it.
AudienceAsChosen ==
    \A w \in Watches \ raced :
        /\ watch[w].state = "live" =>
             /\ \A c \in About.creds : CanRead(c, w) => MayRead(c, w)
             /\ share[w].audience \in {"none", chosen[w]}
        /\ watch[w].state \in {"deleted", "erased"} /\ (\A s \in Slots : req[s].on # w) =>
             \A c \in About.creds : WatchPage(c, w) = "not found"

\* A key has one open flag at most (flags.js 5), a flag stands as its last
\* logged decision left it, and is decided once, unless a second moderator had
\* read it before the first decided.
DecidedOnce ==
    /\ \A f, g \in Flags : flag[f].status = "open" /\ flag[g].status = "open" /\ flag[f].key = flag[g].key => f = g
    /\ \A f \in Flags : flag[f] # NoFlag =>
         /\ flag[f].status = IF log[f] = <<>> THEN "open" ELSE log[f][Len(log[f])]
         /\ f \notin raced => Len(log[f]) <= 1

Gone(p) ==
    /\ \A w \in Watches : watch[w].owner = p => watch[w].state = "erased" /\ share[w] = NoShare
    /\ \A w \in Watches : p \notin share[w].members
    /\ default[p] = "none" /\ hits[p] = 0
    /\ \A f \in Flags : flag[f].reporter # p

\* Once Network announces a deletion nothing in these tables names the person
\* for good (account-data.js 6), except in the keys of their flags, whatever fails on the
\* way; unless they, or who shares with them, write while it is done or after.
ErasedInTheEnd ==
    \A p \in People : deletion[p] = "sent" ~> [](p \in raced \/ Gone(p))
=============================================================================
