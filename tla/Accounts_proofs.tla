--------------------------- MODULE Accounts_proofs ---------------------------
(***************************************************************************)
(* Theorems about Accounts, for any people, tokens, watches, flags, limits *)
(* and scenes: types, rights, one decision for each flag, and who reads a  *)
(* watch.                                                                  *)
(***************************************************************************)
EXTENDS Accounts, TLAPS

-----------------------------------------------------------------------------
(* What the rules of access allow (Access).                                *)

Stewarded == {"disable", "enable", "review", "decide"}
Merging   == {"merge", "unmerge"}
Editing   == {"update", "expire"}

\* What each operation asks of the viewer, whatever its door.
Asks(r) ==
    /\ r.does \in Merging => r.need \in {"merger", "staff"}
    /\ r.does \in Stewarded => r.need \in {"moderator", "staff"}
    /\ r.does \in Editing => r.need \in {"editor", "staff"}
    /\ r.does = "product" => r.need = "someone"
    /\ r.does \notin Merging \cup Stewarded \cup Editing \cup {"product"} => r.need = "subject"

Own == {"submit", "observe", "vote", "unvote", "report", "comment", "watch", "unwatch", "default"}
Operations == Merging \cup Stewarded \cup Editing \cup Own \cup {"product"}

\* The table of routes, by operation.
Fits(r) ==
    /\ r.door \in {"api", "form"}
    /\ \/ r.does \in Merging /\ r.need \in {"merger", "staff"}
       \/ r.does \in Stewarded /\ r.need \in {"moderator", "staff"}
       \/ r.does \in Editing /\ r.need \in {"editor", "staff"}
       \/ r.does = "product" /\ r.need = "someone"
       \/ r.does \in Own /\ r.need = "subject"

LEMMA RouteFits == ASSUME NEW r \in Routes PROVE Fits(r)
<1> DEFINE M == "deals.offer.moderate"
<1> USE DEF Fits, Own, Merging, Stewarded, Editing
<1>1. CASE r \in FlagRoute
  <2>1. r = Api("decide", M, M, "moderator")
    BY <1>1, Zenon DEF FlagRoute
  <2> QED BY <2>1 DEF Api
<1>2. CASE r \in ProductRoute
  <2>1. r = Api("product", "deals.product.resolve", "deals.product.resolve", "someone")
    BY <1>2, Zenon DEF ProductRoute
  <2> QED BY <2>1 DEF Api
<1>3. CASE r \in WatchRoutes
  <2>1. CASE r = Api("watch", "deals.watch.create", "deals.watch", "subject")
    BY <2>1 DEF Api
  <2>2. CASE r = Api("unwatch", "deals.watch.delete", "deals.watch", "subject")
    BY <2>2 DEF Api
  <2> QED BY <1>3, <2>1, <2>2, Zenon DEF WatchRoutes
<1>4. CASE r \in WatchForms
  <2>1. PICK does \in {"watch", "unwatch"} : r = Form(does, "deals.watch", "subject")
    BY <1>4, Zenon DEF WatchForms
  <2> QED BY <2>1 DEF Form
<1>5. CASE r \in ModOfferForms \cup ModFlagForms
  <2>1. PICK does \in {"merge", "unmerge", "disable", "enable", "review", "expire", "decide"} : r = Form(does, M, "staff")
    BY <1>5, Zenon DEF ModOfferForms, ModFlagForms
  <2> QED BY <2>1 DEF Form
<1>6. CASE r \in SubmitForm \cup DefaultsForm
  <2>1. CASE r = Form("submit", "deals.offer.submit", "subject")
    BY <2>1 DEF Form
  <2>2. CASE r = Form("default", "", "subject")
    BY <2>2 DEF Form
  <2> QED BY <1>6, <2>1, <2>2 DEF SubmitForm, DefaultsForm
<1>7. CASE r \in DealForms
  <2>1. CASE \E does \in {"vote", "unvote"} : r = Form(does, "deals.vote", "subject")
    <3>1. PICK does \in {"vote", "unvote"} : r = Form(does, "deals.vote", "subject")
      BY <2>1
    <3> QED BY <3>1 DEF Form
  <2>2. CASE r = Form("observe", "deals.offer.observe", "subject")
    BY <2>2 DEF Form
  <2>3. CASE r = Form("report", "deals.flag.create", "subject")
    BY <2>3 DEF Form
  <2>4. CASE r = Form("expire", "deals.offer.update", "editor")
    BY <2>4 DEF Form
  <2>5. CASE r = Form("comment", "deals.comment.create", "subject")
    BY <2>5 DEF Form
  <2> QED BY <1>7, <2>1, <2>2, <2>3, <2>4, <2>5, Zenon DEF DealForms
<1>8. CASE r \in OfferRoutes
  <2>1. CASE r = Api("submit", "deals.offer.submit", "deals.offer.submit", "subject")
    BY <2>1 DEF Api
  <2>2. CASE r = Api("update", "deals.offer.update", "deals.offer.update", "editor")
    BY <2>2 DEF Api
  <2>3. CASE r = Api("observe", "deals.offer.update", "deals.offer.observe", "subject")
    BY <2>3 DEF Api
  <2>4. CASE r = Api("expire", "deals.offer.expire", "deals.offer.update", "editor")
    BY <2>4 DEF Api
  <2>5. CASE r = Api("vote", "deals.vote.set", "deals.vote", "subject")
    BY <2>5 DEF Api
  <2>6. CASE r = Api("unvote", "deals.vote.remove", "deals.vote", "subject")
    BY <2>6 DEF Api
  <2>7. CASE r = Api("report", "deals.flag.create", "deals.flag.create", "subject")
    BY <2>7 DEF Api
  <2>8. CASE \E does \in {"merge", "unmerge"} : r = Api(does, "deals.offer.merge", M, "merger")
    BY <2>8 DEF Api
  <2>9. CASE \E does \in {"disable", "enable", "review"} : r = Api(does, M, M, "moderator")
    BY <2>9 DEF Api
  <2> QED BY <1>8, <2>1, <2>2, <2>3, <2>4, <2>5, <2>6, <2>7, <2>8, <2>9, Zenon DEF OfferRoutes
<1> QED
  BY <1>1, <1>2, <1>3, <1>4, <1>5, <1>6, <1>7, <1>8, Zenon DEF Routes

\* Every route asks what its operation asks.
LEMMA RouteIsItsOperation ==
    ASSUME NEW r \in Routes
    PROVE  Asks(r) /\ r.does \in Operations /\ r.door \in {"api", "form"}
<1>1. Fits(r)
  BY RouteFits
<1>2. Asks(r)
  BY <1>1 DEF Fits, Asks, Own, Merging, Stewarded, Editing
<1>3. r.does \in Operations
  BY <1>1 DEF Fits, Operations
<1> QED BY <1>1, <1>2, <1>3 DEF Fits

-----------------------------------------------------------------------------
(* Whom a viewer speaks for.                                               *)

Viewer == [kind : {"anonymous", "refused", "user", "service"}, subject : People \cup {Nobody},
           staff : BOOLEAN, caps : SUBSET Caps, principal : {"visitor", "svc", "app"}]

Caller(k, p, st, cs, pr) == [kind |-> k, subject |-> p, staff |-> st, caps |-> cs, principal |-> pr]

LEMMA CallerIsViewer ==
    ASSUME NEW k \in {"anonymous", "refused", "user", "service"}, NEW p \in People \cup {Nobody},
           NEW st \in BOOLEAN, NEW cs \in SUBSET Caps, NEW pr \in {"visitor", "svc", "app"}
    PROVE  /\ Caller(k, p, st, cs, pr) \in Viewer
           /\ Caller(k, p, st, cs, pr).kind = k /\ Caller(k, p, st, cs, pr).subject = p
           /\ Caller(k, p, st, cs, pr).staff = st /\ Caller(k, p, st, cs, pr).caps = cs
  BY DEF Caller, Viewer

\* A viewer is who the token says, and has the rights it says.
LEMMA ViewerOfToken ==
    ASSUME NEW c \in Credentials, NEW door \in {"api", "form"}
    PROVE  LET v == Resolve(c, door)
           IN  /\ v \in Viewer
               /\ v.subject # Nobody => ActsFor(c, v.subject)
               /\ \A cap \in Caps : v.kind # "refused" /\ IsModerator(v, cap) => Moderates(c, cap)
               /\ v.kind = "user" => c.token = "user" /\ v.subject = c.owner
               /\ v.kind = "service" => c.verified /\ c.token \in {"svc", "app"}
<1> DEFINE v == Resolve(c, door)
           Right(x) == /\ x \in Viewer
                       /\ x.subject # Nobody => ActsFor(c, x.subject)
                       /\ \A cap \in Caps : x.kind # "refused" /\ IsModerator(x, cap) => Moderates(c, cap)
                       /\ x.kind = "user" => c.token = "user" /\ x.subject = c.owner
                       /\ x.kind = "service" => c.verified /\ c.token \in {"svc", "app"}
<1> SUFFICES Right(v) OBVIOUS
<1>1. Right(Anonymous) /\ Right(Refused)
  BY DEF Anonymous, Refused, Unknown, Viewer, IsModerator, IsStaff
<1>2. CASE c.token = "user"
  <2>1. v = FromUserToken(c)
    BY <1>2, Zenon DEF Resolve
  <2>2. CASE ~c.verified
    BY <1>1, <2>1, <2>2, Zenon DEF FromUserToken
  <2>3. CASE c.verified
    <3> DEFINE st == c.staff \/ c.owner \in Moderators
    <3>1. v = Caller("user", c.owner, st, {}, "visitor")
      BY <2>1, <2>3, Zenon DEF FromUserToken, Caller
    <3>2. st \in BOOLEAN /\ c.owner \in People \cup {Nobody} /\ c.caps \subseteq Caps
      BY Zenon DEF Credentials
    <3> HIDE DEF st, v
    <3>3. v \in Viewer /\ v.kind = "user" /\ v.subject = c.owner /\ v.staff = st
      BY <3>1, <3>2, CallerIsViewer
    <3>4. c.owner # Nobody => ActsFor(c, c.owner)
      BY <1>2, <2>3 DEF ActsFor
    <3>5. st => \A cap \in Caps : Moderates(c, cap)
      BY <1>2, <2>3, Zenon DEF Moderates, st
    <3>6. \A cap \in Caps : IsModerator(v, cap) => Moderates(c, cap)
      BY <3>3, <3>5, "user" # "service", Zenon DEF IsModerator, IsStaff
    <3> QED
      BY <1>2, <3>3, <3>4, <3>6
  <2> QED BY <2>2, <2>3
<1>3. CASE c.token \in {"svc", "app"}
  <2>1. v = Anonymous \/ v = FromServiceToken(c)
    BY <1>3, Zenon DEF Resolve
  <2> DEFINE p == IF c.names # Nobody THEN c.names ELSE IF c.token = "app" THEN c.owner ELSE Nobody
             pr == IF c.token = "svc" /\ c.relays THEN "visitor" ELSE c.token
  <2>2. CASE FromServiceToken(c) = Refused
    BY <1>1, <2>1, <2>2, Zenon
  <2>3. CASE FromServiceToken(c) # Refused
    <3>1. /\ c.verified /\ FromServiceToken(c) = Caller("service", p, FALSE, c.caps, pr)
          /\ c.token = "app" => ~c.sandbox /\ c.names \in {Nobody, c.owner}
      BY <2>3, Zenon DEF FromServiceToken, Principal, Caller
    <3>2. p \in People \cup {Nobody} /\ pr \in {"visitor", "svc", "app"} /\ c.caps \in SUBSET Caps
      BY <1>3 DEF Credentials
    <3>3. p # Nobody => ActsFor(c, p)
      BY <1>3, <3>1 DEF ActsFor
    <3>4. \A cap \in c.caps : Moderates(c, cap)
      BY <1>3, <3>1 DEF Moderates
    <3> HIDE DEF p, pr
    <3>5. Right(FromServiceToken(c))
      <4> DEFINE x == Caller("service", p, FALSE, c.caps, pr)
      <4>1. x \in Viewer /\ x.kind = "service" /\ x.subject = p /\ x.staff = FALSE /\ x.caps = c.caps
        BY <3>2 DEF Caller, Viewer
      <4> HIDE DEF x
      <4>2. Right(x)
        BY <1>3, <3>1, <3>3, <3>4, <4>1 DEF IsModerator, IsStaff
      <4> QED BY <3>1, <4>2, Zenon DEF x
    <3> QED BY <1>1, <2>1, <3>5, Zenon
  <2> QED BY <2>2, <2>3
<1>4. CASE c.token = "none"
  BY <1>4, <1>1, Zenon DEF Resolve
<1>5. c.token \in {"none", "user", "svc", "app"}
  BY Zenon DEF Credentials
<1> QED
  BY <1>2, <1>3, <1>4, <1>5

-----------------------------------------------------------------------------
(* What a request holds at each of its steps.                              *)

\* Who began an operation may: the rights of NothingWithoutRight, by operation.
Entitled(x, now) ==
    /\ x.does \in Merging => Moderates(x.cred, "deals.offer.merge")
    /\ x.does \in Stewarded => Moderates(x.cred, "deals.offer.moderate")
    /\ x.does \in Editing => Moderates(x.cred, "deals.offer.moderate") \/ ActsFor(x.cred, Poster)
    /\ x.does = "product" /\ x.who = Nobody => x.cred.verified /\ x.cred.token # "user"
    /\ x.does \notin Merging \cup Stewarded \cup Editing \cup {"product", "ring"} => x.who # Nobody
    /\ x.does \notin Merging \cup Stewarded \cup Editing \cup {"ring"} /\ x.who # Nobody => ActsFor(x.cred, x.who)
    /\ x.form # NoOne => /\ x.cred.token = "user" /\ x.form.of = x.cred.owner
                         /\ SecretSet \/ x.form.life = now

\* What it has read by then is what it goes on to use.
Prepared(x) ==
    /\ x.does = "watch" /\ x.pc \in {"inserted", "read"} => x.on \in Watches
    /\ x.does = "watch" /\ x.pc = "read" => x.audience \in Audiences
    /\ x.does = "unwatch" /\ x.pc = "marked" => x.on \in Watches
    /\ x.does = "default" /\ x.pc = "saved" => x.audience \in Audiences
    /\ x.does = "decide" /\ x.pc = "read" => x.on \in Flags /\ x.status \in {"resolved", "dismissed"}
    /\ x.pc = "new" => x.does \in {"report", "ring"} /\ x.key \in People \cup {"ring"}

Held(x, now) == x \in Requests /\ (x.pc # "idle" => Entitled(x, now)) /\ Prepared(x)

Inv ==
    /\ TypeOK
    /\ scene \in DOMAIN Scenes
    /\ \A s \in Slots : Held(req[s], life)

LEMMA IdleHolds ==
    ASSUME NEW now
    PROVE  Held(Idle, now) /\ Idle.pc = "idle" /\ Idle.form = NoOne /\ Idle.who = Nobody
  BY DEF Idle, Held, Requests, Prepared, Places, Doings

\* A request that keeps what it came with keeps its rights.
LEMMA SameCaller ==
    ASSUME NEW now, NEW x, NEW y, Entitled(x, now),
           y.does = x.does, y.cred = x.cred, y.who = x.who, y.form = x.form
    PROVE  Entitled(y, now)
  BY DEF Entitled

LEMMA OneMoves ==
    ASSUME Inv, NEW s \in Slots, NEW y, Held(y, life), Go(s, y), life' = life
    PROVE  req' \in [Slots -> Requests] /\ \A t \in Slots : Held(req'[t], life')
  BY DEF Inv, TypeOK, Go, Held

\* One is done, or goes on; the others may have been overtaken.
LEMMA OthersOvertaken ==
    ASSUME Inv, NEW s \in Slots, NEW y, Held(y, life), NEW b \in [Slots -> BOOLEAN],
           req' = [t \in Slots |-> IF t = s THEN y ELSE [req[t] EXCEPT !.stale = b[t]]],
           life' = life
    PROVE  req' \in [Slots -> Requests] /\ \A t \in Slots : Held(req'[t], life')
<1>1. ASSUME NEW t \in Slots
      PROVE  Held([req[t] EXCEPT !.stale = b[t]], life)
  <2> DEFINE x == req[t]
             z == [x EXCEPT !.stale = b[t]]
  <2>1. x \in Requests /\ Held(x, life)
    BY DEF Inv, TypeOK
  <2>2. /\ z \in Requests /\ z.does = x.does /\ z.cred = x.cred /\ z.who = x.who /\ z.form = x.form
        /\ z.pc = x.pc /\ z.on = x.on /\ z.audience = x.audience /\ z.status = x.status /\ z.key = x.key
    BY <2>1 DEF Requests
  <2> HIDE DEF x, z
  <2>3. z.pc # "idle" => Entitled(z, life)
    BY <2>1, <2>2, SameCaller DEF Held
  <2>4. Prepared(z)
    BY <2>1, <2>2 DEF Held, Prepared
  <2> QED BY <2>2, <2>3, <2>4 DEF Held, x, z
<1>2. \A t \in Slots : Held(req'[t], life)
  BY <1>1
<1> QED
  BY <1>2 DEF Held

\* Who is let in to an operation may do it: its gate, the form's check and the
\* viewer's rights say what Entitled asks.
LEMMA AdmittedIsEntitled ==
    ASSUME NEW c \in Credentials, NEW r \in Routes, NEW form, NEW now, NEW y,
           Resolve(c, r.door).kind # "refused",
           Admitted(Resolve(c, r.door), r, form, SecretSet, now),
           y.does = r.does, y.cred = c, y.who = Resolve(c, r.door).subject,
           y.form = IF r.door = "form" THEN form ELSE NoOne
    PROVE  Entitled(y, now)
<1> DEFINE v == Resolve(c, r.door)
<1>1. Asks(r) /\ r.does \in Operations /\ r.door \in {"api", "form"}
  BY RouteIsItsOperation
<1>2. /\ v \in Viewer
      /\ v.subject # Nobody => ActsFor(c, v.subject)
      /\ \A cap \in Caps : IsModerator(v, cap) => Moderates(c, cap)
      /\ v.kind = "user" => c.token = "user" /\ v.subject = c.owner
      /\ v.kind = "service" => c.verified /\ c.token \in {"svc", "app"}
  BY <1>1, ViewerOfToken
<1> HIDE DEF v
<1>3. Passes(v, r.need)
  BY DEF Admitted, v
<1>4. {"deals.offer.moderate", "deals.offer.merge"} \subseteq Caps
  BY DEF Caps
<1>5. r.need = "staff" => \A cap \in Caps : Moderates(c, cap)
  BY <1>2, <1>3, Zenon DEF Passes, IsModerator
<1>6. r.need = "merger" => Moderates(c, "deals.offer.merge")
  BY <1>2, <1>3, <1>4, Zenon DEF Passes
<1>7. r.need = "moderator" => Moderates(c, "deals.offer.moderate")
  BY <1>2, <1>3, <1>4, Zenon DEF Passes
<1>8. r.need = "editor" => Moderates(c, "deals.offer.moderate") \/ ActsFor(c, Poster)
  <2>1. r.need = "editor" => CanEdit(v)
    BY <1>3, Zenon DEF Passes
  <2> QED BY <1>2, <1>4, <2>1 DEF CanEdit
<1>9. r.need = "someone" => v.subject # Nobody \/ (c.verified /\ c.token # "user")
  <2>1. r.need = "someone" => v.subject # Nobody \/ v.kind = "service"
    BY <1>3, Zenon DEF Passes
  <2> QED BY <1>2, <2>1
<1>10. r.need = "subject" => v.subject # Nobody
  BY <1>3, Zenon DEF Passes, NeedSubject
<1>11. y.form # NoOne => c.token = "user" /\ y.form.of = c.owner /\ (SecretSet \/ y.form.life = now)
  BY <1>2 DEF Admitted, SignedIn, FormOk, v
<1>12. y.does = r.does /\ y.cred = c /\ y.who = v.subject
  BY DEF v
<1> QED
  BY <1>1, <1>2, <1>4, <1>5, <1>6, <1>7, <1>8, <1>9, <1>10, <1>11, <1>12 DEF Asks, Entitled

\* The request Arrive puts in a slot.
LEMMA BegunHolds ==
    ASSUME NEW c \in Credentials, NEW r \in Routes, NEW form \in Forms \cup {NoOne}, NEW now,
           Resolve(c, r.door).kind # "refused",
           Admitted(Resolve(c, r.door), r, form, SecretSet, now)
    PROVE  Held([Idle EXCEPT !.pc = "begun", !.does = r.does, !.cred = c, !.who = Resolve(c, r.door).subject,
                             !.form = IF r.door = "form" THEN form ELSE NoOne], now)
<1> DEFINE who == Resolve(c, r.door).subject
           kept == IF r.door = "form" THEN form ELSE NoOne
           y == [Idle EXCEPT !.pc = "begun", !.does = r.does, !.cred = c, !.who = who, !.form = kept]
<1>1. Idle \in Requests
  BY IdleHolds DEF Held
<1>2. who \in People \cup {Nobody}
  BY ViewerOfToken, RouteIsItsOperation DEF Viewer
<1>3. kept \in Forms \cup {NoOne} /\ r.does \in Doings
  BY DEF Doings
<1> HIDE DEF who, kept
<1>0. "begun" \in Places
  BY DEF Places
<1>4. /\ y \in Requests /\ y.pc = "begun" /\ y.does = r.does /\ y.cred = c /\ y.who = who /\ y.form = kept
  BY <1>1, <1>2, <1>3, <1>0, ZenonT(30) DEF Requests
<1> HIDE DEF y
<1>5. Entitled(y, now)
  BY <1>4, AdmittedIsEntitled DEF who, kept
<1>6. Prepared(y)
  BY <1>4 DEF Prepared
<1> QED
  BY <1>4, <1>5, <1>6 DEF Held, y, who, kept

\* What requests and time do to the counters.
LEMMA ActorOfViewer ==
    ASSUME NEW v \in Viewer
    PROVE  Actor(v) \in Actors
  BY DEF Viewer, Actor, Actors

LEMMA UnusedType == Unused \in [Actors \X Budgets -> 0 .. BudgetLimit]
  BY AccountsAssumption DEF Unused

LEMMA ScenesOf ==
    ASSUME Inv
    PROVE  /\ About.creds \subseteq Credentials /\ About.routes \subseteq Routes
           /\ About.audiences \subseteq Audiences /\ About.deletions \subseteq People
  BY AccountsAssumption DEF Inv, About

LEMMA ArriveKeeps ==
    ASSUME Inv, NEW s \in Slots, NEW c \in Credentials, NEW r \in Routes,
           NEW form \in Forms \cup {NoOne}, Arrive(s, c, r, form)
    PROVE  Inv'
<1> DEFINE v == Resolve(c, r.door)
           y == [Idle EXCEPT !.pc = "begun", !.does = r.does, !.cred = c, !.who = v.subject,
                             !.form = IF r.door = "form" THEN form ELSE NoOne]
<1>1. /\ v.kind # "refused"
      /\ r.budget # "" => used[<<Actor(v), r.budget>>] < BudgetLimit
      /\ used' = IF r.budget = "" THEN used ELSE [used EXCEPT ![<<Actor(v), r.budget>>] = @ + 1]
      /\ IF Admitted(v, r, form, SecretSet, life)
         THEN Go(s, y) /\ raced' = raced \cup TooLate(v.subject)
         ELSE UNCHANGED <<req, raced>>
      /\ UNCHANGED <<sharing, reports, life, deletion, scene>>
  BY DEF Arrive
<1>2. v \in Viewer
  BY ViewerOfToken, RouteIsItsOperation
<1> HIDE DEF v
<1>3. used' \in [Actors \X Budgets -> 0 .. BudgetLimit]
  <2>1. CASE r.budget = ""
    BY <1>1, <2>1 DEF Inv, TypeOK
  <2>2. CASE r.budget # ""
    <3>1. <<Actor(v), r.budget>> \in Actors \X Budgets
      BY <1>2, <2>2, ActorOfViewer DEF Budgets
    <3> DEFINE k == <<Actor(v), r.budget>>
    <3>2. k \in Actors \X Budgets /\ used[k] < BudgetLimit /\ used' = [used EXCEPT ![k] = used[k] + 1]
      BY <1>1, <2>2, <3>1
    <3> HIDE DEF k
    <3> QED BY <3>2, AccountsAssumption DEF Inv, TypeOK
  <2> QED BY <2>1, <2>2
<1>4. req' \in [Slots -> Requests] /\ \A t \in Slots : Held(req'[t], life')
  <2>1. CASE Admitted(v, r, form, SecretSet, life)
    <3>1. Held(y, life)
      BY <1>1, <2>1, BegunHolds DEF v
    <3> HIDE DEF y
    <3> QED BY <1>1, <2>1, <3>1, OneMoves
  <2>2. CASE ~Admitted(v, r, form, SecretSet, life)
    BY <1>1, <2>2 DEF Inv, TypeOK
  <2> QED BY <2>1, <2>2
<1> HIDE DEF y
<1>5. raced' \subseteq Watches \cup Flags \cup People
  <2>1. TooLate(v.subject) \subseteq People
    BY DEF TooLate
  <2>2. raced' \subseteq raced \cup TooLate(v.subject)
    BY <1>1
  <2> QED BY <2>1, <2>2 DEF Inv, TypeOK
<1> QED
  BY <1>1, <1>3, <1>4, <1>5 DEF Inv, TypeOK, sharing, reports

\* A request that goes on, and what it must have read for its next step.
LEMMA GoingOn ==
    ASSUME Inv, NEW s \in Slots, req[s].pc # "idle", NEW y \in Requests, Prepared(y),
           y.does = req[s].does, y.cred = req[s].cred, y.who = req[s].who, y.form = req[s].form
    PROVE  Held(y, life)
  BY SameCaller DEF Inv, Held

LEMMA WhoIsSomebody ==
    ASSUME Inv, NEW s \in Slots, req[s].pc # "idle",
           req[s].does \in {"watch", "unwatch", "default", "report"}
    PROVE  req[s].who \in People
<1>1. req[s] \in Requests /\ Entitled(req[s], life)
  BY DEF Inv, Held
<1>2. req[s].who # Nobody
  BY <1>1 DEF Entitled, Merging, Stewarded, Editing
<1> QED BY <1>1, <1>2 DEF Requests

LEMMA CountWatchesKeeps == ASSUME Inv, NEW s \in Slots, CountWatches(s) PROVE Inv'
<1> DEFINE y == [req[s] EXCEPT !.pc = "counted"]
<1>1. Held(y, life) /\ Held(Idle, life)
  <2>1. /\ req[s] \in Requests /\ req[s].pc = "begun" /\ req[s].does = "watch"
    BY DEF CountWatches, Step, Inv, TypeOK
  <2>2. /\ y \in Requests /\ y.pc = "counted" /\ y.does = "watch"
        /\ y.cred = req[s].cred /\ y.who = req[s].who /\ y.form = req[s].form
    BY <2>1 DEF Requests, Places
  <2> HIDE DEF y
  <2>3. Prepared(y)
    BY <2>2 DEF Prepared
  <2> QED BY <2>1, <2>2, <2>3, GoingOn, IdleHolds
<1> HIDE DEF y
<1>2. (Go(s, y) \/ Go(s, Idle)) /\ Quiet /\ UNCHANGED <<sharing, raced>>
  BY DEF CountWatches, Done, y
<1>3. req' \in [Slots -> Requests] /\ \A t \in Slots : Held(req'[t], life')
  BY <1>1, <1>2, OneMoves DEF Quiet
<1> QED
  BY <1>2, <1>3 DEF Inv, TypeOK, Quiet, sharing, reports, bounds

LEMMA InsertWatchKeeps == ASSUME Inv, NEW s \in Slots, InsertWatch(s) PROVE Inv'
<1>1. PICK w \in Watches : /\ watch' = [watch EXCEPT ![w] = [state |-> "live", owner |-> req[s].who]]
                           /\ Go(s, [req[s] EXCEPT !.pc = "inserted", !.on = w])
  BY DEF InsertWatch
<1> DEFINE y == [req[s] EXCEPT !.pc = "inserted", !.on = w]
<1>2. req[s] \in Requests /\ req[s].pc = "counted" /\ req[s].does = "watch" /\ req[s].who \in People
  BY WhoIsSomebody DEF InsertWatch, Step, Inv, TypeOK
<1>3. Held(y, life)
  <2>1. /\ y \in Requests /\ y.pc = "inserted" /\ y.does = "watch" /\ y.on = w
        /\ y.cred = req[s].cred /\ y.who = req[s].who /\ y.form = req[s].form
    BY <1>2 DEF Requests, Places
  <2> HIDE DEF y
  <2>2. Prepared(y)
    BY <2>1 DEF Prepared
  <2> QED BY <1>2, <2>1, <2>2, GoingOn
<1>4. Go(s, y) /\ Quiet /\ UNCHANGED <<share, default, chosen, raced>>
  BY <1>1 DEF InsertWatch
<1> HIDE DEF y
<1>5. req' \in [Slots -> Requests] /\ \A t \in Slots : Held(req'[t], life')
  BY <1>3, <1>4, OneMoves DEF Quiet
<1>6. watch' \in [Watches -> [state : {"none", "live", "deleted", "erased"}, owner : People \cup {Nobody}]]
  BY <1>1, <1>2 DEF Inv, TypeOK
<1> QED
  BY <1>4, <1>5, <1>6 DEF Inv, TypeOK, Quiet, reports, bounds

LEMMA DefaultType == ASSUME Inv, NEW p \in People PROVE DefaultOf(p) \in Audiences
  BY DEF Inv, TypeOK, DefaultOf, Audiences

LEMMA ReadDefaultKeeps == ASSUME Inv, NEW s \in Slots, ReadDefault(s) PROVE Inv'
<1> DEFINE a == DefaultOf(req[s].who)
           y == [req[s] EXCEPT !.pc = "read", !.audience = a]
<1>1. /\ req[s] \in Requests /\ req[s].pc = "inserted" /\ req[s].does = "watch" /\ req[s].who \in People
      /\ req[s].on \in Watches
  BY WhoIsSomebody DEF ReadDefault, Step, Inv, TypeOK, Held, Prepared
<1>2. a \in Audiences
  BY <1>1, DefaultType
<1>3. Go(s, y) /\ chosen' = [chosen EXCEPT ![req[s].on] = a] /\ Quiet /\ UNCHANGED <<watch, share, default, raced>>
  BY DEF ReadDefault
<1> HIDE DEF a
<1>4. Held(y, life)
  <2>1. /\ y \in Requests /\ y.pc = "read" /\ y.does = "watch" /\ y.on = req[s].on /\ y.audience = a
        /\ y.cred = req[s].cred /\ y.who = req[s].who /\ y.form = req[s].form
    BY <1>1, <1>2 DEF Requests, Places
  <2> HIDE DEF y
  <2>2. Prepared(y)
    BY <1>1, <1>2, <2>1 DEF Prepared
  <2> QED BY <1>1, <2>1, <2>2, GoingOn
<1> HIDE DEF y
<1>5. req' \in [Slots -> Requests] /\ \A t \in Slots : Held(req'[t], life')
  BY <1>3, <1>4, OneMoves DEF Quiet
<1> QED
  BY <1>1, <1>2, <1>3, <1>5 DEF Inv, TypeOK, Quiet, reports, bounds

LEMMA RegisterKeeps == ASSUME Inv, NEW s \in Slots, Register(s) PROVE Inv'
<1>1. req[s].pc = "read" /\ req[s].on \in Watches /\ req[s].audience \in Audiences
  BY DEF Register, Step, Inv, Held, Prepared
<1>2. /\ Go(s, Idle) /\ Quiet /\ UNCHANGED <<watch, default, chosen>>
      /\ share' = [share EXCEPT ![req[s].on] = [audience |-> req[s].audience, members |-> {}]]
      /\ raced' \subseteq raced \cup {req[s].on}
  BY DEF Register, Done
<1>3. req' \in [Slots -> Requests] /\ \A t \in Slots : Held(req'[t], life')
  BY <1>2, IdleHolds, OneMoves DEF Quiet
<1>4. share' \in [Watches -> [audience : Audiences \cup {"none"}, members : SUBSET People]]
  BY <1>1, <1>2 DEF Inv, TypeOK
<1> QED
  BY <1>1, <1>2, <1>3, <1>4 DEF Inv, TypeOK, Quiet, reports, bounds

LEMMA RemoveWatchKeeps == ASSUME Inv, NEW s \in Slots, RemoveWatch(s) PROVE Inv'
<1>1. req[s] \in Requests /\ req[s].pc = "begun" /\ req[s].does = "unwatch"
  BY DEF RemoveWatch, Step, Inv, TypeOK
<1>2. Quiet /\ UNCHANGED <<share, default, chosen, raced>>
  BY DEF RemoveWatch
<1>3. CASE Done(s) /\ UNCHANGED watch
  <2>1. req' \in [Slots -> Requests] /\ \A t \in Slots : Held(req'[t], life')
    BY <1>2, <1>3, IdleHolds, OneMoves DEF Quiet, Done
  <2> QED BY <1>2, <1>3, <2>1 DEF Inv, TypeOK, Quiet, reports, bounds
<1>4. CASE \E w \in Live(req[s].who) :
             /\ watch' = [watch EXCEPT ![w].state = "deleted"]
             /\ Go(s, [req[s] EXCEPT !.pc = "marked", !.on = w])
  <2>1. PICK w \in Watches : /\ watch' = [watch EXCEPT ![w].state = "deleted"]
                             /\ Go(s, [req[s] EXCEPT !.pc = "marked", !.on = w])
    BY <1>4 DEF Live
  <2> DEFINE y == [req[s] EXCEPT !.pc = "marked", !.on = w]
  <2>2. Held(y, life)
    <3>1. /\ y \in Requests /\ y.pc = "marked" /\ y.does = "unwatch" /\ y.on = w
          /\ y.cred = req[s].cred /\ y.who = req[s].who /\ y.form = req[s].form
      BY <1>1 DEF Requests, Places
    <3> HIDE DEF y
    <3>2. Prepared(y)
      BY <3>1 DEF Prepared
    <3> QED BY <1>1, <3>1, <3>2, GoingOn
  <2>3. Go(s, y)
    BY <2>1
  <2> HIDE DEF y
  <2>4. req' \in [Slots -> Requests] /\ \A t \in Slots : Held(req'[t], life')
    BY <1>2, <2>2, <2>3, OneMoves DEF Quiet
  <2>5. watch' \in [Watches -> [state : {"none", "live", "deleted", "erased"}, owner : People \cup {Nobody}]]
    <3>1. watch[w] \in [state : {"none", "live", "deleted", "erased"}, owner : People \cup {Nobody}]
      BY DEF Inv, TypeOK
    <3>2. [watch[w] EXCEPT !.state = "deleted"] \in
             [state : {"none", "live", "deleted", "erased"}, owner : People \cup {Nobody}]
      BY <3>1
    <3>3. watch' = [watch EXCEPT ![w] = [watch[w] EXCEPT !.state = "deleted"]]
      BY <2>1
    <3> QED BY <3>2, <3>3 DEF Inv, TypeOK
  <2> QED BY <1>2, <2>4, <2>5 DEF Inv, TypeOK, Quiet, reports, bounds
<1> QED BY <1>3, <1>4 DEF RemoveWatch

LEMMA ForgetKeeps == ASSUME Inv, NEW s \in Slots, Forget(s) PROVE Inv'
<1>1. /\ Go(s, Idle) /\ Quiet /\ UNCHANGED <<watch, default, chosen, raced>>
      /\ share' = [share EXCEPT ![req[s].on] = NoShare]
  BY DEF Forget, Done
<1>2. req' \in [Slots -> Requests] /\ \A t \in Slots : Held(req'[t], life')
  BY <1>1, IdleHolds, OneMoves DEF Quiet
<1>3. NoShare \in [audience : Audiences \cup {"none"}, members : SUBSET People]
  BY DEF NoShare
<1> QED
  BY <1>1, <1>2, <1>3 DEF Inv, TypeOK, Quiet, reports, bounds

LEMMA SaveDefaultKeeps ==
    ASSUME Inv, NEW s \in Slots, NEW audience \in Audiences, NEW all \in BOOLEAN, SaveDefault(s, audience, all)
    PROVE  Inv'
<1> DEFINE z == [req[s] EXCEPT !.pc = "saved", !.audience = audience]
           y == IF all THEN z ELSE Idle
<1>1. /\ req[s] \in Requests /\ req[s].pc = "begun" /\ req[s].does = "default" /\ req[s].who \in People
  BY WhoIsSomebody DEF SaveDefault, Step, Inv, TypeOK
<1>2. Quiet /\ UNCHANGED <<watch, share, chosen, raced>> /\ default' = [default EXCEPT ![req[s].who] = audience]
  BY DEF SaveDefault
<1>3. Held(z, life)
  <2>1. /\ z \in Requests /\ z.pc = "saved" /\ z.does = "default" /\ z.audience = audience
        /\ z.cred = req[s].cred /\ z.who = req[s].who /\ z.form = req[s].form
    BY <1>1 DEF Requests, Places
  <2> HIDE DEF z
  <2>2. Prepared(z)
    BY <2>1 DEF Prepared
  <2> QED BY <1>1, <2>1, <2>2, GoingOn
<1>4. Go(s, y)
  BY Zenon DEF SaveDefault
<1> HIDE DEF z
<1>5. Held(y, life)
  BY <1>3, IdleHolds
<1> HIDE DEF y
<1>6. req' \in [Slots -> Requests] /\ \A t \in Slots : Held(req'[t], life')
  BY <1>2, <1>4, <1>5, OneMoves DEF Quiet
<1> QED
  BY <1>1, <1>2, <1>6 DEF Inv, TypeOK, Quiet, reports, bounds

LEMMA ApplyAllKeeps == ASSUME Inv, NEW s \in Slots, ApplyAll(s) PROVE Inv'
<1> DEFINE b == [t \in Slots |-> req[t].stale \/ (Step(t, "watch", "read") /\ req[t].who = req[s].who)]
<1>1. req[s].audience \in Audiences
  BY DEF ApplyAll, Step, Inv, Held, Prepared
<1>2. Quiet /\ UNCHANGED <<watch, default, raced>>
  BY DEF ApplyAll
<1>3. req' = [t \in Slots |-> IF t = s THEN Idle ELSE [req[t] EXCEPT !.stale = b[t]]]
  BY Zenon DEF ApplyAll
<1>4. b \in [Slots -> BOOLEAN]
  BY Zenon
<1> HIDE DEF b
<1>5. req' \in [Slots -> Requests] /\ \A t \in Slots : Held(req'[t], life')
  <2>1. Held(Idle, life)
    BY IdleHolds
  <2> QED BY <1>2, <1>3, <1>4, <2>1, OthersOvertaken, ZenonT(30) DEF Quiet
<1>6. share' \in [Watches -> [audience : Audiences \cup {"none"}, members : SUBSET People]]
  <2> DEFINE shared == {w \in Watches : watch[w].owner = req[s].who /\ share[w].audience # "none"}
             row(w) == IF w \in shared THEN [share[w] EXCEPT !.audience = req[s].audience] ELSE share[w]
  <2>1. share' = [w \in Watches |-> row(w)]
    BY DEF ApplyAll
  <2>2. \A w \in Watches : row(w) \in [audience : Audiences \cup {"none"}, members : SUBSET People]
    <3> TAKE w \in Watches
    <3>1. share[w] \in [audience : Audiences \cup {"none"}, members : SUBSET People]
      BY DEF Inv, TypeOK
    <3>2. [share[w] EXCEPT !.audience = req[s].audience] \in
             [audience : Audiences \cup {"none"}, members : SUBSET People]
      BY <1>1, <3>1
    <3> QED BY <3>1, <3>2
  <2> QED BY <2>1, <2>2
<1>7. chosen' \in [Watches -> Audiences]
  BY <1>1 DEF ApplyAll, Inv, TypeOK
<1> QED
  BY <1>2, <1>5, <1>6, <1>7 DEF Inv, TypeOK, Quiet, reports, bounds

LEMMA ShareSheetKeeps ==
    ASSUME Inv, NEW w \in Watches, NEW audience \in Audiences, NEW members \in SUBSET People,
           ShareSheet(w, audience, members)
    PROVE  Inv'
<1>1. /\ share' = [share EXCEPT ![w] = [audience |-> audience, members |-> members]]
      /\ chosen' = [chosen EXCEPT ![w] = audience]
      /\ raced' = raced \cup UNION {TooLate(p) : p \in members}
      /\ UNCHANGED <<watch, default, reports, used, req, life, deletion, scene>>
  BY DEF ShareSheet
<1>2. \A p \in members : TooLate(p) \subseteq People
  BY DEF TooLate
<1>3. raced' \subseteq Watches \cup Flags \cup People
  BY <1>1, <1>2 DEF Inv, TypeOK
<1>4. share' \in [Watches -> [audience : Audiences \cup {"none"}, members : SUBSET People]]
  BY <1>1 DEF Inv, TypeOK
<1> QED
  BY <1>1, <1>3, <1>4 DEF Inv, TypeOK, reports

LEMMA LookForReportKeeps == ASSUME Inv, NEW s \in Slots, LookForReport(s) PROVE Inv'
<1> DEFINE p == req[s].who
           f == CHOOSE f \in OpenBy(p) : TRUE
           y == [req[s] EXCEPT !.pc = "found", !.on = f]
           z == [req[s] EXCEPT !.pc = "new", !.key = p]
<1>1. req[s] \in Requests /\ req[s].pc = "begun" /\ req[s].does = "report" /\ p \in People
  BY WhoIsSomebody DEF LookForReport, Step, Inv, TypeOK
<1>2. Quiet /\ UNCHANGED <<sharing, raced>>
  BY DEF LookForReport
<1>3. (OpenBy(p) # {} /\ Go(s, y)) \/ Go(s, z) \/ Go(s, Idle)
  BY Zenon DEF LookForReport, Done
<1>4. OpenBy(p) # {} => Held(y, life)
  <2> SUFFICES ASSUME OpenBy(p) # {} PROVE Held(y, life)
    OBVIOUS
  <2>1. f \in Flags
    BY DEF OpenBy
  <2> HIDE DEF f
  <2>2. /\ y \in Requests /\ y.pc = "found" /\ y.does = "report"
        /\ y.cred = req[s].cred /\ y.who = req[s].who /\ y.form = req[s].form
    BY <1>1, <2>1 DEF Requests, Places
  <2> HIDE DEF y
  <2>3. Prepared(y)
    BY <2>2 DEF Prepared
  <2> QED BY <1>1, <2>2, <2>3, GoingOn
<1>5. Held(z, life)
  <2>1. /\ z \in Requests /\ z.pc = "new" /\ z.does = "report" /\ z.key \in People
        /\ z.cred = req[s].cred /\ z.who = req[s].who /\ z.form = req[s].form
    BY <1>1 DEF Requests, Places
  <2> HIDE DEF z
  <2>2. Prepared(z)
    BY <2>1 DEF Prepared
  <2> QED BY <1>1, <2>1, <2>2, GoingOn
<1> HIDE DEF y, z
<1>6. req' \in [Slots -> Requests] /\ \A t \in Slots : Held(req'[t], life')
  BY <1>2, <1>3, <1>4, <1>5, IdleHolds, OneMoves DEF Quiet
<1> QED
  BY <1>2, <1>6 DEF Inv, TypeOK, Quiet, sharing, reports, bounds

LEMMA RaiseRingKeeps == ASSUME Inv, NEW s \in Slots, RaiseRing(s) PROVE Inv'
<1> DEFINE y == [Idle EXCEPT !.pc = "new", !.does = "ring", !.key = "ring"]
<1>1. /\ Go(s, y) \/ Go(s, Idle)
      /\ UNCHANGED <<sharing, reports, used, life, deletion, raced, scene>>
  BY DEF RaiseRing
<1>2. Held(y, life)
  <2>1. Idle \in Requests /\ Idle.form = NoOne
    BY IdleHolds DEF Held
  <2>2. /\ y \in Requests /\ y.pc = "new" /\ y.does = "ring" /\ y.key = "ring" /\ y.form = NoOne
    BY <2>1 DEF Requests, Places, Doings
  <2> HIDE DEF y
  <2>3. Prepared(y)
    BY <2>2 DEF Prepared
  <2>4. Entitled(y, life)
    BY <2>2 DEF Entitled, Merging, Stewarded, Editing
  <2> QED BY <2>2, <2>3, <2>4 DEF Held
<1> HIDE DEF y
<1>3. req' \in [Slots -> Requests] /\ \A t \in Slots : Held(req'[t], life')
  BY <1>1, <1>2, IdleHolds, OneMoves
<1> QED
  BY <1>1, <1>3 DEF Inv, TypeOK, sharing, reports

\* Leaving, a flag found again, a flag that is not there.
LEMMA EndingKeeps ==
    ASSUME Inv, NEW s \in Slots, Leave(s) \/ Touch(s) \/ NoSuchFlag(s)
    PROVE  Inv'
<1>1. Go(s, Idle) /\ UNCHANGED <<sharing, reports, used, life, deletion, raced, bounds>>
  BY DEF Leave, Touch, NoSuchFlag, Quiet, Done
<1>2. req' \in [Slots -> Requests] /\ \A t \in Slots : Held(req'[t], life')
  BY <1>1, IdleHolds, OneMoves
<1> QED
  BY <1>1, <1>2 DEF Inv, TypeOK, sharing, reports, bounds

LEMMA InsertFlagKeeps == ASSUME Inv, NEW s \in Slots, InsertFlag(s) PROVE Inv'
<1> DEFINE f == CHOOSE f \in Flags : flag[f] = NoFlag
           new == [key |-> req[s].key, reporter |-> req[s].who, status |-> "open"]
<1>1. /\ req[s] \in Requests /\ req[s].pc = "new" /\ req[s].does \in {"report", "ring"}
      /\ req[s].key \in People \cup {"ring"}
  BY DEF InsertFlag, Inv, TypeOK, Held, Prepared
<1>2. Go(s, Idle) /\ UNCHANGED <<sharing, log, used, life, deletion, raced, bounds>>
  BY DEF InsertFlag, Done
<1>3. req' \in [Slots -> Requests] /\ \A t \in Slots : Held(req'[t], life')
  BY <1>2, IdleHolds, OneMoves
<1>4. /\ flag' \in [Flags -> [key : People \cup {"none", "ring"}, reporter : People \cup {Nobody},
                             status : {"none", "open", "resolved", "dismissed"}]]
      /\ hits' \in [People -> Nat]
  <2>1. CASE OpenBy(req[s].key) # {}
    BY <2>1 DEF InsertFlag, Inv, TypeOK
  <2>2. CASE OpenBy(req[s].key) = {}
    <3>1. /\ flag' = [flag EXCEPT ![f] = new]
          /\ hits' = IF req[s].does = "ring" THEN hits ELSE [hits EXCEPT ![req[s].who] = hits[req[s].who] + 1]
          /\ f \in Flags
      BY <2>2 DEF InsertFlag
    <3>2. new \in [key : People \cup {"none", "ring"}, reporter : People \cup {Nobody},
                   status : {"none", "open", "resolved", "dismissed"}]
      BY <1>1 DEF Requests
    <3>3. req[s].does # "ring" => req[s].who \in People
      BY <1>1, WhoIsSomebody
    <3> HIDE DEF f, new
    <3>4. hits' \in [People -> Nat]
      BY <3>1, <3>3 DEF Inv, TypeOK
    <3> QED BY <3>1, <3>2, <3>4 DEF Inv, TypeOK
  <2> QED BY <2>1, <2>2
<1> QED
  BY <1>2, <1>3, <1>4 DEF Inv, TypeOK, sharing, bounds

LEMMA ReadFlagKeeps ==
    ASSUME Inv, NEW s \in Slots, NEW f \in Flags, NEW status \in {"resolved", "dismissed"}, ReadFlag(s, f, status)
    PROVE  Inv'
<1> DEFINE y == [req[s] EXCEPT !.pc = "read", !.on = f, !.status = status]
<1>1. /\ req[s] \in Requests /\ req[s].pc = "begun" /\ req[s].does = "decide"
      /\ Go(s, y) \/ Go(s, Idle)
      /\ Quiet /\ UNCHANGED <<sharing, raced>>
  BY DEF ReadFlag, Step, Inv, TypeOK
<1>2. Held(y, life)
  <2>1. /\ y \in Requests /\ y.pc = "read" /\ y.does = "decide" /\ y.on = f /\ y.status = status
        /\ y.cred = req[s].cred /\ y.who = req[s].who /\ y.form = req[s].form
    BY <1>1, ZenonT(30) DEF Requests, Places
  <2> HIDE DEF y
  <2>2. Prepared(y)
    BY <2>1 DEF Prepared
  <2> QED BY <1>1, <2>1, <2>2, GoingOn
<1> HIDE DEF y
<1>3. req' \in [Slots -> Requests] /\ \A t \in Slots : Held(req'[t], life')
  BY <1>1, <1>2, IdleHolds, OneMoves DEF Quiet
<1> QED
  BY <1>1, <1>3 DEF Inv, TypeOK, Quiet, sharing, reports, bounds

LEMMA DecideKeeps == ASSUME Inv, NEW s \in Slots, Decide(s) PROVE Inv'
<1> DEFINE f == req[s].on
           b == [t \in Slots |-> req[t].stale \/ (Step(t, "decide", "read") /\ req[t].on = f)]
<1>1. f \in Flags /\ req[s].status \in {"resolved", "dismissed"}
  BY DEF Decide, Step, Inv, Held, Prepared
<1>2. /\ flag' = [flag EXCEPT ![f].status = req[s].status]
      /\ log' = [log EXCEPT ![f] = Append(log[f], req[s].status)]
      /\ raced' \subseteq raced \cup {f}
      /\ UNCHANGED <<sharing, hits, used, life, deletion, bounds>>
  BY DEF Decide
<1>3. req' = [t \in Slots |-> IF t = s THEN Idle ELSE [req[t] EXCEPT !.stale = b[t]]]
  BY Zenon DEF Decide
<1>4. b \in [Slots -> BOOLEAN]
  BY Zenon
<1> HIDE DEF f, b
<1>5. req' \in [Slots -> Requests] /\ \A t \in Slots : Held(req'[t], life')
  <2>1. Held(Idle, life)
    BY IdleHolds
  <2> QED BY <1>2, <1>3, <1>4, <2>1, OthersOvertaken, ZenonT(30)
<1>6. flag' \in [Flags -> [key : People \cup {"none", "ring"}, reporter : People \cup {Nobody},
                          status : {"none", "open", "resolved", "dismissed"}]]
  <2>1. [flag[f] EXCEPT !.status = req[s].status] \in
           [key : People \cup {"none", "ring"}, reporter : People \cup {Nobody},
            status : {"none", "open", "resolved", "dismissed"}]
    <3>1. flag[f] \in [key : People \cup {"none", "ring"}, reporter : People \cup {Nobody},
                       status : {"none", "open", "resolved", "dismissed"}]
      BY <1>1 DEF Inv, TypeOK
    <3> QED BY <1>1, <3>1
  <2>2. flag' = [flag EXCEPT ![f] = [flag[f] EXCEPT !.status = req[s].status]]
    BY <1>2
  <2> QED BY <2>1, <2>2 DEF Inv, TypeOK
<1>7. log' \in [Flags -> Seq({"resolved", "dismissed"})]
  <2>1. Append(log[f], req[s].status) \in Seq({"resolved", "dismissed"})
    BY <1>1 DEF Inv, TypeOK
  <2> QED BY <1>2, <2>1 DEF Inv, TypeOK
<1> QED
  BY <1>1, <1>2, <1>5, <1>6, <1>7 DEF Inv, TypeOK, sharing, bounds

LEMMA DeliverKeeps == ASSUME Inv, NEW p \in People, Deliver(p) PROVE Inv'
<1>1. /\ deletion' = [deletion EXCEPT ![p] = "done"] /\ default' = [default EXCEPT ![p] = "none"]
      /\ hits' = [hits EXCEPT ![p] = 0] /\ raced' \subseteq raced \cup {p}
      /\ watch' = WatchesErasedOf(p) /\ share' = SharesLeftBy(p) /\ flag' = ReportsLeftBy(p)
      /\ UNCHANGED <<chosen, log, used, req, life, scene>>
  BY DEF Deliver, bounds
<1>2. watch' \in [Watches -> [state : {"none", "live", "deleted", "erased"}, owner : People \cup {Nobody}]]
  <2>1. \A w \in Watches : watch'[w] \in [state : {"none", "live", "deleted", "erased"}, owner : People \cup {Nobody}]
    <3> TAKE w \in Watches
    <3>1. watch[w] \in [state : {"none", "live", "deleted", "erased"}, owner : People \cup {Nobody}]
      BY DEF Inv, TypeOK
    <3>2. watch'[w] = IF watch[w].owner = p THEN [watch[w] EXCEPT !.state = "erased"] ELSE watch[w]
      BY <1>1 DEF WatchesErasedOf
    <3> QED BY <3>1, <3>2
  <2> QED BY <1>1, <2>1 DEF WatchesErasedOf
<1>3. share' \in [Watches -> [audience : Audiences \cup {"none"}, members : SUBSET People]]
  <2>1. \A w \in Watches : share'[w] \in [audience : Audiences \cup {"none"}, members : SUBSET People]
    <3> TAKE w \in Watches
    <3>1. share[w] \in [audience : Audiences \cup {"none"}, members : SUBSET People]
      BY DEF Inv, TypeOK
    <3>2. share'[w] = IF watch[w].owner = p THEN NoShare ELSE [share[w] EXCEPT !.members = share[w].members \ {p}]
      BY <1>1 DEF SharesLeftBy
    <3>3. NoShare \in [audience : Audiences \cup {"none"}, members : SUBSET People]
      BY DEF NoShare
    <3>4. [share[w] EXCEPT !.members = share[w].members \ {p}] \in
             [audience : Audiences \cup {"none"}, members : SUBSET People]
      BY <3>1
    <3> QED BY <3>2, <3>3, <3>4
  <2> QED BY <1>1, <2>1 DEF SharesLeftBy
<1>4. flag' \in [Flags -> [key : People \cup {"none", "ring"}, reporter : People \cup {Nobody},
                          status : {"none", "open", "resolved", "dismissed"}]]
  <2>1. \A f \in Flags : flag'[f] \in [key : People \cup {"none", "ring"}, reporter : People \cup {Nobody},
                                      status : {"none", "open", "resolved", "dismissed"}]
    <3> TAKE f \in Flags
    <3>1. flag[f] \in [key : People \cup {"none", "ring"}, reporter : People \cup {Nobody},
                       status : {"none", "open", "resolved", "dismissed"}]
      BY DEF Inv, TypeOK
    <3>2. flag'[f] = IF flag[f].reporter = p THEN [flag[f] EXCEPT !.reporter = Nobody] ELSE flag[f]
      BY <1>1 DEF ReportsLeftBy
    <3> QED BY <3>1, <3>2
  <2> QED BY <1>1, <2>1 DEF ReportsLeftBy
<1> QED
  BY <1>1, <1>2, <1>3, <1>4 DEF Inv, TypeOK

LEMMA AroundKeeps ==
    ASSUME Inv, NEW p \in People, Announce(p) \/ DeliveryFails(p)
    PROVE  Inv'
  BY DEF Announce, DeliveryFails, Inv, TypeOK, sharing, reports, bounds

LEMMA RestartKeeps == ASSUME Inv, Restart PROVE Inv'
<1>1. /\ life' = life + 1 /\ used' = Unused /\ req' = [s \in Slots |-> Idle]
      /\ raced' = raced \cup {req[s].on : s \in {t \in Slots : Step(t, "unwatch", "marked")}}
      /\ UNCHANGED <<sharing, reports, deletion, scene>>
  BY DEF Restart
<1>2. \A t \in Slots : Step(t, "unwatch", "marked") => req[t].on \in Watches
  BY DEF Step, Inv, Held, Prepared
<1>3. raced' \subseteq Watches \cup Flags \cup People
  BY <1>1, <1>2 DEF Inv, TypeOK
<1>4. req' \in [Slots -> Requests] /\ \A t \in Slots : Held(req'[t], life')
  BY <1>1, IdleHolds DEF Held
<1>5. life' \in Nat
  BY <1>1 DEF Inv, TypeOK
<1> QED
  BY <1>1, <1>3, <1>4, <1>5, UnusedType DEF Inv, TypeOK, sharing, reports

LEMMA WindowKeeps == ASSUME Inv, WindowPasses PROVE Inv'
  BY UnusedType DEF WindowPasses, Inv, TypeOK, sharing

LEMMA InitHolds == ASSUME Init PROVE Inv
<1>1. /\ NoWatch \in [state : {"none", "live", "deleted", "erased"}, owner : People \cup {Nobody}]
      /\ NoShare \in [audience : Audiences \cup {"none"}, members : SUBSET People]
      /\ NoFlag \in [key : People \cup {"none", "ring"}, reporter : People \cup {Nobody},
                     status : {"none", "open", "resolved", "dismissed"}]
  BY DEF NoWatch, NoShare, NoFlag
<1>2. req \in [Slots -> Requests] /\ \A s \in Slots : Held(req[s], life)
  BY IdleHolds DEF Init, Held
<1> QED
  BY <1>1, <1>2, UnusedType DEF Init, Inv, TypeOK, Audiences

LEMMA NextKeeps == ASSUME Inv, [Next]_vars PROVE Inv'
<1>1. CASE UNCHANGED vars
  BY <1>1 DEF Inv, TypeOK, vars, sharing, reports, bounds
<1>2. ASSUME NEW s \in Slots, NEW c \in About.creds, NEW r \in About.routes,
             IF r.door = "api" THEN Arrive(s, c, r, NoOne)
             ELSE \E of \in People, l \in 0 .. life : Arrive(s, c, r, [of |-> of, life |-> l])
      PROVE  Inv'
  <2>1. c \in Credentials /\ r \in Routes
    BY ScenesOf
  <2>2. CASE r.door = "api"
    BY <1>2, <2>1, <2>2, ArriveKeeps
  <2>3. CASE r.door # "api"
    <3>1. PICK of \in People, l \in 0 .. life : Arrive(s, c, r, [of |-> of, life |-> l])
      BY <1>2, <2>3
    <3>2. [of |-> of, life |-> l] \in Forms
      BY DEF Forms, Inv, TypeOK
    <3> QED BY <2>1, <3>1, <3>2, ArriveKeeps
  <2> QED BY <2>2, <2>3
<1>3. ASSUME NEW s \in Slots, Leave(s) \/ Touch(s) \/ NoSuchFlag(s) PROVE Inv'
  BY <1>3, EndingKeeps
<1>4. ASSUME NEW s \in Slots, CountWatches(s) \/ InsertWatch(s) \/ ReadDefault(s) \/ Register(s) PROVE Inv'
  BY <1>4, CountWatchesKeeps, InsertWatchKeeps, ReadDefaultKeeps, RegisterKeeps
<1>5. ASSUME NEW s \in Slots, RemoveWatch(s) \/ Forget(s) \/ ApplyAll(s) PROVE Inv'
  BY <1>5, RemoveWatchKeeps, ForgetKeeps, ApplyAllKeeps
<1>6. ASSUME NEW s \in Slots, \E audience \in About.audiences, all \in BOOLEAN : SaveDefault(s, audience, all)
      PROVE  Inv'
  BY <1>6, ScenesOf, SaveDefaultKeeps
<1>7. ASSUME NEW s \in Slots, LookForReport(s) \/ RaiseRing(s) \/ InsertFlag(s) \/ Decide(s) PROVE Inv'
  BY <1>7, LookForReportKeeps, RaiseRingKeeps, InsertFlagKeeps, DecideKeeps
<1>8. ASSUME NEW s \in Slots, \E f \in Flags, status \in {"resolved", "dismissed"} : ReadFlag(s, f, status) PROVE Inv'
  BY <1>8, ReadFlagKeeps
<1>9. ASSUME NEW w \in Watches, \E audience \in About.audiences, members \in SUBSET People : ShareSheet(w, audience, members)
      PROVE  Inv'
  BY <1>9, ScenesOf, ShareSheetKeeps
<1>10. ASSUME NEW p \in People, Announce(p) \/ Deliver(p) \/ DeliveryFails(p) PROVE Inv'
  BY <1>10, DeliverKeeps, AroundKeeps
<1>11. CASE Restart \/ WindowPasses
  BY <1>11, RestartKeeps, WindowKeeps
<1> QED
  BY <1>1, <1>2, <1>3, <1>4, <1>5, <1>6, <1>7, <1>8, <1>9, <1>10, <1>11, Zenon DEF Next

THEOREM InvariantHolds == Spec => []Inv
<1>1. Init => Inv
  BY InitHolds
<1>2. Inv /\ [Next]_vars => Inv'
  BY NextKeeps
<1> QED BY <1>1, <1>2, PTL DEF Spec

\* Every variable keeps its type (the state of watches.js, sharing.js, flags.js,
\* events.js and the counters of actor-limits.js).
THEOREM TypesHold == Spec => []TypeOK
<1>1. Inv => TypeOK
  BY DEF Inv
<1> QED BY <1>1, InvariantHolds, PTL

-----------------------------------------------------------------------------
(* Rights.                                                                 *)

LEMMA EntitledIsRight ==
    ASSUME NEW x, Entitled(x, life), x.does \in Doings
    PROVE  /\ CASE x.does = "ring" -> TRUE
                [] x.does \in {"merge", "unmerge"} -> Moderates(x.cred, "deals.offer.merge")
                [] x.does \in {"disable", "enable", "review", "decide"} ->
                       Moderates(x.cred, "deals.offer.moderate")
                [] x.does \in {"update", "expire"} ->
                       Moderates(x.cred, "deals.offer.moderate") \/ ActsFor(x.cred, Poster)
                [] x.does = "product" /\ x.who = Nobody -> x.cred.verified /\ x.cred.token # "user"
                [] OTHER -> ActsFor(x.cred, x.who)
           /\ x.form # NoOne => /\ x.cred.token = "user" /\ x.form.of = x.cred.owner
                                /\ SecretSet \/ x.form.life = life
<1>1. x.form # NoOne => /\ x.cred.token = "user" /\ x.form.of = x.cred.owner
                        /\ SecretSet \/ x.form.life = life
  BY DEF Entitled
<1>2. x.does \in {"merge", "unmerge"} => Moderates(x.cred, "deals.offer.merge")
  BY DEF Entitled, Merging
<1>3. x.does \in {"disable", "enable", "review", "decide"} => Moderates(x.cred, "deals.offer.moderate")
  BY DEF Entitled, Stewarded
<1>4. x.does \in {"update", "expire"} => Moderates(x.cred, "deals.offer.moderate") \/ ActsFor(x.cred, Poster)
  BY DEF Entitled, Editing
<1>5. x.does = "product" /\ x.who = Nobody => x.cred.verified /\ x.cred.token # "user"
  BY DEF Entitled
<1>6. x.does \notin {"ring", "merge", "unmerge", "disable", "enable", "review", "decide", "update", "expire"}
      /\ ~(x.does = "product" /\ x.who = Nobody) => ActsFor(x.cred, x.who)
  BY DEF Entitled, Merging, Stewarded, Editing
<1> QED BY <1>1, <1>2, <1>3, <1>4, <1>5, <1>6, Zenon

\* An operation is begun only by who may act for the person it is for, or by a
\* moderator, and a form only by its browser and within the life of its key
\* (viewer.js, access.js, forms.js, api.js, pages.js).
THEOREM NothingIsDoneWithoutRight == Spec => []NothingWithoutRight
<1>1. Inv => NothingWithoutRight
  <2> SUFFICES ASSUME Inv PROVE NothingWithoutRight
    OBVIOUS
  <2>1. \A s \in Busy : Entitled(req[s], life) /\ req[s].does \in Doings
    BY DEF Inv, Held, Busy, Requests
  <2> QED BY <2>1, EntitledIsRight, Zenon DEF NothingWithoutRight
<1> QED BY <1>1, InvariantHolds, PTL

-----------------------------------------------------------------------------
(* Decisions.                                                              *)

Reading(x) == x.does = "decide" /\ x.pc = "read"

OneOpen == \A f, g \in Flags : flag[f].status = "open" /\ flag[g].status = "open" /\ flag[f].key = flag[g].key => f = g
Stands ==
    \A f \in Flags : /\ flag[f] = NoFlag => log[f] = <<>>
                     /\ flag[f] # NoFlag => flag[f].status = IF log[f] = <<>> THEN "open" ELSE log[f][Len(log[f])]
OnceUnlessRaced == \A f \in Flags : f \notin raced => Len(log[f]) <= 1
\* A moderator who has read a flag and was not overtaken finds it undecided.
ReadOpen ==
    \A s \in Slots : Reading(req[s]) => /\ flag[req[s].on] # NoFlag
                                        /\ ~req[s].stale => log[req[s].on] = <<>>

Decisions == OneOpen /\ Stands /\ OnceUnlessRaced /\ ReadOpen

\* Only an undecided flag is open, and a flag always has a status.
LEMMA OpenIsUndecided ==
    ASSUME Inv, Stands, NEW f \in Flags, flag[f] # NoFlag
    PROVE  /\ flag[f].status # "none"
           /\ flag[f].status = "open" => log[f] = <<>>
<1>1. log[f] \in Seq({"resolved", "dismissed"})
  BY DEF Inv, TypeOK
<1>2. log[f] # <<>> => log[f][Len(log[f])] \in {"resolved", "dismissed"}
  BY <1>1
<1> QED BY <1>2 DEF Stands

LEMMA ReadIsOpen ==
    ASSUME Decisions, NEW t \in Slots, Reading(req[t])
    PROVE  flag[req[t].on] # NoFlag /\ (~req[t].stale => log[req[t].on] = <<>>)
<1>1. ReadOpen
  BY DEF Decisions
<1> QED BY <1>1, Zenon DEF ReadOpen

LEMMA NothingDecided ==
    ASSUME Decisions, UNCHANGED <<flag, log>>, raced \subseteq raced',
           \A t \in Slots : Reading(req'[t]) => /\ Reading(req[t]) /\ req'[t].on = req[t].on
                                                /\ req[t].stale => req'[t].stale
    PROVE  Decisions'
  BY DEF Decisions, OneOpen, Stands, OnceUnlessRaced, ReadOpen

LEMMA AnotherMoves ==
    ASSUME Inv, Decisions, NEW s \in Slots, NEW y, Go(s, y), ~Reading(y), UNCHANGED <<flag, log>>, raced \subseteq raced'
    PROVE  Decisions'
<1>1. \A t \in Slots : req'[t] = IF t = s THEN y ELSE req[t]
  BY DEF Inv, TypeOK, Go
<1>2. \A t \in Slots : Reading(req'[t]) => /\ Reading(req[t]) /\ req'[t].on = req[t].on
                                           /\ req[t].stale => req'[t].stale
  BY <1>1
<1>3. UNCHANGED <<flag, log>> /\ raced \subseteq raced'
  OBVIOUS
<1> QED BY <1>2, <1>3, NothingDecided, Zenon

LEMMA IdleReadsNothing == ~Reading(Idle)
  BY IdleHolds DEF Reading

LEMMA AlterDoes ==
    ASSUME NEW x \in Requests, NEW pc, NEW on, NEW audience, NEW key, x.does # "decide"
    PROVE  /\ ~Reading([x EXCEPT !.pc = pc]) /\ ~Reading([x EXCEPT !.pc = pc, !.on = on])
           /\ ~Reading([x EXCEPT !.pc = pc, !.audience = audience]) /\ ~Reading([x EXCEPT !.pc = pc, !.key = key])
  BY DEF Requests, Reading

LEMMA DecisionsOfRequests ==
    ASSUME Inv, Decisions, NEW s \in Slots,
           \/ CountWatches(s) \/ InsertWatch(s) \/ ReadDefault(s) \/ Register(s) \/ RemoveWatch(s) \/ Forget(s)
           \/ LookForReport(s) \/ Leave(s) \/ Touch(s) \/ NoSuchFlag(s)
    PROVE  Decisions'
<1> DEFINE x == req[s]
<1>1. x \in Requests
  BY DEF Inv, TypeOK
<1>2. CASE CountWatches(s)
  <2>1. x.does # "decide" /\ (Go(s, [x EXCEPT !.pc = "counted"]) \/ Go(s, Idle)) /\ UNCHANGED <<flag, log, raced>>
    BY <1>2 DEF CountWatches, Done, Step, Quiet, reports
  <2> QED BY <1>1, <2>1, AnotherMoves, AlterDoes, IdleReadsNothing
<1>3. CASE InsertWatch(s)
  <2>1. x.does # "decide" /\ (\E w \in Watches : Go(s, [x EXCEPT !.pc = "inserted", !.on = w])) /\ UNCHANGED <<flag, log, raced>>
    BY <1>3 DEF InsertWatch, Step, Quiet, reports
  <2> QED BY <1>1, <2>1, AnotherMoves, AlterDoes
<1>4. CASE ReadDefault(s)
  <2>1. x.does # "decide" /\ Go(s, [x EXCEPT !.pc = "read", !.audience = DefaultOf(x.who)]) /\ UNCHANGED <<flag, log, raced>>
    BY <1>4 DEF ReadDefault, Step, Quiet, reports
  <2> QED BY <1>1, <2>1, AnotherMoves, AlterDoes
<1>5. CASE Register(s) \/ Forget(s)
  <2>1. Go(s, Idle) /\ UNCHANGED <<flag, log>> /\ raced \subseteq raced'
    BY <1>5 DEF Register, Forget, Done, Quiet, reports
  <2> QED BY <2>1, AnotherMoves, IdleReadsNothing
<1>6. CASE RemoveWatch(s)
  <2>1. x.does # "decide" /\ (Go(s, Idle) \/ \E w \in Watches : Go(s, [x EXCEPT !.pc = "marked", !.on = w]))
        /\ UNCHANGED <<flag, log, raced>>
    BY <1>6 DEF RemoveWatch, Done, Step, Quiet, reports, Live
  <2> QED BY <1>1, <2>1, AnotherMoves, AlterDoes, IdleReadsNothing
<1>7. CASE LookForReport(s)
  <2>1. \/ Go(s, Idle) \/ Go(s, [x EXCEPT !.pc = "new", !.key = x.who])
        \/ Go(s, [x EXCEPT !.pc = "found", !.on = CHOOSE f \in OpenBy(x.who) : TRUE])
    BY <1>7, Zenon DEF LookForReport, Done
  <2>2. x.does # "decide" /\ UNCHANGED <<flag, log, raced>>
    BY <1>7 DEF LookForReport, Step, Quiet, reports
  <2>3. CASE Go(s, Idle) \/ Go(s, [x EXCEPT !.pc = "new", !.key = x.who])
    BY <1>1, <2>2, <2>3, AnotherMoves, AlterDoes, IdleReadsNothing
  <2>4. CASE Go(s, [x EXCEPT !.pc = "found", !.on = CHOOSE f \in OpenBy(x.who) : TRUE])
    BY <1>1, <2>2, <2>4, AnotherMoves, AlterDoes
  <2> QED BY <2>1, <2>3, <2>4
<1>8. CASE Leave(s) \/ Touch(s) \/ NoSuchFlag(s)
  <2>1. Go(s, Idle) /\ UNCHANGED <<flag, log, raced>>
    BY <1>8 DEF Leave, Touch, NoSuchFlag, Done, Quiet, reports
  <2> QED BY <2>1, AnotherMoves, IdleReadsNothing
<1> QED BY <1>2, <1>3, <1>4, <1>5, <1>6, <1>7, <1>8

LEMMA DecisionsOfRing == ASSUME Inv, Decisions, NEW s \in Slots, RaiseRing(s) PROVE Decisions'
<1> DEFINE y == [Idle EXCEPT !.pc = "new", !.does = "ring", !.key = "ring"]
<1>1. (Go(s, y) \/ Go(s, Idle)) /\ UNCHANGED <<flag, log, raced>>
  BY DEF RaiseRing, reports
<1>2. ~Reading(y)
  <2>1. Idle \in Requests
    BY IdleHolds DEF Held
  <2>2. y.pc = "new"
    BY <2>1 DEF Requests
  <2> QED BY <2>2 DEF Reading
<1> HIDE DEF y
<1> QED BY <1>1, <1>2, AnotherMoves, IdleReadsNothing

LEMMA DecisionsOfArrival ==
    ASSUME Inv, Decisions, NEW s \in Slots, NEW c, NEW r, NEW form, Arrive(s, c, r, form)
    PROVE  Decisions'
<1> DEFINE v == Resolve(c, r.door)
           kept == IF r.door = "form" THEN form ELSE NoOne
           y == [Idle EXCEPT !.pc = "begun", !.does = r.does, !.cred = c, !.who = v.subject, !.form = kept]
<1>1. /\ UNCHANGED <<flag, log>>
      /\ IF Admitted(v, r, form, SecretSet, life)
         THEN Go(s, y) /\ raced' = raced \cup TooLate(v.subject)
         ELSE UNCHANGED <<req, raced>>
  BY DEF Arrive, reports
<1> HIDE DEF v, kept
<1>2. ~Reading(y)
  <2>1. Idle \in Requests
    BY IdleHolds DEF Held
  <2>2. y.pc = "begun"
    BY <2>1 DEF Requests
  <2> QED BY <2>2 DEF Reading
<1> HIDE DEF y
<1>3. CASE Admitted(v, r, form, SecretSet, life)
  BY <1>1, <1>2, <1>3, AnotherMoves
<1>4. CASE ~Admitted(v, r, form, SecretSet, life)
  BY <1>1, <1>4, NothingDecided
<1> QED BY <1>3, <1>4

LEMMA DecisionsOfDefault ==
    ASSUME Inv, Decisions, NEW s \in Slots, NEW audience, NEW all \in BOOLEAN, SaveDefault(s, audience, all)
    PROVE  Decisions'
<1>1. req[s] \in Requests /\ req[s].does # "decide" /\ UNCHANGED <<flag, log, raced>>
  BY DEF SaveDefault, Step, Quiet, reports, Inv, TypeOK
<1>2. Go(s, [req[s] EXCEPT !.pc = "saved", !.audience = audience]) \/ Go(s, Idle)
  BY DEF SaveDefault
<1> QED BY <1>1, <1>2, AnotherMoves, AlterDoes, IdleReadsNothing

\* A change of all watches overtakes the creates that have read the default.
LEMMA DecisionsOfApplyAll == ASSUME Inv, Decisions, NEW s \in Slots, ApplyAll(s) PROVE Decisions'
<1> DEFINE b == [t \in Slots |-> req[t].stale \/ (Step(t, "watch", "read") /\ req[t].who = req[s].who)]
<1>1. UNCHANGED <<flag, log, raced>>
  BY DEF ApplyAll, Quiet, reports
<1>2. req' = [t \in Slots |-> IF t = s THEN Idle ELSE [req[t] EXCEPT !.stale = b[t]]]
  BY Zenon DEF ApplyAll
<1>3. \A t \in Slots : req[t].stale => b[t]
  BY Zenon
<1> HIDE DEF b
<1>4. ASSUME NEW t \in Slots, Reading(req'[t])
      PROVE  Reading(req[t]) /\ req'[t].on = req[t].on /\ (req[t].stale => req'[t].stale)
  <2>1. t # s /\ req'[t] = [req[t] EXCEPT !.stale = b[t]]
    BY <1>2, <1>4, IdleReadsNothing
  <2>2. req[t] \in Requests
    BY DEF Inv, TypeOK
  <2>3. /\ req'[t].does = req[t].does /\ req'[t].pc = req[t].pc /\ req'[t].on = req[t].on
        /\ req'[t].stale = b[t]
    BY <2>1, <2>2 DEF Requests
  <2> QED BY <1>3, <1>4, <2>3 DEF Reading
<1> QED BY <1>1, <1>4, NothingDecided

LEMMA DecisionsOfReport == ASSUME Inv, Decisions, NEW s \in Slots, InsertFlag(s) PROVE Decisions'
<1> DEFINE f == CHOOSE f \in Flags : flag[f] = NoFlag
           key == req[s].key
           new == [key |-> key, reporter |-> req[s].who, status |-> "open"]
<1>1. Go(s, Idle) /\ UNCHANGED <<log, raced>>
  BY DEF InsertFlag, Done
<1>2. CASE OpenBy(key) # {}
  <2>1. UNCHANGED flag
    BY <1>2 DEF InsertFlag
  <2> QED BY <1>1, <2>1, AnotherMoves, IdleReadsNothing
<1>3. CASE OpenBy(key) = {}
  <2>1. f \in Flags /\ flag[f] = NoFlag /\ flag' = [flag EXCEPT ![f] = new]
    BY <1>3 DEF InsertFlag
  <2>2. new.key = key /\ new.status = "open" /\ new # NoFlag
    BY DEF NoFlag
  <2> HIDE DEF f, new
  <2>3. \A g \in Flags : flag'[g] = IF g = f THEN new ELSE flag[g]
    BY <2>1 DEF Inv, TypeOK
  <2>4. OneOpen'
    BY <1>3, <2>2, <2>3 DEF Decisions, OneOpen, OpenBy
  <2>5. Stands'
    BY <1>1, <2>1, <2>2, <2>3 DEF Decisions, Stands
  <2>6. \A t \in Slots : req'[t] = IF t = s THEN Idle ELSE req[t]
    BY <1>1 DEF Go, Inv, TypeOK
  <2>7. ReadOpen'
    <3> SUFFICES ASSUME NEW t \in Slots, Reading(req'[t])
                 PROVE  flag'[req'[t].on] # NoFlag /\ (~req'[t].stale => log'[req'[t].on] = <<>>)
      BY DEF ReadOpen
    <3>1. req'[t] = req[t] /\ Reading(req[t])
      BY <2>6, IdleReadsNothing
    <3>2. req[t].on \in Flags
      BY <3>1 DEF Reading, Inv, Held, Prepared
    <3>3. flag[req[t].on] # NoFlag /\ (~req[t].stale => log[req[t].on] = <<>>)
      BY <3>1, ReadIsOpen, Zenon
    <3> QED BY <1>1, <2>2, <2>3, <3>1, <3>2, <3>3
  <2> QED BY <1>1, <2>4, <2>5, <2>7 DEF Decisions, OnceUnlessRaced
<1> QED BY <1>2, <1>3

LEMMA DecisionsOfReading ==
    ASSUME Inv, Decisions, NEW s \in Slots, NEW f \in Flags, NEW status \in {"resolved", "dismissed"},
           ReadFlag(s, f, status)
    PROVE  Decisions'
<1> DEFINE y == [req[s] EXCEPT !.pc = "read", !.on = f, !.status = status]
<1>1. /\ flag[f] # NoFlag /\ UNCHANGED <<flag, log, raced>>
      /\ Go(s, IF Undecided(f) THEN y ELSE Idle)
  BY DEF ReadFlag, Quiet, reports
<1>2. CASE ~Undecided(f)
  BY <1>1, <1>2, AnotherMoves, IdleReadsNothing
<1>3. CASE Undecided(f)
  <2>1. log[f] = <<>>
    BY <1>1, <1>3, OpenIsUndecided DEF Decisions, Undecided
  <2>2. req[s] \in Requests
    BY DEF Inv, TypeOK
  <2>3. y.on = f
    BY <2>2 DEF Requests
  <2> HIDE DEF y
  <2>4. \A t \in Slots : req'[t] = IF t = s THEN y ELSE req[t]
    BY <1>1, <1>3 DEF Go, Inv, TypeOK
  <2>5. ReadOpen'
    <3> SUFFICES ASSUME NEW t \in Slots, Reading(req'[t])
                 PROVE  flag'[req'[t].on] # NoFlag /\ (~req'[t].stale => log'[req'[t].on] = <<>>)
      BY DEF ReadOpen
    <3>1. CASE t = s
      BY <1>1, <2>1, <2>3, <2>4, <3>1
    <3>2. CASE t # s
      <4>1. req'[t] = req[t]
        BY <2>4, <3>2
      <4>2. flag[req[t].on] # NoFlag /\ (~req[t].stale => log[req[t].on] = <<>>)
        BY <4>1, ReadIsOpen, Zenon
      <4> QED BY <1>1, <4>1, <4>2
    <3> QED BY <3>1, <3>2
  <2> QED BY <1>1, <2>5 DEF Decisions, OneOpen, Stands, OnceUnlessRaced
<1> QED BY <1>2, <1>3

LEMMA DecisionsOfDecide == ASSUME Inv, Decisions, NEW s \in Slots, Decide(s) PROVE Decisions'
<1> DEFINE f == req[s].on
           st == req[s].status
           b == [t \in Slots |-> req[t].stale \/ (Step(t, "decide", "read") /\ req[t].on = f)]
<1>1. f \in Flags /\ st \in {"resolved", "dismissed"} /\ Reading(req[s])
  BY DEF Decide, Step, Inv, Held, Prepared, Reading
<1>2. /\ flag' = [flag EXCEPT ![f] = [flag[f] EXCEPT !.status = st]]
      /\ log' = [log EXCEPT ![f] = Append(log[f], st)]
      /\ raced' = IF req[s].stale THEN raced \cup {f} ELSE raced
  BY DEF Decide
<1>3. req' = [t \in Slots |-> IF t = s THEN Idle ELSE [req[t] EXCEPT !.stale = b[t]]]
  BY Zenon DEF Decide
<1>4. flag[f] # NoFlag /\ (~req[s].stale => log[f] = <<>>)
  BY <1>1, ReadIsOpen, Zenon
<1>5. \A t \in Slots : Reading(req[t]) /\ req[t].on = f => b[t]
  BY Zenon DEF Step, Reading
<1>6. \A t \in Slots : req[t].stale => b[t]
  BY Zenon
<1>7. log[f] \in Seq({"resolved", "dismissed"}) /\ log \in [Flags -> Seq({"resolved", "dismissed"})]
  BY <1>1 DEF Inv, TypeOK
<1>8. /\ flag[f] \in [key : People \cup {"none", "ring"}, reporter : People \cup {Nobody},
                      status : {"none", "open", "resolved", "dismissed"}]
      /\ \A g \in Flags : flag'[g] = IF g = f THEN [flag[f] EXCEPT !.status = st] ELSE flag[g]
  BY <1>1, <1>2 DEF Inv, TypeOK
<1> HIDE DEF f, st, b
<1>9. [flag[f] EXCEPT !.status = st].status = st
  BY <1>8
<1>10. [flag[f] EXCEPT !.status = st] # NoFlag
  BY <1>1, <1>9 DEF NoFlag
<1>11. \A g \in Flags : log'[g] = IF g = f THEN Append(log[f], st) ELSE log[g]
  BY <1>2, <1>7
<1>12. /\ Append(log[f], st) # <<>>
       /\ Append(log[f], st)[Len(Append(log[f], st))] = st
       /\ log[f] = <<>> => Len(Append(log[f], st)) = 1
  BY <1>1, <1>7
<1>13. OneOpen'
  BY <1>1, <1>8, <1>9 DEF Decisions, OneOpen
<1>14. Stands'
  <2> SUFFICES ASSUME NEW g \in Flags
               PROVE  /\ flag'[g] = NoFlag => log'[g] = <<>>
                      /\ flag'[g] # NoFlag => flag'[g].status = IF log'[g] = <<>> THEN "open" ELSE log'[g][Len(log'[g])]
    BY DEF Stands
  <2>1. CASE g = f
    <3>1. flag'[g].status = st /\ flag'[g] # NoFlag /\ log'[g] = Append(log[f], st)
      BY <1>8, <1>9, <1>10, <1>11, <2>1
    <3> QED BY <1>12, <3>1
  <2>2. CASE g # f
    <3>1. flag'[g] = flag[g] /\ log'[g] = log[g]
      BY <1>8, <1>11, <2>2
    <3> QED BY <3>1 DEF Decisions, Stands
  <2> QED BY <2>1, <2>2
<1>15. OnceUnlessRaced'
  <2> SUFFICES ASSUME NEW g \in Flags, g \notin raced' PROVE Len(log'[g]) <= 1
    BY DEF OnceUnlessRaced
  <2>1. g \notin raced /\ (g = f => ~req[s].stale)
    BY <1>2, Zenon
  <2>2. CASE g = f
    <3>1. log[f] = <<>>
      BY <1>4, <2>1, <2>2, Zenon
    <3>2. log'[g] = Append(log[f], st)
      BY <1>11, <2>2
    <3>3. Len(Append(log[f], st)) = 1
      BY <1>12, <3>1
    <3> QED BY <3>2, <3>3
  <2>3. CASE g # f
    BY <1>11, <2>1, <2>3 DEF Decisions, OnceUnlessRaced
  <2> QED BY <2>2, <2>3
<1>16. ReadOpen'
  <2> SUFFICES ASSUME NEW t \in Slots, Reading(req'[t])
               PROVE  flag'[req'[t].on] # NoFlag /\ (~req'[t].stale => log'[req'[t].on] = <<>>)
    BY DEF ReadOpen
  <2>1. t # s /\ req'[t] = [req[t] EXCEPT !.stale = b[t]]
    BY <1>3, IdleReadsNothing
  <2>2. req[t] \in Requests
    BY DEF Inv, TypeOK
  <2>3. req'[t].does = req[t].does /\ req'[t].pc = req[t].pc /\ req'[t].on = req[t].on /\ req'[t].stale = b[t]
    BY <2>1, <2>2 DEF Requests
  <2>4. Reading(req[t])
    BY <2>3 DEF Reading
  <2>5. req[t].on \in Flags
    BY <2>4 DEF Reading, Inv, Held, Prepared
  <2>6. flag[req[t].on] # NoFlag /\ (~req[t].stale => log[req[t].on] = <<>>)
    BY <2>4, ReadIsOpen, Zenon
  <2>7. flag'[req[t].on] # NoFlag
    BY <1>8, <1>10, <2>5, <2>6
  <2>8. ~b[t] => req[t].on # f /\ ~req[t].stale
    BY <1>5, <1>6, <2>4, Zenon
  <2>9. ~b[t] => log'[req[t].on] = <<>>
    <3> SUFFICES ASSUME ~b[t] PROVE log'[req[t].on] = <<>>
      OBVIOUS
    <3>1. req[t].on # f /\ log[req[t].on] = <<>>
      BY <2>6, <2>8, Zenon
    <3> QED BY <1>11, <2>5, <3>1
  <2> QED BY <2>3, <2>7, <2>9, Zenon
<1> QED BY <1>13, <1>14, <1>15, <1>16 DEF Decisions

\* A deleted author leaves the flag and its decisions as they are.
LEMMA DecisionsOfDeletion == ASSUME Inv, Decisions, NEW p \in People, Deliver(p) PROVE Decisions'
<1>1. flag' = ReportsLeftBy(p) /\ raced \subseteq raced' /\ UNCHANGED <<log, req>>
  BY DEF Deliver
<1>2. \A f \in Flags :
         /\ flag'[f].key = flag[f].key /\ flag'[f].status = flag[f].status
         /\ flag'[f] = NoFlag <=> flag[f] = NoFlag
  <2> TAKE f \in Flags
  <2>1. flag[f] \in [key : People \cup {"none", "ring"}, reporter : People \cup {Nobody},
                     status : {"none", "open", "resolved", "dismissed"}]
    BY DEF Inv, TypeOK
  <2>2. flag'[f] = IF flag[f].reporter = p THEN [flag[f] EXCEPT !.reporter = Nobody] ELSE flag[f]
    BY <1>1 DEF ReportsLeftBy
  <2>3. flag'[f].key = flag[f].key /\ flag'[f].status = flag[f].status
    BY <2>1, <2>2
  <2>4. flag[f] = NoFlag => flag'[f] = flag[f]
    BY <2>2, AccessAssumption DEF NoFlag
  <2>5. flag[f] # NoFlag => flag'[f].status # "none"
    BY <2>3, OpenIsUndecided DEF Decisions
  <2>6. NoFlag.status = "none"
    BY DEF NoFlag
  <2> QED BY <2>3, <2>4, <2>5, <2>6
<1>3. ReadOpen'
  <2> SUFFICES ASSUME NEW t \in Slots, Reading(req'[t])
               PROVE  flag'[req'[t].on] # NoFlag /\ (~req'[t].stale => log'[req'[t].on] = <<>>)
    BY DEF ReadOpen
  <2>1. Reading(req[t])
    BY <1>1
  <2>2. req[t].on \in Flags
    BY <2>1 DEF Reading, Inv, Held, Prepared
  <2>3. flag[req[t].on] # NoFlag /\ (~req[t].stale => log[req[t].on] = <<>>)
    BY <2>1, ReadIsOpen, Zenon
  <2> QED BY <1>1, <1>2, <2>2, <2>3
<1>4. OneOpen' /\ Stands'
  BY <1>1, <1>2 DEF Decisions, OneOpen, Stands
<1>5. OnceUnlessRaced'
  BY <1>1 DEF Decisions, OnceUnlessRaced
<1> QED BY <1>3, <1>4, <1>5 DEF Decisions

\* What happens beside requests decides nothing.
LEMMA DecisionsBeside ==
    ASSUME Inv, Decisions,
           \/ UNCHANGED vars \/ Restart \/ WindowPasses
           \/ \E p \in People : Announce(p) \/ DeliveryFails(p)
           \/ \E w \in Watches : \E audience, members : ShareSheet(w, audience, members)
    PROVE  Decisions'
<1>1. UNCHANGED <<flag, log>> /\ raced \subseteq raced'
  BY DEF Restart, WindowPasses, Announce, DeliveryFails, ShareSheet, reports, vars
<1>2. req' = [t \in Slots |-> Idle] \/ UNCHANGED req
  BY DEF Restart, WindowPasses, Announce, DeliveryFails, ShareSheet, reports, vars
<1>3. CASE UNCHANGED req
  BY <1>1, <1>3, NothingDecided, Zenon
<1>4. CASE req' = [t \in Slots |-> Idle]
  <2>1. \A t \in Slots : ~Reading(req'[t])
    BY <1>4, IdleReadsNothing
  <2> QED BY <1>1, <2>1, NothingDecided, Zenon
<1> QED BY <1>2, <1>3, <1>4

LEMMA DecisionsKept == ASSUME Inv, Decisions, [Next]_vars PROVE Decisions'
<1>1. CASE UNCHANGED vars \/ Restart \/ WindowPasses
  BY <1>1, DecisionsBeside, Zenon
<1>2. ASSUME NEW s \in Slots, NEW c \in About.creds, NEW r \in About.routes,
             IF r.door = "api" THEN Arrive(s, c, r, NoOne)
             ELSE \E of \in People, l \in 0 .. life : Arrive(s, c, r, [of |-> of, life |-> l])
      PROVE  Decisions'
  BY <1>2, DecisionsOfArrival, Zenon
<1>3. ASSUME NEW s \in Slots,
             \/ CountWatches(s) \/ InsertWatch(s) \/ ReadDefault(s) \/ Register(s) \/ RemoveWatch(s) \/ Forget(s)
             \/ ApplyAll(s) \/ LookForReport(s) \/ Leave(s) \/ Touch(s) \/ NoSuchFlag(s)
      PROVE  Decisions'
  BY <1>3, DecisionsOfRequests, DecisionsOfApplyAll
<1>4. ASSUME NEW s \in Slots, \E audience \in About.audiences, all \in BOOLEAN : SaveDefault(s, audience, all)
      PROVE  Decisions'
  BY <1>4, DecisionsOfDefault
<1>5. ASSUME NEW s \in Slots, RaiseRing(s) \/ InsertFlag(s) \/ Decide(s) PROVE Decisions'
  BY <1>5, DecisionsOfRing, DecisionsOfReport, DecisionsOfDecide
<1>6. ASSUME NEW s \in Slots, \E f \in Flags, status \in {"resolved", "dismissed"} : ReadFlag(s, f, status)
      PROVE  Decisions'
  BY <1>6, DecisionsOfReading
<1>7. ASSUME NEW w \in Watches, NEW audience \in About.audiences, NEW members \in SUBSET People,
             ShareSheet(w, audience, members)
      PROVE  Decisions'
  BY <1>7, DecisionsBeside, Zenon
<1>8. ASSUME NEW p \in People, Announce(p) \/ Deliver(p) \/ DeliveryFails(p) PROVE Decisions'
  BY <1>8, DecisionsBeside, DecisionsOfDeletion, Zenon
<1> QED
  BY <1>1, <1>2, <1>3, <1>4, <1>5, <1>6, <1>7, <1>8, Zenon DEF Next

\* A key has one open flag, a flag stands as its last logged decision left it, and
\* is decided once unless two moderators read it open (resolve, flags.js).
THEOREM FlagsAreDecidedOnce == Spec => []DecidedOnce
<1>1. Init => Decisions
  <2> SUFFICES ASSUME Init PROVE Decisions
    OBVIOUS
  <2>1. \A f \in Flags : flag[f] = NoFlag /\ log[f] = <<>>
    BY DEF Init
  <2>2. NoFlag.status = "none"
    BY DEF NoFlag
  <2>3. \A s \in Slots : ~Reading(req[s])
    BY IdleReadsNothing DEF Init
  <2> QED BY <2>1, <2>2, <2>3 DEF Decisions, OneOpen, Stands, OnceUnlessRaced, ReadOpen
<1>2. Inv /\ Decisions /\ [Next]_vars => Decisions'
  BY DecisionsKept
<1>3. Decisions => DecidedOnce
  <2> SUFFICES ASSUME Decisions PROVE DecidedOnce
    OBVIOUS
  <2>1. OneOpen /\ Stands /\ OnceUnlessRaced
    BY DEF Decisions
  <2> QED BY <2>1 DEF DecidedOnce, OneOpen, Stands, OnceUnlessRaced
<1> QED BY <1>1, <1>2, <1>3, InvariantHolds, PTL DEF Spec
-----------------------------------------------------------------------------
(* Who reads a watch.                                                      *)

\* A request between the watch's row and its share row, and one between the mark
\* of removal and the share row's.
Making(x)   == x.does = "watch" /\ x.pc \in {"inserted", "read"}
Removing(x) == x.does = "unwatch" /\ x.pc = "marked"

\* The share row of a watch: none before there is one, none or what its owner
\* chose while there is, none once it is removed.
SharedAsChosen(w) ==
    /\ watch[w].state = "none" => share[w] = NoShare
    /\ share[w].audience \in {"none", chosen[w]}
    /\ watch[w].state \in {"deleted", "erased"} /\ (\A s \in Slots : Removing(req[s]) => req[s].on # w)
          => share[w] = NoShare

\* A watch in the making is made by one request, for its owner, and has no share
\* row; what will be its audience is what its owner has chosen.
MadeAlone(s) ==
    Making(req[s]) =>
        /\ watch[req[s].on].state # "none" /\ watch[req[s].on].owner = req[s].who
        /\ \A t \in Slots : Making(req[t]) /\ req[t].on = req[s].on => t = s
        /\ req[s].on \notin raced =>
              /\ share[req[s].on] = NoShare
              /\ req[s].pc = "read" /\ ~req[s].stale => chosen[req[s].on] = req[s].audience

Sharing == (\A w \in Watches \ raced : SharedAsChosen(w)) /\ \A s \in Slots : MadeAlone(s)

LEMMA IdleSharesNothing == ~Making(Idle) /\ ~Removing(Idle)
  BY IdleHolds DEF Making, Removing

LEMMA MadeOn ==
    ASSUME Inv, Sharing, NEW s \in Slots, Making(req[s])
    PROVE  /\ req[s].on \in Watches
           /\ watch[req[s].on].state # "none" /\ watch[req[s].on].owner = req[s].who
           /\ \A t \in Slots : Making(req[t]) /\ req[t].on = req[s].on => t = s
           /\ req[s].on \notin raced =>
                 /\ share[req[s].on] = NoShare
                 /\ req[s].pc = "read" /\ ~req[s].stale => chosen[req[s].on] = req[s].audience
<1>1. req[s].on \in Watches
  BY DEF Making, Inv, Held, Prepared
<1>2. MadeAlone(s)
  BY DEF Sharing
<1> QED BY <1>1, <1>2, Zenon DEF MadeAlone

LEMMA SharedOf ==
    ASSUME Sharing, NEW w \in Watches, w \notin raced
    PROVE  SharedAsChosen(w)
  BY DEF Sharing

\* What a step may do to a request for the sharing of watches to stand.
Follows(x, y) ==
    Making(y) => /\ Making(x) /\ y.on = x.on /\ y.who = x.who
                 /\ y.pc = "read" /\ ~y.stale => x.pc = "read" /\ ~x.stale /\ y.audience = x.audience

LEMMA SharingStands ==
    ASSUME Inv, Sharing, UNCHANGED <<watch, share, chosen>>, raced \subseteq raced',
           \A t \in Slots : Follows(req[t], req'[t]),
           \A t \in Slots : Removing(req[t]) => (Removing(req'[t]) /\ req'[t].on = req[t].on) \/ req[t].on \in raced'
    PROVE  Sharing'
<1>1. ASSUME NEW w \in Watches, w \notin raced' PROVE SharedAsChosen(w)'
  <2>1. SharedAsChosen(w)
    BY <1>1, SharedOf
  <2>2. (\A s \in Slots : Removing(req'[s]) => req'[s].on # w) => \A s \in Slots : Removing(req[s]) => req[s].on # w
    BY <1>1
  <2> QED BY <2>1, <2>2 DEF SharedAsChosen
<1>2. ASSUME NEW s \in Slots, Making(req'[s]) PROVE MadeAlone(s)'
  <2>1. Follows(req[s], req'[s])
    OBVIOUS
  <2>2. Making(req[s]) /\ req'[s].on = req[s].on /\ req'[s].who = req[s].who
    BY <1>2, <2>1 DEF Follows
  <2>3. \A t \in Slots : Making(req'[t]) => Making(req[t]) /\ req'[t].on = req[t].on
    BY DEF Follows
  <2>4. /\ watch'[req'[s].on].state # "none" /\ watch'[req'[s].on].owner = req'[s].who
        /\ \A t \in Slots : Making(req'[t]) /\ req'[t].on = req'[s].on => t = s
    BY <2>2, <2>3, MadeOn, Zenon
  <2>5. req'[s].on \notin raced' => share'[req'[s].on] = NoShare
    BY <2>2, MadeOn
  <2>6. req'[s].on \notin raced' /\ req'[s].pc = "read" /\ ~req'[s].stale => chosen'[req'[s].on] = req'[s].audience
    BY <1>2, <2>1, <2>2, MadeOn DEF Follows
  <2> QED BY <2>4, <2>5, <2>6, Zenon DEF MadeAlone
<1> QED BY <1>1, <1>2 DEF Sharing, MadeAlone

\* One request goes on, and is not about a watch then, nor was half way through
\* removing one.
LEMMA SharingBesides ==
    ASSUME Inv, Sharing, NEW s \in Slots, NEW y, Go(s, y), ~Making(y), ~Removing(req[s]),
           UNCHANGED <<watch, share, chosen>>, raced \subseteq raced'
    PROVE  Sharing'
<1>1. \A t \in Slots : req'[t] = IF t = s THEN y ELSE req[t]
  BY DEF Inv, TypeOK, Go
<1>2. \A t \in Slots : Follows(req[t], req'[t])
  BY <1>1 DEF Follows
<1>3. \A t \in Slots : Removing(req[t]) => Removing(req'[t]) /\ req'[t].on = req[t].on
  BY <1>1
<1>4. UNCHANGED <<watch, share, chosen>> /\ raced \subseteq raced'
  OBVIOUS
<1> QED BY <1>2, <1>3, <1>4, SharingStands, Zenon

LEMMA AlterMakes ==
    ASSUME NEW x \in Requests, NEW pc, NEW on, NEW audience, NEW key, NEW status,
           x.does # "watch" \/ pc \notin {"inserted", "read"}
    PROVE  /\ ~Making([x EXCEPT !.pc = pc]) /\ ~Making([x EXCEPT !.pc = pc, !.on = on])
           /\ ~Making([x EXCEPT !.pc = pc, !.audience = audience]) /\ ~Making([x EXCEPT !.pc = pc, !.key = key])
           /\ ~Making([x EXCEPT !.pc = pc, !.on = on, !.status = status])
  BY DEF Requests, Making

LEMMA SharingOfRequests ==
    ASSUME Inv, Sharing, NEW s \in Slots,
           \/ CountWatches(s) \/ LookForReport(s) \/ Leave(s) \/ Touch(s) \/ NoSuchFlag(s) \/ InsertFlag(s)
           \/ \E audience, all : SaveDefault(s, audience, all)
           \/ \E f \in Flags : \E status : ReadFlag(s, f, status)
    PROVE  Sharing'
<1> DEFINE x == req[s]
<1>1. x \in Requests
  BY DEF Inv, TypeOK
<1>2. ~Removing(x) /\ UNCHANGED <<watch, share, chosen, raced>>
  BY DEF CountWatches, LookForReport, Leave, Handled, Touch, NoSuchFlag, InsertFlag, SaveDefault, ReadFlag, Step, Quiet,
         sharing, Removing
<1>3. CASE CountWatches(s)
  <2>1. Go(s, [x EXCEPT !.pc = "counted"]) \/ Go(s, Idle)
    BY <1>3 DEF CountWatches, Done
  <2> QED BY <1>1, <1>2, <2>1, SharingBesides, AlterMakes, IdleSharesNothing
<1>4. CASE LookForReport(s)
  <2>1. \/ Go(s, Idle) \/ Go(s, [x EXCEPT !.pc = "new", !.key = x.who])
        \/ Go(s, [x EXCEPT !.pc = "found", !.on = CHOOSE f \in OpenBy(x.who) : TRUE])
    BY <1>4, Zenon DEF LookForReport, Done
  <2>2. CASE Go(s, Idle) \/ Go(s, [x EXCEPT !.pc = "new", !.key = x.who])
    BY <1>1, <1>2, <2>2, SharingBesides, AlterMakes, IdleSharesNothing
  <2>3. CASE Go(s, [x EXCEPT !.pc = "found", !.on = CHOOSE f \in OpenBy(x.who) : TRUE])
    BY <1>1, <1>2, <2>3, SharingBesides, AlterMakes
  <2> QED BY <2>1, <2>2, <2>3
<1>5. CASE Leave(s) \/ Touch(s) \/ NoSuchFlag(s) \/ InsertFlag(s)
  <2>1. Go(s, Idle)
    BY <1>5 DEF Leave, Touch, NoSuchFlag, InsertFlag, Done
  <2> QED BY <1>2, <2>1, SharingBesides, IdleSharesNothing
<1>6. CASE \E audience, all : SaveDefault(s, audience, all)
  <2>1. PICK audience : Go(s, [x EXCEPT !.pc = "saved", !.audience = audience]) \/ Go(s, Idle)
    BY <1>6 DEF SaveDefault
  <2> QED BY <1>1, <1>2, <2>1, SharingBesides, AlterMakes, IdleSharesNothing
<1>7. CASE \E f \in Flags : \E status : ReadFlag(s, f, status)
  <2>1. PICK f, status : Go(s, [x EXCEPT !.pc = "read", !.on = f, !.status = status]) \/ Go(s, Idle)
    BY <1>7, Zenon DEF ReadFlag
  <2>2. x.does # "watch"
    BY <1>7 DEF ReadFlag, Step
  <2> QED BY <1>1, <1>2, <2>1, <2>2, SharingBesides, AlterMakes, IdleSharesNothing
<1> QED BY <1>3, <1>4, <1>5, <1>6, <1>7

LEMMA SharingOfArrival ==
    ASSUME Inv, Sharing, NEW s \in Slots, RaiseRing(s) \/ \E c, r, form : Arrive(s, c, r, form)
    PROVE  Sharing'
<1>1. req[s].pc = "idle" /\ UNCHANGED <<watch, share, chosen>> /\ raced \subseteq raced'
  BY ZenonT(30) DEF RaiseRing, Arrive, Free, Busy, sharing
<1>2. ~Removing(req[s]) /\ Idle \in Requests
  BY <1>1, IdleHolds DEF Removing, Held
<1>3. CASE RaiseRing(s)
  <2> DEFINE y == [Idle EXCEPT !.pc = "new", !.does = "ring", !.key = "ring"]
  <2>1. Go(s, y) \/ Go(s, Idle)
    BY <1>3 DEF RaiseRing
  <2>2. ~Making(y)
    BY <1>2 DEF Requests, Making
  <2> HIDE DEF y
  <2> QED BY <1>1, <1>2, <2>1, <2>2, SharingBesides, IdleSharesNothing
<1>4. CASE \E c, r, form : Arrive(s, c, r, form)
  <2>1. PICK c, r, form : Arrive(s, c, r, form)
    BY <1>4
  <2> DEFINE v == Resolve(c, r.door)
             kept == IF r.door = "form" THEN form ELSE NoOne
             y == [Idle EXCEPT !.pc = "begun", !.does = r.does, !.cred = c, !.who = v.subject, !.form = kept]
  <2>2. Go(s, y) \/ UNCHANGED req
    BY <2>1, Zenon DEF Arrive
  <2> HIDE DEF v, kept
  <2>3. ~Making(y)
    BY <1>2 DEF Requests, Making
  <2> HIDE DEF y
  <2>4. CASE Go(s, y)
    BY <1>1, <1>2, <2>3, <2>4, SharingBesides
  <2>5. CASE UNCHANGED req
    <3>1. \A t \in Slots : Follows(req[t], req'[t])
      BY <2>5 DEF Follows
    <3> QED BY <1>1, <2>5, <3>1, SharingStands, Zenon
  <2> QED BY <2>2, <2>4, <2>5
<1> QED BY <1>3, <1>4

LEMMA SharingOfInsert == ASSUME Inv, Sharing, NEW s \in Slots, InsertWatch(s) PROVE Sharing'
<1>1. PICK w \in Watches : /\ watch[w] = NoWatch
                           /\ watch' = [watch EXCEPT ![w] = [state |-> "live", owner |-> req[s].who]]
                           /\ Go(s, [req[s] EXCEPT !.pc = "inserted", !.on = w])
  BY DEF InsertWatch
<1> DEFINE y == [req[s] EXCEPT !.pc = "inserted", !.on = w]
<1>2. req[s] \in Requests /\ req[s].does = "watch" /\ ~Removing(req[s]) /\ UNCHANGED <<share, chosen, raced>>
  BY DEF InsertWatch, Step, Inv, TypeOK, Removing
<1>3. y.pc = "inserted" /\ y.on = w /\ y.who = req[s].who /\ Making(y) /\ ~Removing(y)
  BY <1>2 DEF Requests, Making, Removing
<1>4. \A t \in Slots : req'[t] = IF t = s THEN y ELSE req[t]
  BY <1>1 DEF Go, Inv, TypeOK
<1> HIDE DEF y
<1>5. \A v \in Watches : watch'[v] = IF v = w THEN [state |-> "live", owner |-> req[s].who] ELSE watch[v]
  BY <1>1 DEF Inv, TypeOK
<1>6. watch[w].state = "none" /\ (w \notin raced => share[w] = NoShare)
  BY <1>1, SharedOf DEF NoWatch, SharedAsChosen
<1>7. \A t \in Slots : Making(req[t]) => req[t].on # w
  BY <1>6, MadeOn
<1>8. ASSUME NEW v \in Watches, v \notin raced' PROVE SharedAsChosen(v)'
  <2>1. SharedAsChosen(v)
    BY <1>2, <1>8, SharedOf
  <2>2. CASE v = w
    BY <1>2, <1>5, <1>6, <1>8, <2>2 DEF SharedAsChosen, NoShare
  <2>3. CASE v # w
    BY <1>2, <1>3, <1>4, <1>5, <2>1, <2>3 DEF SharedAsChosen
  <2> QED BY <2>2, <2>3
<1>9. ASSUME NEW t \in Slots, Making(req'[t]) PROVE MadeAlone(t)'
  <2>1. CASE t = s
    <3>1. req'[t] = y /\ watch'[w].state = "live" /\ watch'[w].owner = y.who
      BY <1>3, <1>4, <1>5, <2>1
    <3>2. \A u \in Slots : Making(req'[u]) /\ req'[u].on = w => u = t
      BY <1>4, <1>7, <2>1
    <3> QED BY <1>2, <1>3, <1>6, <3>1, <3>2 DEF MadeAlone
  <2>2. CASE t # s
    <3>1. req'[t] = req[t] /\ Making(req[t])
      BY <1>4, <1>9, <2>2
    <3>2. req[t].on \in Watches \ {w}
      BY <1>7, <3>1, MadeOn
    <3>3. watch'[req[t].on] = watch[req[t].on]
      BY <1>5, <3>2
    <3>4. \A u \in Slots : Making(req'[u]) /\ req'[u].on = req[t].on => u = t
      BY <1>3, <1>4, <3>1, <3>2, MadeOn
    <3>5. /\ watch[req[t].on].state # "none" /\ watch[req[t].on].owner = req[t].who
          /\ req[t].on \notin raced =>
                 /\ share[req[t].on] = NoShare
                 /\ req[t].pc = "read" /\ ~req[t].stale => chosen[req[t].on] = req[t].audience
      BY <3>1, MadeOn, Zenon
    <3> QED BY <1>2, <3>1, <3>3, <3>4, <3>5 DEF MadeAlone
  <2> QED BY <2>1, <2>2
<1> QED BY <1>8, <1>9 DEF Sharing, MadeAlone

LEMMA SharingOfRead == ASSUME Inv, Sharing, NEW s \in Slots, ReadDefault(s) PROVE Sharing'
<1> DEFINE w == req[s].on
           a == DefaultOf(req[s].who)
           y == [req[s] EXCEPT !.pc = "read", !.audience = a]
<1>1. req[s] \in Requests /\ Making(req[s]) /\ ~Removing(req[s]) /\ UNCHANGED <<watch, share, raced>>
  BY DEF ReadDefault, Step, Inv, TypeOK, Making, Removing
<1>2. Go(s, y) /\ chosen' = [chosen EXCEPT ![w] = a] /\ w \in Watches
  BY <1>1, MadeOn DEF ReadDefault
<1> HIDE DEF a
<1>3. y.audience = a /\ y.on = w /\ y.who = req[s].who /\ Making(y) /\ ~Removing(y)
  BY <1>1 DEF Requests, Making, Removing
<1>4. \A t \in Slots : req'[t] = IF t = s THEN y ELSE req[t]
  BY <1>2 DEF Go, Inv, TypeOK
<1>5. \A v \in Watches : chosen'[v] = IF v = w THEN a ELSE chosen[v]
  BY <1>2 DEF Inv, TypeOK
<1>6. /\ watch[w].state # "none" /\ watch[w].owner = req[s].who
      /\ \A t \in Slots : Making(req[t]) /\ req[t].on = w => t = s
      /\ w \notin raced => share[w] = NoShare
  BY <1>1, MadeOn, Zenon
<1> HIDE DEF w, y
<1>7. ASSUME NEW v \in Watches, v \notin raced' PROVE SharedAsChosen(v)'
  <2>1. SharedAsChosen(v)
    BY <1>1, <1>7, SharedOf
  <2>2. share[v].audience \in {"none", chosen'[v]}
    BY <1>1, <1>5, <1>6, <1>7, <2>1 DEF SharedAsChosen, NoShare
  <2> QED BY <1>1, <1>3, <1>4, <2>1, <2>2 DEF SharedAsChosen
<1>8. ASSUME NEW t \in Slots, Making(req'[t]) PROVE MadeAlone(t)'
  <2>1. \A u \in Slots : Making(req'[u]) => Making(req[u]) /\ req'[u].on = req[u].on
    BY <1>1, <1>3, <1>4 DEF w
  <2>2. CASE t = s
    <3>1. req'[t] = y
      BY <1>4, <2>2
    <3>2. \A u \in Slots : Making(req'[u]) /\ req'[u].on = w => u = t
      BY <1>6, <2>1, <2>2
    <3>3. chosen'[w] = a
      BY <1>2, <1>5
    <3> QED BY <1>1, <1>3, <1>6, <3>1, <3>2, <3>3 DEF MadeAlone
  <2>3. CASE t # s
    <3>1. req'[t] = req[t] /\ Making(req[t])
      BY <1>4, <1>8, <2>3
    <3>2. req[t].on \in Watches \ {w}
      BY <1>6, <2>3, <3>1, MadeOn
    <3>3. chosen'[req[t].on] = chosen[req[t].on]
      BY <1>5, <3>2
    <3>4. \A u \in Slots : Making(req'[u]) /\ req'[u].on = req[t].on => u = t
      BY <2>1, <3>1, MadeOn
    <3>5. /\ watch[req[t].on].state # "none" /\ watch[req[t].on].owner = req[t].who
          /\ req[t].on \notin raced =>
                 /\ share[req[t].on] = NoShare
                 /\ req[t].pc = "read" /\ ~req[t].stale => chosen[req[t].on] = req[t].audience
      BY <3>1, MadeOn, Zenon
    <3> QED BY <1>1, <3>1, <3>3, <3>4, <3>5 DEF MadeAlone
  <2> QED BY <2>2, <2>3
<1> QED BY <1>7, <1>8 DEF Sharing, MadeAlone

LEMMA SharingOfRegister == ASSUME Inv, Sharing, NEW s \in Slots, Register(s) PROVE Sharing'
<1> DEFINE w == req[s].on
           a == req[s].audience
<1>1. Making(req[s]) /\ req[s].pc = "read" /\ ~Removing(req[s]) /\ UNCHANGED <<watch, chosen>> /\ Go(s, Idle)
  BY DEF Register, Done, Step, Making, Removing
<1>2. /\ share' = [share EXCEPT ![w] = [audience |-> a, members |-> {}]] /\ w \in Watches
      /\ raced \subseteq raced'
      /\ w \notin raced' => ~req[s].stale /\ watch[w].state = "live"
  BY <1>1, MadeOn DEF Register
<1>3. \A t \in Slots : req'[t] = IF t = s THEN Idle ELSE req[t]
  BY <1>1 DEF Go, Inv, TypeOK
<1>4. \A v \in Watches : share'[v] = IF v = w THEN [audience |-> a, members |-> {}] ELSE share[v]
  BY <1>2 DEF Inv, TypeOK
<1>5. /\ \A t \in Slots : Making(req[t]) /\ req[t].on = w => t = s
      /\ w \notin raced /\ ~req[s].stale => chosen[w] = a
  BY <1>1, MadeOn, Zenon
<1> HIDE DEF w, a
<1>6. ASSUME NEW v \in Watches, v \notin raced' PROVE SharedAsChosen(v)'
  <2>1. v \notin raced /\ SharedAsChosen(v)
    BY <1>2, <1>6, SharedOf
  <2>2. CASE v = w
    <3>1. watch'[v].state = "live" /\ share'[v].audience = a /\ chosen'[v] = a
      BY <1>1, <1>2, <1>4, <1>5, <1>6, <2>1, <2>2
    <3> QED BY <3>1 DEF SharedAsChosen
  <2>3. CASE v # w
    BY <1>1, <1>3, <1>4, <2>1, <2>3, IdleSharesNothing DEF SharedAsChosen
  <2> QED BY <2>2, <2>3
<1>7. ASSUME NEW t \in Slots, Making(req'[t]) PROVE MadeAlone(t)'
  <2>1. t # s /\ req'[t] = req[t] /\ Making(req[t])
    BY <1>3, <1>7, IdleSharesNothing
  <2>2. req[t].on \in Watches \ {w}
    BY <1>5, <2>1, MadeOn
  <2>3. share'[req[t].on] = share[req[t].on]
    BY <1>4, <2>2
  <2>4. \A u \in Slots : Making(req'[u]) /\ req'[u].on = req[t].on => u = t
    BY <1>3, <2>1, MadeOn, IdleSharesNothing
  <2>5. /\ watch[req[t].on].state # "none" /\ watch[req[t].on].owner = req[t].who
        /\ req[t].on \notin raced =>
               /\ share[req[t].on] = NoShare
               /\ req[t].pc = "read" /\ ~req[t].stale => chosen[req[t].on] = req[t].audience
    BY <2>1, MadeOn, Zenon
  <2> QED BY <1>1, <1>2, <2>1, <2>3, <2>4, <2>5 DEF MadeAlone
<1> QED BY <1>6, <1>7 DEF Sharing, MadeAlone

LEMMA SharingOfRemoval == ASSUME Inv, Sharing, NEW s \in Slots, RemoveWatch(s) PROVE Sharing'
<1>1. req[s] \in Requests /\ ~Making(req[s]) /\ ~Removing(req[s]) /\ UNCHANGED <<share, chosen, raced>>
  BY DEF RemoveWatch, Step, Inv, TypeOK, Making, Removing
<1>2. CASE Done(s) /\ UNCHANGED watch
  BY <1>1, <1>2, SharingBesides, IdleSharesNothing DEF Done
<1>3. CASE \E w \in Live(req[s].who) :
             /\ watch' = [watch EXCEPT ![w].state = "deleted"]
             /\ Go(s, [req[s] EXCEPT !.pc = "marked", !.on = w])
  <2>1. PICK w \in Watches : /\ watch' = [watch EXCEPT ![w] = [watch[w] EXCEPT !.state = "deleted"]]
                             /\ Go(s, [req[s] EXCEPT !.pc = "marked", !.on = w])
    BY <1>3 DEF Live
  <2> DEFINE y == [req[s] EXCEPT !.pc = "marked", !.on = w]
  <2>2. req[s].does = "unwatch"
    BY DEF RemoveWatch, Step
  <2>3. y.on = w /\ ~Making(y) /\ Removing(y)
    BY <1>1, <2>2 DEF Requests, Making, Removing
  <2>4. \A t \in Slots : req'[t] = IF t = s THEN y ELSE req[t]
    BY <2>1 DEF Go, Inv, TypeOK
  <2> HIDE DEF y
  <2>5. \A v \in Watches : watch[v] \in [state : {"none", "live", "deleted", "erased"}, owner : People \cup {Nobody}]
    BY DEF Inv, TypeOK
  <2>6. [watch[w] EXCEPT !.state = "deleted"].state = "deleted" /\ [watch[w] EXCEPT !.state = "deleted"].owner = watch[w].owner
    BY <2>5
  <2>7. \A v \in Watches : v # w => watch'[v] = watch[v]
    BY <2>1
  <2>8. watch'[w].state = "deleted" /\ watch'[w].owner = watch[w].owner
    BY <2>1, <2>6 DEF Inv, TypeOK
  <2>9. ASSUME NEW v \in Watches, v \notin raced' PROVE SharedAsChosen(v)'
    <3>1. SharedAsChosen(v)
      BY <1>1, <2>9, SharedOf
    <3>2. CASE v = w
      <4>1. Removing(req'[s]) /\ req'[s].on = v
        BY <2>3, <2>4, <3>2
      <4> QED BY <1>1, <2>8, <3>1, <3>2, <4>1 DEF SharedAsChosen
    <3>3. CASE v # w
      BY <1>1, <2>3, <2>4, <2>7, <3>1, <3>3 DEF SharedAsChosen
    <3> QED BY <3>2, <3>3
  <2>10. ASSUME NEW t \in Slots, Making(req'[t]) PROVE MadeAlone(t)'
    <3>1. t # s /\ req'[t] = req[t] /\ Making(req[t])
      BY <2>3, <2>4, <2>10
    <3>2. req[t].on \in Watches
      BY <3>1, MadeOn
    <3>3. /\ watch[req[t].on].state # "none" /\ watch[req[t].on].owner = req[t].who
          /\ req[t].on \notin raced =>
                 /\ share[req[t].on] = NoShare
                 /\ req[t].pc = "read" /\ ~req[t].stale => chosen[req[t].on] = req[t].audience
      BY <3>1, MadeOn, Zenon
    <3>4. watch'[req[t].on].state # "none" /\ watch'[req[t].on].owner = req[t].who
      BY <2>7, <2>8, <3>2, <3>3
    <3>5. \A u \in Slots : Making(req'[u]) /\ req'[u].on = req[t].on => u = t
      BY <2>3, <2>4, <3>1, MadeOn
    <3> QED BY <1>1, <3>1, <3>3, <3>4, <3>5 DEF MadeAlone
  <2> QED BY <2>9, <2>10 DEF Sharing, MadeAlone
<1> QED BY <1>2, <1>3 DEF RemoveWatch

\* What requests in the making keep when only the share rows change.
LEMMA MakingKept ==
    ASSUME Inv, Sharing, NEW t \in Slots, Making(req[t]), req'[t] = req[t], UNCHANGED watch, raced \subseteq raced',
           \A u \in Slots : Making(req'[u]) => Making(req[u]) /\ req'[u].on = req[u].on,
           req[t].on \notin raced /\ share[req[t].on] = NoShare => share'[req[t].on] = NoShare,
           req[t].on \notin raced /\ share[req[t].on] = NoShare /\ req[t].pc = "read" /\ ~req[t].stale =>
              chosen'[req[t].on] = chosen[req[t].on]
    PROVE  MadeAlone(t)'
<1>1. /\ watch[req[t].on].state # "none" /\ watch[req[t].on].owner = req[t].who
      /\ \A u \in Slots : Making(req[u]) /\ req[u].on = req[t].on => u = t
      /\ req[t].on \notin raced =>
             /\ share[req[t].on] = NoShare
             /\ req[t].pc = "read" /\ ~req[t].stale => chosen[req[t].on] = req[t].audience
  BY MadeOn, Zenon
<1>2. \A u \in Slots : Making(req'[u]) /\ req'[u].on = req[t].on => u = t
  BY <1>1
<1> QED BY <1>1, <1>2 DEF MadeAlone

LEMMA SharingOfForget == ASSUME Inv, Sharing, NEW s \in Slots, Forget(s) PROVE Sharing'
<1> DEFINE w == req[s].on
<1>1. Go(s, Idle) /\ ~Making(req[s]) /\ UNCHANGED <<watch, chosen, raced>> /\ share' = [share EXCEPT ![w] = NoShare]
  BY DEF Forget, Done, Step, Making
<1>2. \A t \in Slots : req'[t] = IF t = s THEN Idle ELSE req[t]
  BY <1>1 DEF Go, Inv, TypeOK
<1>3. \A v \in Watches : share'[v] = IF v = w THEN NoShare ELSE share[v]
  BY <1>1 DEF Inv, TypeOK
<1>4. \A t \in Slots : Removing(req[t]) /\ req[t].on # w => Removing(req'[t]) /\ req'[t].on = req[t].on
  BY <1>2
<1> HIDE DEF w
<1>5. ASSUME NEW v \in Watches, v \notin raced' PROVE SharedAsChosen(v)'
  <2>1. SharedAsChosen(v)
    BY <1>1, <1>5, SharedOf
  <2>2. CASE v = w
    BY <1>3, <2>2 DEF SharedAsChosen, NoShare
  <2>3. CASE v # w
    BY <1>1, <1>3, <1>4, <2>1, <2>3 DEF SharedAsChosen
  <2> QED BY <2>2, <2>3
<1>6. ASSUME NEW t \in Slots, Making(req'[t]) PROVE MadeAlone(t)'
  <2>1. \A u \in Slots : Making(req'[u]) => Making(req[u]) /\ req'[u] = req[u]
    BY <1>2, IdleSharesNothing
  <2>2. req[t].on \in Watches
    BY <1>6, <2>1, MadeOn
  <2>3. share[req[t].on] = NoShare => share'[req[t].on] = NoShare
    BY <1>3, <2>2
  <2> QED BY <1>1, <1>6, <2>1, <2>3, MakingKept
<1> QED BY <1>5, <1>6 DEF Sharing, MadeAlone

LEMMA SharingOfApplyAll == ASSUME Inv, Sharing, NEW s \in Slots, ApplyAll(s) PROVE Sharing'
<1> DEFINE p == req[s].who
           a == req[s].audience
           b == [t \in Slots |-> req[t].stale \/ (Step(t, "watch", "read") /\ req[t].who = p)]
<1>1. UNCHANGED <<watch, raced>> /\ ~Removing(req[s])
  BY DEF ApplyAll, Step, Removing
<1>2. \A v \in Watches :
         /\ share'[v] = IF watch[v].owner = p /\ share[v].audience # "none" THEN [share[v] EXCEPT !.audience = a] ELSE share[v]
         /\ chosen'[v] = IF watch[v].owner = p THEN a ELSE chosen[v]
  BY DEF ApplyAll
<1>3. req' = [t \in Slots |-> IF t = s THEN Idle ELSE [req[t] EXCEPT !.stale = b[t]]]
  BY Zenon DEF ApplyAll
<1>4. \A t \in Slots : /\ Step(t, "watch", "read") /\ req[t].who = p => b[t]
                       /\ req[t].stale => b[t]
  BY Zenon
<1> HIDE DEF p, a, b
<1>5. ASSUME NEW t \in Slots, t # s
      PROVE  /\ req'[t].does = req[t].does /\ req'[t].pc = req[t].pc /\ req'[t].on = req[t].on
             /\ req'[t].who = req[t].who /\ req'[t].audience = req[t].audience /\ req'[t].stale = b[t]
  <2>1. req[t] \in Requests /\ req'[t] = [req[t] EXCEPT !.stale = b[t]]
    BY <1>3, <1>5 DEF Inv, TypeOK
  <2> QED BY <2>1 DEF Requests
<1>6. req'[s] = Idle
  BY <1>3
<1>7. \A v \in Watches : share[v] \in [audience : Audiences \cup {"none"}, members : SUBSET People]
  BY DEF Inv, TypeOK
<1>8. \A v \in Watches : share[v] = NoShare => share'[v] = NoShare
  <2>1. NoShare.audience = "none"
    BY DEF NoShare
  <2> QED BY <1>2, <2>1
<1>9. ASSUME NEW v \in Watches, v \notin raced' PROVE SharedAsChosen(v)'
  <2>1. SharedAsChosen(v)
    BY <1>1, <1>9, SharedOf
  <2>2. share'[v].audience \in {"none", chosen'[v]}
    <3>1. CASE watch[v].owner = p /\ share[v].audience # "none"
      BY <1>2, <1>7, <3>1
    <3>2. CASE ~(watch[v].owner = p /\ share[v].audience # "none")
      BY <1>2, <2>1, <3>2 DEF SharedAsChosen
    <3> QED BY <3>1, <3>2
  <2>3. \A t \in Slots : Removing(req[t]) => Removing(req'[t]) /\ req'[t].on = req[t].on
    BY <1>1, <1>5 DEF Removing
  <2> QED BY <1>1, <1>8, <2>1, <2>2, <2>3 DEF SharedAsChosen
<1>10. ASSUME NEW t \in Slots, Making(req'[t]) PROVE MadeAlone(t)'
  <2>1. \A u \in Slots : Making(req'[u]) => u # s /\ Making(req[u]) /\ req'[u].on = req[u].on
    BY <1>5, <1>6, IdleSharesNothing DEF Making
  <2>2. t # s /\ Making(req[t]) /\ req'[t].on = req[t].on /\ req'[t].who = req[t].who
    BY <1>5, <1>10, <2>1
  <2>3. /\ req[t].on \in Watches
        /\ watch[req[t].on].state # "none" /\ watch[req[t].on].owner = req[t].who
        /\ \A u \in Slots : Making(req[u]) /\ req[u].on = req[t].on => u = t
        /\ req[t].on \notin raced =>
               /\ share[req[t].on] = NoShare
               /\ req[t].pc = "read" /\ ~req[t].stale => chosen[req[t].on] = req[t].audience
    BY <2>2, MadeOn, Zenon
  <2>4. \A u \in Slots : Making(req'[u]) /\ req'[u].on = req'[t].on => u = t
    BY <2>1, <2>2, <2>3
  <2>5. req'[t].on \notin raced' => share'[req'[t].on] = NoShare
    BY <1>1, <1>8, <2>2, <2>3
  <2>6. ASSUME req'[t].on \notin raced', req'[t].pc = "read", ~req'[t].stale
        PROVE  chosen'[req'[t].on] = req'[t].audience
    <3>1. req[t].pc = "read" /\ ~b[t] /\ req'[t].audience = req[t].audience
      BY <1>5, <2>2, <2>6
    <3>2. req[t].who # p /\ ~req[t].stale
      BY <1>4, <2>2, <3>1 DEF Step, Making
    <3>3. chosen'[req[t].on] = chosen[req[t].on]
      BY <1>2, <2>3, <3>2
    <3> QED BY <1>1, <2>2, <2>3, <2>6, <3>1, <3>2, <3>3
  <2> QED BY <1>1, <2>2, <2>3, <2>4, <2>5, <2>6 DEF MadeAlone
<1> QED BY <1>9, <1>10 DEF Sharing, MadeAlone

LEMMA SharingOfSheet ==
    ASSUME Inv, Sharing, NEW w \in Watches, NEW audience, NEW members, ShareSheet(w, audience, members)
    PROVE  Sharing'
<1>1. /\ watch[w].state = "live" /\ share[w].audience # "none" /\ UNCHANGED <<watch, req>> /\ raced \subseteq raced'
      /\ share' = [share EXCEPT ![w] = [audience |-> audience, members |-> members]]
      /\ chosen' = [chosen EXCEPT ![w] = audience]
  BY DEF ShareSheet
<1>2. \A v \in Watches : /\ share'[v] = IF v = w THEN [audience |-> audience, members |-> members] ELSE share[v]
                         /\ chosen'[v] = IF v = w THEN audience ELSE chosen[v]
  BY <1>1 DEF Inv, TypeOK
<1>3. ASSUME NEW v \in Watches, v \notin raced' PROVE SharedAsChosen(v)'
  <2>1. SharedAsChosen(v)
    BY <1>1, <1>3, SharedOf
  <2>2. CASE v = w
    BY <1>1, <1>2, <2>2 DEF SharedAsChosen
  <2>3. CASE v # w
    BY <1>1, <1>2, <2>1, <2>3 DEF SharedAsChosen
  <2> QED BY <2>2, <2>3
<1>4. ASSUME NEW t \in Slots, Making(req'[t]) PROVE MadeAlone(t)'
  <2>1. Making(req[t]) /\ req'[t] = req[t] /\ \A u \in Slots : Making(req'[u]) => Making(req[u]) /\ req'[u].on = req[u].on
    BY <1>1, <1>4
  <2>2. req[t].on \in Watches
    BY <2>1, MadeOn
  <2>3. share[req[t].on] = NoShare => share'[req[t].on] = NoShare /\ chosen'[req[t].on] = chosen[req[t].on]
    BY <1>1, <1>2, <2>2 DEF NoShare
  <2> QED BY <1>1, <2>1, <2>3, MakingKept
<1> QED BY <1>3, <1>4 DEF Sharing, MadeAlone

LEMMA SharingOfDeletion == ASSUME Inv, Sharing, NEW p \in People, Deliver(p) PROVE Sharing'
<1>1. watch' = WatchesErasedOf(p) /\ share' = SharesLeftBy(p) /\ raced \subseteq raced' /\ UNCHANGED <<chosen, req>>
  BY DEF Deliver
<1>2. \A w \in Watches : /\ watch[w] \in [state : {"none", "live", "deleted", "erased"}, owner : People \cup {Nobody}]
                         /\ share[w] \in [audience : Audiences \cup {"none"}, members : SUBSET People]
  BY DEF Inv, TypeOK
<1>3. \A w \in Watches :
         /\ watch'[w] = IF watch[w].owner = p THEN [watch[w] EXCEPT !.state = "erased"] ELSE watch[w]
         /\ share'[w] = IF watch[w].owner = p THEN NoShare ELSE [share[w] EXCEPT !.members = share[w].members \ {p}]
  BY <1>1 DEF WatchesErasedOf, SharesLeftBy
<1>4. \A w \in Watches : watch'[w].owner = watch[w].owner
  BY <1>2, <1>3
<1>5. \A w \in Watches : watch[w].owner # p => watch'[w] = watch[w] /\ share'[w].audience = share[w].audience
  BY <1>2, <1>3
<1>6. \A w \in Watches : share[w] = NoShare => share'[w] = NoShare
  <2> TAKE w \in Watches
  <2> HAVE share[w] = NoShare
  <2>1. [NoShare EXCEPT !.members = NoShare.members \ {p}] = NoShare
    BY DEF NoShare
  <2> QED BY <1>3, <2>1
<1>7. \A w \in Watches : watch[w].owner = p => watch'[w].state = "erased" /\ share'[w] = NoShare
  BY <1>2, <1>3
<1>8. ASSUME NEW w \in Watches, w \notin raced' PROVE SharedAsChosen(w)'
  <2>1. SharedAsChosen(w)
    BY <1>1, <1>8, SharedOf
  <2>2. CASE watch[w].owner = p
    BY <1>7, <2>2 DEF SharedAsChosen, NoShare
  <2>3. CASE watch[w].owner # p
    BY <1>1, <1>5, <1>6, <2>1, <2>3 DEF SharedAsChosen
  <2> QED BY <2>2, <2>3
<1>9. ASSUME NEW t \in Slots, Making(req[t]) PROVE MadeAlone(t)'
  <2>1. /\ req[t].on \in Watches
        /\ watch[req[t].on].state # "none" /\ watch[req[t].on].owner = req[t].who
        /\ \A u \in Slots : Making(req[u]) /\ req[u].on = req[t].on => u = t
        /\ req[t].on \notin raced =>
               /\ share[req[t].on] = NoShare
               /\ req[t].pc = "read" /\ ~req[t].stale => chosen[req[t].on] = req[t].audience
    BY <1>9, MadeOn, Zenon
  <2>2. watch'[req[t].on].state # "none" /\ watch'[req[t].on].owner = req[t].who
    BY <1>4, <1>5, <1>7, <2>1
  <2>3. share[req[t].on] = NoShare => share'[req[t].on] = NoShare
    BY <1>6, <2>1
  <2> QED BY <1>1, <2>1, <2>2, <2>3 DEF MadeAlone
<1> QED BY <1>1, <1>8, <1>9 DEF Sharing, MadeAlone

\* A restart ends requests: what they removed in part has been overtaken.
LEMMA SharingBeside ==
    ASSUME Inv, Sharing,
           \/ UNCHANGED vars \/ Restart \/ WindowPasses
           \/ \E s \in Slots : Decide(s)
           \/ \E p \in People : Announce(p) \/ DeliveryFails(p)
    PROVE  Sharing'
<1>1. UNCHANGED <<watch, share, chosen>> /\ raced \subseteq raced'
  BY DEF Restart, WindowPasses, Decide, Announce, DeliveryFails, sharing, vars
<1>2. CASE UNCHANGED vars \/ WindowPasses \/ \E p \in People : Announce(p) \/ DeliveryFails(p)
  <2>1. UNCHANGED req
    BY <1>2 DEF WindowPasses, Announce, DeliveryFails, vars
  <2>2. \A t \in Slots : Follows(req[t], req'[t])
    BY <2>1 DEF Follows
  <2> QED BY <1>1, <2>1, <2>2, SharingStands, Zenon
<1>3. CASE Restart
  <2>1. /\ \A t \in Slots : req'[t] = Idle
        /\ \A t \in Slots : Removing(req[t]) => req[t].on \in raced'
    BY <1>3 DEF Restart, Step, Removing
  <2>2. \A t \in Slots : Follows(req[t], req'[t])
    BY <2>1, IdleSharesNothing DEF Follows
  <2> QED BY <1>1, <2>1, <2>2, SharingStands, Zenon
<1>4. CASE \E s \in Slots : Decide(s)
  <2>1. PICK s \in Slots : Decide(s)
    BY <1>4
  <2> DEFINE b == [t \in Slots |-> req[t].stale \/ (Step(t, "decide", "read") /\ req[t].on = req[s].on)]
  <2>2. req' = [t \in Slots |-> IF t = s THEN Idle ELSE [req[t] EXCEPT !.stale = b[t]]]
    BY <2>1, Zenon DEF Decide
  <2>3. \A t \in Slots : req[t].stale => b[t]
    BY Zenon
  <2>4. ~Removing(req[s])
    BY <2>1 DEF Decide, Step, Removing
  <2> HIDE DEF b
  <2>5. ASSUME NEW t \in Slots, t # s
        PROVE  /\ req'[t].does = req[t].does /\ req'[t].pc = req[t].pc /\ req'[t].on = req[t].on
               /\ req'[t].who = req[t].who /\ req'[t].audience = req[t].audience /\ req'[t].stale = b[t]
    <3>1. req[t] \in Requests /\ req'[t] = [req[t] EXCEPT !.stale = b[t]]
      BY <2>2, <2>5 DEF Inv, TypeOK
    <3> QED BY <3>1 DEF Requests
  <2>6. \A t \in Slots : Follows(req[t], req'[t])
    <3> TAKE t \in Slots
    <3>1. CASE t = s
      BY <2>2, <3>1, IdleSharesNothing DEF Follows
    <3>2. CASE t # s
      BY <2>3, <2>5, <3>2 DEF Follows, Making
    <3> QED BY <3>1, <3>2
  <2>7. \A t \in Slots : Removing(req[t]) => Removing(req'[t]) /\ req'[t].on = req[t].on
    BY <2>4, <2>5 DEF Removing
  <2> QED BY <1>1, <2>6, <2>7, SharingStands, Zenon
<1> QED BY <1>2, <1>3, <1>4

LEMMA SharingKept == ASSUME Inv, Sharing, [Next]_vars PROVE Sharing'
<1>1. CASE UNCHANGED vars \/ Restart \/ WindowPasses
  BY <1>1, SharingBeside, Zenon
<1>2. ASSUME NEW s \in Slots, NEW c \in About.creds, NEW r \in About.routes,
             IF r.door = "api" THEN Arrive(s, c, r, NoOne)
             ELSE \E of \in People, l \in 0 .. life : Arrive(s, c, r, [of |-> of, life |-> l])
      PROVE  Sharing'
  BY <1>2, SharingOfArrival, Zenon
<1>3. ASSUME NEW s \in Slots,
             \/ CountWatches(s) \/ LookForReport(s) \/ Leave(s) \/ Touch(s) \/ NoSuchFlag(s) \/ InsertFlag(s)
             \/ \E audience \in About.audiences, all \in BOOLEAN : SaveDefault(s, audience, all)
             \/ \E f \in Flags, status \in {"resolved", "dismissed"} : ReadFlag(s, f, status)
      PROVE  Sharing'
  BY <1>3, SharingOfRequests, Zenon
<1>4. ASSUME NEW s \in Slots, InsertWatch(s) \/ ReadDefault(s) \/ Register(s) \/ RemoveWatch(s) \/ Forget(s) \/ ApplyAll(s)
      PROVE  Sharing'
  BY <1>4, SharingOfInsert, SharingOfRead, SharingOfRegister, SharingOfRemoval, SharingOfForget, SharingOfApplyAll
<1>5. ASSUME NEW s \in Slots, RaiseRing(s) \/ Decide(s) PROVE Sharing'
  BY <1>5, SharingOfArrival, SharingBeside, Zenon
<1>6. ASSUME NEW w \in Watches, NEW audience \in About.audiences, NEW members \in SUBSET People,
             ShareSheet(w, audience, members)
      PROVE  Sharing'
  BY <1>6, SharingOfSheet, Zenon
<1>7. ASSUME NEW p \in People, Announce(p) \/ Deliver(p) \/ DeliveryFails(p) PROVE Sharing'
  BY <1>7, SharingBeside, SharingOfDeletion, Zenon
<1> QED
  BY <1>1, <1>2, <1>3, <1>4, <1>5, <1>6, <1>7, Zenon DEF Next

\* Whom a door shows a watch to is its owner, or somebody its share row lets in.
LEMMA ViewedByRight ==
    ASSUME Inv, NEW c \in Credentials, NEW door \in {"api", "form"}, NEW w \in Watches,
           share[w].audience \in {"none", chosen[w]}, View(Resolve(c, door), w)
    PROVE  MayRead(c, w)
<1> DEFINE v == Resolve(c, door)
<1>1. /\ v.subject # Nobody => ActsFor(c, v.subject)
      /\ v.kind = "user" => c.token = "user"
  BY ViewerOfToken
<1>2. (v.subject # Nobody /\ v.subject = watch[w].owner) \/ CanView(v, w)
  BY DEF View
<1> HIDE DEF v
<1>3. CASE v.subject # Nobody /\ v.subject = watch[w].owner
  BY <1>1, <1>3, Zenon DEF MayRead
<1>4. CASE share[w].audience \in {"link", "public"}
  BY <1>4 DEF MayRead
<1>5. CASE share[w].audience = "people" /\ SignedIn(v) /\ v.subject \in share[w].members
  <2>1. chosen[w] = "people" /\ c.token = "user" /\ ActsFor(c, v.subject)
    BY <1>1, <1>5 DEF SignedIn
  <2> QED BY <1>5, <2>1, Zenon DEF MayRead
<1> QED BY <1>2, <1>3, <1>4, <1>5 DEF CanView

\* A watch is read by whom its owner chose, through either door, and has that
\* audience; a removed one answers as if it never was (view, watches.js; register,
\* setDefault and forget, sharing.js), but for what overtook it.
THEOREM WatchesAreReadByRight == Spec => []AudienceAsChosen
<1>1. Init => Sharing
  <2> SUFFICES ASSUME Init PROVE Sharing
    OBVIOUS
  <2>1. \A w \in Watches : watch[w].state = "none" /\ share[w] = NoShare /\ NoShare.audience = "none"
    BY DEF Init, NoWatch, NoShare
  <2>2. \A s \in Slots : ~Making(req[s])
    BY IdleSharesNothing DEF Init
  <2> QED BY <2>1, <2>2 DEF Sharing, SharedAsChosen, MadeAlone
<1>2. Inv /\ Sharing /\ [Next]_vars => Sharing'
  BY SharingKept
<1>3. Inv /\ Sharing => AudienceAsChosen
  <2> SUFFICES ASSUME Inv, Sharing, NEW w \in Watches, w \notin raced
               PROVE  /\ watch[w].state = "live" =>
                           /\ \A c \in About.creds : CanRead(c, w) => MayRead(c, w)
                           /\ share[w].audience \in {"none", chosen[w]}
                      /\ watch[w].state \in {"deleted", "erased"} /\ (\A s \in Slots : req[s].on # w) =>
                           \A c \in About.creds : WatchPage(c, w) = "not found"
    BY DEF AudienceAsChosen
  <2>1. SharedAsChosen(w)
    BY SharedOf
  <2>2. ASSUME NEW c \in About.creds, CanRead(c, w) PROVE MayRead(c, w)
    <3>1. View(Resolve(c, "api"), w) \/ View(Resolve(c, "form"), w)
      BY <2>2, Zenon DEF CanRead, ApiShows, WatchPage
    <3>2. c \in Credentials /\ share[w].audience \in {"none", chosen[w]}
      BY <2>1, ScenesOf DEF SharedAsChosen
    <3> QED BY <3>1, <3>2, ViewedByRight
  <2>3. ASSUME watch[w].state \in {"deleted", "erased"}, \A s \in Slots : req[s].on # w, NEW c \in About.creds
        PROVE  WatchPage(c, w) = "not found"
    <3>1. share[w] = NoShare
      BY <2>1, <2>3 DEF SharedAsChosen
    <3>2. share[w].audience # "people"
      BY <3>1 DEF NoShare
    <3>3. ~View(Resolve(c, "form"), w)
      BY <2>3 DEF View
    <3> QED BY <3>2, <3>3 DEF WatchPage
  <2> QED BY <2>1, <2>2, <2>3 DEF SharedAsChosen
<1> QED BY <1>1, <1>2, <1>3, InvariantHolds, PTL DEF Spec
=============================================================================
