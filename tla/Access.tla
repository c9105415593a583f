------------------------------- MODULE Access -------------------------------
(***************************************************************************)
(* Who a request speaks for and what it may do: the viewer made from its   *)
(* token (auth/viewer.js), the capability guards, gates and budgets of the *)
(* API's routes and of the page forms that do the same (http/api.js,       *)
(* http/pages.js, http/actor-limits.js), and the domain's rights           *)
(* (domain/access.js).  Reads that change nothing are not routes here,     *)
(* except those of a watch, which need a right; nor are the owner settings *)
(* and the Share sheet, whose routers and rules are other libraries'.      *)
(***************************************************************************)
EXTENDS FiniteSets

CONSTANTS
    People, Nobody,
    Moderators,     \* config.moderators
    Poster          \* who submitted the deal that requests are about, or Nobody

ASSUME AccessAssumption == Nobody \notin People /\ Moderators \subseteq People

Caps == {"deals.offer.submit", "deals.offer.update", "deals.offer.expire", "deals.offer.merge",
         "deals.offer.moderate", "deals.vote.set", "deals.vote.remove", "deals.watch.create",
         "deals.watch.read", "deals.watch.delete", "deals.product.resolve", "deals.flag.create"}

\* What a request presents: whose token, and X-OV-Subject.  `owner` is the
\* person of a browser's token, or who authorised an app (on_behalf_of).
Credentials ==
    [token : {"none", "user", "svc", "app"}, verified : BOOLEAN, sandbox : BOOLEAN, staff : BOOLEAN,
     owner : People \cup {Nobody}, names : People \cup {Nobody}, caps : SUBSET Caps, relays : BOOLEAN]

\* "visitor" stands for the address of whoever is not signed in.
Actors == People \cup {"visitor", "svc", "app"}

-----------------------------------------------------------------------------
(* Viewers.                                                                *)

Unknown(kind) == [kind |-> kind, subject |-> Nobody, staff |-> FALSE, caps |-> {}, principal |-> "visitor"]
Anonymous == Unknown("anonymous")
Refused   == Unknown("refused")

Principal(c, p) ==
    [kind |-> "service", subject |-> p, staff |-> FALSE, caps |-> c.caps,
     principal |-> IF c.token = "svc" /\ c.relays THEN "visitor" ELSE c.token]

\* A fault: an app speaks for whoever it names.
TrustsTheHeader(c) ==
    IF ~c.verified \/ (c.token = "app" /\ c.sandbox) THEN Refused
    ELSE Principal(c, IF c.names # Nobody THEN c.names ELSE IF c.token = "app" THEN c.owner ELSE Nobody)

\* A service may name anybody; an app or module only who authorised it, and
\* without naming them it acts for them.  A bad token is never anonymous.
FromServiceToken(c) ==
    CASE ~c.verified                                              -> Refused
      [] c.token = "app" /\ c.sandbox                             -> Refused
      [] c.token = "app" /\ c.names \notin {Nobody, c.owner}      -> Refused
      [] OTHER -> Principal(c, IF c.names # Nobody THEN c.names
                               ELSE IF c.token = "app" THEN c.owner ELSE Nobody)

FromUserToken(c) ==
    IF ~c.verified THEN Anonymous
    ELSE [kind |-> "user", subject |-> c.owner, caps |-> {}, principal |-> "visitor",
          staff |-> c.staff \/ c.owner \in Moderators]

\* On a page a service's token is no identity.
Resolve(c, door) ==
    CASE c.token = "none" -> Anonymous
      [] c.token = "user" -> FromUserToken(c)
      [] OTHER            -> IF door = "form" THEN Anonymous ELSE FromServiceToken(c)

Guard(v, cap) == v.kind = "service" => cap \in v.caps

\* Whom a request is counted against.
Actor(v) == IF v.subject # Nobody THEN v.subject ELSE v.principal

SignedIn(v) == v.kind = "user" /\ v.subject # Nobody

-----------------------------------------------------------------------------
(* Rights.                                                                 *)

IsStaff(v) == v.kind = "user" /\ v.staff

IsModerator(v, cap) == IsStaff(v) \/ (v.kind = "service" /\ cap \in v.caps)

CanEdit(v) ==
    /\ v.kind # "anonymous"
    /\ IsModerator(v, "deals.offer.moderate") \/ (Poster # Nobody /\ v.subject = Poster)

NeedSubject(v) == v.subject # Nobody

\* What stands between a viewer and the operation once its budget is charged.
Passes(v, need) ==
    CASE need = "subject"   -> NeedSubject(v)
      [] need = "editor"    -> CanEdit(v)
      [] need = "merger"    -> IsModerator(v, "deals.offer.merge")
      [] need = "moderator" -> IsModerator(v, "deals.offer.moderate")
      [] need = "staff"     -> IsStaff(v)
      [] need = "someone"   -> v.subject # Nobody \/ v.kind = "service"

-----------------------------------------------------------------------------
(* Routes.                                                                 *)

Api(does, cap, budget, need) ==
    [door |-> "api", does |-> does, cap |-> cap, budget |-> budget, need |-> need]
Form(does, budget, need) ==
    [door |-> "form", does |-> does, cap |-> "", budget |-> budget, need |-> need]

OfferRoutes ==
    {Api("submit", "deals.offer.submit", "deals.offer.submit", "subject"),
     Api("update", "deals.offer.update", "deals.offer.update", "editor"),
     Api("observe", "deals.offer.update", "deals.offer.observe", "subject"),
     Api("expire", "deals.offer.expire", "deals.offer.update", "editor"),
     Api("vote", "deals.vote.set", "deals.vote", "subject"),
     Api("unvote", "deals.vote.remove", "deals.vote", "subject"),
     Api("report", "deals.flag.create", "deals.flag.create", "subject")}
    \cup {Api(does, "deals.offer.merge", "deals.offer.moderate", "merger") : does \in {"merge", "unmerge"}}
    \cup {Api(does, "deals.offer.moderate", "deals.offer.moderate", "moderator") :
             does \in {"disable", "enable", "review"}}
FlagRoute == {Api("decide", "deals.offer.moderate", "deals.offer.moderate", "moderator")}
ProductRoute == {Api("product", "deals.product.resolve", "deals.product.resolve", "someone")}
WatchRoutes ==
    {Api("watch", "deals.watch.create", "deals.watch", "subject"),
     Api("unwatch", "deals.watch.delete", "deals.watch", "subject")}

DealForms ==
    {Form(does, "deals.vote", "subject") : does \in {"vote", "unvote"}}
    \cup {Form("observe", "deals.offer.observe", "subject"), Form("report", "deals.flag.create", "subject"),
          Form("expire", "deals.offer.update", "editor"), Form("comment", "deals.comment.create", "subject")}
SubmitForm == {Form("submit", "deals.offer.submit", "subject")}
DefaultsForm == {Form("default", "", "subject")}
WatchForms == {Form(does, "deals.watch", "subject") : does \in {"watch", "unwatch"}}
ModOfferForms ==
    {Form(does, "deals.offer.moderate", "staff") :
        does \in {"merge", "unmerge", "disable", "enable", "review", "expire"}}
ModFlagForms == {Form("decide", "deals.offer.moderate", "staff")}

Routes == UNION {OfferRoutes, FlagRoute, ProductRoute, WatchRoutes, DealForms, SubmitForm, DefaultsForm,
                 WatchForms, ModOfferForms, ModFlagForms}
Budgets == {r.budget : r \in Routes} \ {""}

\* A form opened for `of` while process `life` ran, and the process it is sent
\* to: the key may be one of the process (forms.js).
FormOk(v, form, secretSet, now) ==
    v.subject # Nobody /\ form.of = v.subject /\ (secretSet \/ form.life = now)

Admitted(v, r, form, secretSet, now) ==
    /\ r.door = "form" => SignedIn(v) /\ FormOk(v, form, secretSet, now)
    /\ Passes(v, r.need)
=============================================================================
