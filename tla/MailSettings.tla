---------------------------- MODULE MailSettings ----------------------------
(***************************************************************************)
(* The settings of the mail connector: EmailIngestConfig of                *)
(* email_ingest.py, and what the settings page may save (email_review.py). *)
(*                                                                         *)
(* A mailbox is [id, auth, app], where app says that the two ids of an     *)
(* application are given.  A route is [client, senders, product, box]; its *)
(* senders are patterns [kind, name, domain]: one address, all of a domain,*)
(* or anyone.  The default mailbox is made of the top-level fields.        *)
(***************************************************************************)
EXTENDS Integers, Sequences, FiniteSets, FiniteSetsExt

CONSTANT Default   \* DEFAULT_MAILBOX_ID

AuthMethods == {"password", "oauth_microsoft", "oauth_google"}

\* MailboxSpec.__post_init__
WellFormed(box) == box.id # "" /\ box.auth \in AuthMethods /\ (box.auth = "oauth_microsoft" => box.app)

\* default_mailbox; every reader of all_mailboxes makes it anew, and fails if it is not well
\* formed.
DefaultBox(s) == [id |-> Default, auth |-> s.auth, app |-> s.app]
AllBoxes(s) == <<DefaultBox(s)>> \o s.boxes

\* validate_bindings: ids are distinct, "default" is reserved, every route has its mailbox.
BindingsHold(s) ==
  /\ \A i, j \in DOMAIN s.boxes : s.boxes[i].id = s.boxes[j].id => i = j
  /\ \A i \in DOMAIN s.boxes : s.boxes[i].id # Default
  /\ \A i \in DOMAIN s.routes :
       s.routes[i].box \in {Default} \cup {s.boxes[j].id : j \in DOMAIN s.boxes}

\* from_dict: dedicated mailboxes are made, the default one is not.
Loads(s) == (\A i \in DOMAIN s.boxes : WellFormed(s.boxes[i])) /\ BindingsHold(s)

\* put_settings: what it saves.
Savable(s) ==
  /\ \A i \in DOMAIN s.routes : s.routes[i].client # "" /\ s.routes[i].senders # {}
  /\ Loads(s)

\* put_templates: a set requires types that a template defines.
TemplatesHold(r) ==
  \A p \in DOMAIN r.sets : r.sets[p] \subseteq {r.templates[i].type : i \in DOMAIN r.templates}

\* polled_mailboxes: those with a route, and the default one while there is no route at all.
Bound(s, id) == {i \in DOMAIN s.routes : s.routes[i].box = id}
Polled(s) ==
  IF ~WellFormed(DefaultBox(s)) THEN {}
  ELSE {b \in {AllBoxes(s)[i].id : i \in DOMAIN AllBoxes(s)} :
          Bound(s, b) # {} \/ (b = Default /\ s.routes = <<>>)}

\* MailboxRoute.matches
Admits(route, addr) ==
  \E p \in route.senders :
    \/ p.kind = "anyone"
    \/ p.kind = "domain" /\ p.domain = addr.domain
    \/ p.kind = "address" /\ p.domain = addr.domain /\ p.name = addr.name

\* route_for: the first route of this mailbox that admits the sender.
RouteFor(s, addr, id) ==
  LET fit == {i \in Bound(s, id) : Admits(s.routes[i], addr)}
  IN IF fit = {} THEN {} ELSE {s.routes[Min(fit)]}
=============================================================================
