--------------------------- MODULE DocumentRules ---------------------------
(***************************************************************************)
(* Which mails may enter the pipeline: validate_message and detect_product *)
(* of email_ingest.py with the DocumentValidator of email_validation.py,   *)
(* and the settings and templates they work by, which an operator saves at *)
(* any time and the connector reads when it starts.                        *)
(*                                                                         *)
(* A text is the set of the keywords found in it; a subject the set of the *)
(* product hints found in it; a hash the document itself; what a verdict    *)
(* remembers is the set of documents taken so far.                         *)
(***************************************************************************)
EXTENDS MailSettings, SequencesExt

CONSTANTS None, Messages,
          Settings,    \* settings files: as in MailSettings, and templates (templates_file), sets
                       \* (enforce_document_set) and checked (require_authentication)
          Catalogs,    \* doc_templates.json: [templates, sets]; a template is [type, required,
                       \* markers, minAny, minPages, maxPages], a set the types of a product
          Hints,       \* PRODUCT_SUBJECT_HINTS in order: [product, word, length]
          MaxDocs,     \* MAX_DOCS_PER_MAIL
          MaxMails,    \* bound: mails judged
          MaxPuts      \* bound: files saved

ASSUME RulesAssumption ==
  /\ {MaxDocs, MaxMails, MaxPuts} \subseteq Nat
  /\ \A c \in Catalogs : /\ None \notin DOMAIN c.sets
                         /\ \A i \in DOMAIN c.templates : c.templates[i].type # None
                         /\ IsFiniteSet(DOMAIN c.sets)
                         /\ \A p \in DOMAIN c.sets : IsFiniteSet(c.sets[p])
  /\ \A s \in Settings : s.boxes \in Seq(Range(s.boxes))
  /\ \A m \in Messages : m.docs \in Seq(Range(m.docs))

VARIABLES
  saved,     \* the two files: settings, catalog
  loaded,    \* the same as the connector has them
  taken,     \* the documents taken
  mail,      \* the mail judged last
  verdict,   \* its verdict
  before,    \* history: what had been taken before it
  count, puts   \* mails judged and files saved, for the bounds

rvars == <<saved, loaded, taken, mail, verdict, before, count, puts>>

cfg == loaded.settings
Templates == loaded.catalog.templates
DocSets == loaded.catalog.sets

-----------------------------------------------------------------------------
(* The validator *)

\* DocTemplate.matches
Matches(t, doc) ==
  /\ t.required \subseteq doc.words
  /\ t.markers # {} => Cardinality(t.markers \cap doc.words) >= t.minAny
  /\ doc.pages \in t.minPages..t.maxPages

\* The more keywords a template requires, then the more of its markers hit, the better.
Better(s, t, doc) ==
  LET size(u) == Cardinality(u.required)
      hits(u) == Cardinality(u.markers \cap doc.words)
  IN size(s) > size(t) \/ (size(s) = size(t) /\ hits(s) > hits(t))

\* classify: the best template, the first in the file among equals; none for a file that is
\* no PDF or holds no text.
Classify(doc) ==
  LET fit == {i \in DOMAIN Templates : Matches(Templates[i], doc)}
      best == {i \in fit : \A j \in fit : ~Better(Templates[j], Templates[i], doc)}
  IN IF ~doc.pdf \/ doc.words = {} \/ fit = {} THEN None ELSE Templates[Min(best)].type

\* check_set: the types that are missing; a product without a set misses none.
Missing(product, types) == IF product \in DOMAIN DocSets THEN DocSets[product] \ types ELSE {}

-----------------------------------------------------------------------------
(* The product *)

\* product_from_subject: the longest hint, the first among equals.
FromSubject(subject, known) ==
  LET named == {i \in DOMAIN Hints : Hints[i].product \in known /\ Hints[i].word \in subject}
      longest == {i \in named : \A j \in named : Hints[j].length <= Hints[i].length}
  IN IF named = {} THEN None ELSE Hints[Min(longest)].product

\* Mutant: any set that is complete will do.
DetectedAny(subject, types) ==
  LET hinted == FromSubject(subject, DOMAIN DocSets)
  IN IF hinted # None THEN {hinted} ELSE {p \in DOMAIN DocSets : Missing(p, types) = {}} \cup {None}

\* detect_product for a route that says "auto": the subject decides; else the largest set
\* that is complete, unless two are; else one that misses the fewest types.  (In the code it
\* is the first such in the file; without any set it fails with a ValueError.)
Detected(subject, types) ==
  LET products == DOMAIN DocSets
      hinted == FromSubject(subject, products)
      complete == {p \in products : Missing(p, types) = {}}
      size(p) == Cardinality(DocSets[p])
      lacks(p) == Cardinality(Missing(p, types))
  IN IF hinted # None THEN {hinted}
     ELSE IF complete = {} THEN {p \in products : \A q \in products : lacks(p) <= lacks(q)}
     ELSE LET largest == {p \in complete : \A q \in complete : size(q) <= size(p)}
          IN IF Cardinality(largest) > 1 THEN {None} ELSE largest

-----------------------------------------------------------------------------
(* The verdict *)

\* validate_sender_authenticity: the address is well formed, and one of SPF, DKIM and DMARC
\* passed if that is asked for.
Authentic(m) ==
  m.syntax /\ (cfg.checked => \E mech \in DOMAIN m.results : m.results[mech] = "pass")

Refused(why) == [ok |-> FALSE, why |-> why, client |-> "", product |-> None, docs |-> {}]
Accepted(route, product, docs) ==
  [ok |-> TRUE, why |-> "accepted", client |-> route.client, product |-> product, docs |-> docs]

\* The attachments of an allowed type and size that were not taken before (seen_hashes).
Usable(m, seenBefore) == {i \in DOMAIN m.docs : m.docs[i].fit /\ m.docs[i] \notin seenBefore}

\* doc_types has one entry per file name: the type of the last attachment with that name.
TypeOf(m, usable, i) == Classify(m.docs[Max({j \in usable : m.docs[j].name = m.docs[i].name})])

\* The verdict on the documents kept, once the product is known.
Resolved(route, product, types, docs) ==
  IF product = None /\ route.product = "auto" THEN Refused("ambiguous")
  ELSE IF cfg.sets /\ Missing(product, types) # {} THEN Refused("incomplete")
  ELSE Accepted(route, product, docs)

\* Without templates the documents are taken as they are.
Unclassified(route, m, usable) ==
  Accepted(route,
           IF route.product # "auto" THEN route.product
           ELSE FromSubject(m.subject, {Hints[i].product : i \in DOMAIN Hints}),
           {m.docs[i] : i \in usable})

\* The verdicts on a mail of an authentic sender that a route admits.
OnDocuments(route, m, seenBefore) ==
  LET usable == Usable(m, seenBefore)
      kept == {i \in usable : Classify(m.docs[i]) # None}
      types == {TypeOf(m, usable, i) : i \in kept} \ {None}
  IN IF usable = {} THEN {Refused("attachments")}
     ELSE IF Cardinality(usable) > MaxDocs THEN {Refused("too many")}
     ELSE IF ~cfg.templates THEN {Unclassified(route, m, usable)}
     ELSE IF kept = {} THEN {Refused("attachments")}
     ELSE {Resolved(route, p, types, {m.docs[i] : i \in kept}) :
             p \in IF route.product # "auto" THEN {route.product} ELSE Detected(m.subject, types)}

\* validate_message: the verdicts it may return.
Verdicts(m, seenBefore) ==
  LET routes == RouteFor(cfg, m.from, m.box)
  IN IF routes = {} THEN {Refused("sender")}
     ELSE IF ~Authentic(m) THEN {Refused("authenticity")}
     ELSE UNION {OnDocuments(route, m, seenBefore) : route \in routes}

Unjudged == mail' = None /\ verdict' = Refused("none") /\ before' = {}

\* The connector starts with files that load.
RulesInit ==
  /\ \E s \in Settings, c \in Catalogs :
       Savable(s) /\ TemplatesHold(c) /\ saved = [settings |-> s, catalog |-> c]
  /\ loaded = saved
  /\ taken = {} /\ before = {} /\ mail = None /\ verdict = Refused("none") /\ count = 0 /\ puts = 0

\* handle_message judges a mail of a mailbox that is polled, and takes what the verdict accepts.
Judge ==
  /\ count < MaxMails /\ count' = count + 1
  /\ \E m \in Messages :
       /\ m.box \in Polled(cfg)
       /\ \E v \in Verdicts(m, taken) : mail' = m /\ verdict' = v /\ taken' = taken \cup v.docs
  /\ before' = taken
  /\ UNCHANGED <<saved, loaded, puts>>

Put(files) == puts < MaxPuts /\ puts' = puts + 1 /\ saved' = files

\* PUT /email/settings and PUT /email/templates: a file that passes the checks is written;
\* the connector goes on with what it loaded.
PutSettings ==
  /\ \E s \in Settings : Savable(s) /\ Put([saved EXCEPT !.settings = s])
  /\ UNCHANGED <<loaded, taken, mail, verdict, before, count>>

PutTemplates ==
  /\ \E c \in Catalogs : TemplatesHold(c) /\ Put([saved EXCEPT !.catalog = c])
  /\ UNCHANGED <<loaded, taken, mail, verdict, before, count>>

\* The connector is started again; it remembers the documents taken.
Reload ==
  /\ loaded' = saved /\ loaded # saved
  /\ Unjudged /\ UNCHANGED <<saved, taken, count, puts>>

RulesNext == Judge \/ PutSettings \/ PutTemplates \/ Reload

RulesSpec == RulesInit /\ [][RulesNext]_rvars

-----------------------------------------------------------------------------
(* Properties *)

TypesOf(docs) == {Classify(d) : d \in docs}
Named == FromSubject(mail.subject, DOMAIN DocSets)

\* The routes that let the mail in, of which the first decides: those of its own mailbox.
Doors == {i \in DOMAIN cfg.routes : cfg.routes[i].box = mail.box /\ Admits(cfg.routes[i], mail.from)}
Door == cfg.routes[Min(Doors)]

\* No two documents have one name.
Apart == \A i, j \in DOMAIN mail.docs : mail.docs[i].name = mail.docs[j].name => i = j

\* What is accepted may be: it comes from an authentic sender whom its own mailbox admits, and
\* goes to the client of that route; every document is new and of a known type, and the pack
\* is complete for its product, which is the route's, or the one the subject names, or that
\* of the largest set the pack completes (if each document has a name of its own: of two with
\* one name detect_product sees the type of the last).
Sound ==
  /\ Doors # {} /\ verdict.client = Door.client /\ Authentic(mail)
  /\ verdict.docs # {} /\ verdict.docs \cap before = {}
  /\ cfg.templates =>
       /\ None \notin TypesOf(verdict.docs)
       /\ cfg.sets => Missing(verdict.product, TypesOf(verdict.docs)) = {}
       /\ Door.product # "auto" => verdict.product = Door.product
       /\ Door.product = "auto" /\ Named # None => verdict.product = Named
       /\ Door.product = "auto" /\ Named = None /\ cfg.sets /\ Apart =>
            \A p \in DOMAIN DocSets \ {verdict.product} :
              Missing(p, TypesOf(verdict.docs)) = {} => Cardinality(DocSets[p]) < Cardinality(DocSets[verdict.product])

\* A refused mail of an admitted, authentic sender lacks something: no document of it is new
\* and known, or they complete no set that its product may be, or two equally large ones; or
\* two of its documents have one name.
Lacking ==
  LET new == {d \in Range(mail.docs) : d.fit /\ d \notin before}
      known == {d \in new : Classify(d) # None}
      may == IF Door.product # "auto" THEN {Door.product}
             ELSE IF Named # None THEN {Named} ELSE DOMAIN DocSets
      done == {p \in may : Missing(p, TypesOf(known)) = {}}
  IN \/ new = {} \/ Len(mail.docs) > MaxDocs \/ ~Apart
     \/ cfg.templates /\ known = {}
     \/ cfg.templates /\ cfg.sets /\ done = {}
     \/ cfg.templates /\ \E p, q \in done : p # q /\ Cardinality(DocSets[p]) = Cardinality(DocSets[q])

\* A mail is accepted when it may be and only then, after whatever mails before it, by the
\* settings and templates the connector was started with; and of the mailboxes of the files
\* it starts with, every one that a route names is polled, as long as the default one can be made.
VerdictIsRight ==
  /\ mail # None =>
       IF verdict.ok THEN Sound ELSE Doors = {} \/ ~Authentic(mail) \/ Lacking
  /\ WellFormed(DefaultBox(cfg)) =>
       \A i \in DOMAIN cfg.routes : cfg.routes[i].box \in Polled(cfg)
=============================================================================
