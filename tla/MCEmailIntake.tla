---------------------------- MODULE MCEmailIntake ----------------------------
(* For TLC: EmailIntake with a mail with one document in one mailbox, and one *)
(* with that document and a new one of the same file name in another; or      *)
(* DocumentRules with a few mails of two clients, one after the other, and a  *)
(* change of the settings or the templates.                                   *)
EXTENDS EmailIntake, DocumentRules, TLC

CONSTANTS pack, again, inbox, client, d1, d2, scan

DocsOfDef == [m \in Mails |-> IF m = pack THEN {d1} ELSE {d1, d2}]
ArrivingDef == [b \in Boxes |-> IF b = inbox THEN {pack} ELSE {again}]
NameOfDef == [d \in {d1, d2} |-> scan]
Alike == Permutations(Reviewers)

\* The templates and sets of doc_templates.json, with one keyword for each phrase.
Template(type, required, markers, minAny, maxPages) ==
  [type |-> type, required |-> required, markers |-> markers, minAny |-> minAny, minPages |-> 1,
   maxPages |-> maxPages]
Shipped ==
  <<Template("application_form", {"loan application"}, {"tenure", "loan amount"}, 2, 12),
    Template("identity_proof", {}, {"pan", "aadhaar"}, 1, 4),
    Template("income_proof", {}, {"net pay"}, 1, 20),
    Template("property_document", {}, {"sale deed"}, 1, 60),
    Template("kyc_form", {"kyc"}, {"date of birth"}, 1, 10)>>
Loan == {"application_form", "identity_proof", "income_proof"}
Products == {"home_loan", "vehicle_loan", "personal_loan", "kyc"}
Required(product) ==
  IF product = "home_loan" THEN Loan \cup {"property_document"}
  ELSE IF product = "kyc" THEN {"kyc_form", "identity_proof"} ELSE Loan
Bare == [templates |-> <<>>, sets |-> <<>>]
\* As shipped; without its last template, which the set of kyc needs; without either; and empty.
CatalogsDef ==
  {Bare,
   [templates |-> Shipped, sets |-> [p \in Products |-> Required(p)]],
   [templates |-> SubSeq(Shipped, 1, 4), sets |-> [p \in Products |-> Required(p)]],
   [templates |-> SubSeq(Shipped, 1, 4), sets |-> [p \in Products \ {"kyc"} |-> Required(p)]]}
Hint(product, word, length) == [product |-> product, word |-> word, length |-> length]
HintsDef == <<Hint("home_loan", "home loan", 9), Hint("vehicle_loan", "car", 3),
              Hint("personal_loan", "personal loan", 13), Hint("statement", "statement", 9)>>

\* Some documents; letter and large have the name of pan, merged that of form.
Doc(name, words) == [name |-> name, fit |-> TRUE, pdf |-> TRUE, words |-> words, pages |-> 1]
form == Doc("form", {"loan application", "tenure", "loan amount"})
pan == Doc("scan", {"pan"})
slip == Doc("slip", {"net pay"})
deed == Doc("deed", {"sale deed"})
kyc == Doc("kyc", {"kyc", "date of birth", "pan"})
letter == Doc("scan", {"kyc"})
large == [pan EXCEPT !.fit = FALSE]
merged == [kyc EXCEPT !.name = "form"]
Packs == {<<form, pan, slip>>, <<form, pan, slip, deed>>, <<pan, kyc>>, <<form, slip>>, <<letter>>,
          <<pan, letter, kyc>>, <<letter, pan, kyc>>, <<large>>, <<form, pan, slip, deed, kyc>>,
          <<form, pan, slip, deed, merged>>, <<form, pan, slip, deed, kyc, letter>>}

Address(name, domain) == [name |-> name, domain |-> domain]
asha == Address("asha", "bank")
ravi == Address("ravi", "bank")
guest == Address("asha", "other")
Mail(from, box, results, subject, docs) ==
  [from |-> from, box |-> box, syntax |-> TRUE, results |-> results, subject |-> subject, docs |-> docs]
Forged == [mech \in {"spf", "dmarc"} |-> "fail"]
Passed == [mech \in {"spf", "dkim"} |-> IF mech = "dkim" THEN "pass" ELSE "fail"]
MessagesDef ==
  {Mail(asha, Default, Passed, subject, docs) :
     subject \in {{}, {"car"}, {"home loan", "personal loan"}}, docs \in Packs}
  \cup {Mail(asha, Default, Passed, {"statement"}, docs) : docs \in {<<form, pan, slip>>, <<pan, kyc>>}}
  \cup {Mail(from, box, results, {}, <<pan, kyc>>) :
          from \in {asha, ravi, guest}, box \in {Default, "desk"}, results \in {Forged, Passed}}

\* Routes: one address in the default mailbox; a colleague of the same domain in a mailbox of his
\* own; anyone there; or a mailbox that is none.
Route(owner, kind, addr, product, box) ==
  [client |-> owner, senders |-> {[kind |-> kind, name |-> addr.name, domain |-> addr.domain]},
   product |-> product, box |-> box]
RoutesDef ==
  {<<Route("A", "address", asha, product, Default)>> : product \in {"auto", "kyc", "other"}}
  \cup {<<Route("A", "address", asha, "auto", Default), Route("B", kind, ravi, "kyc", "desk")>> :
          kind \in {"address", "domain", "anyone"}}
  \cup {<<Route("B", "domain", asha, "other", "desk"), Route("A", "domain", asha, "auto", Default)>>,
         <<Route("A", "address", asha, "auto", "shelf")>>, <<>>}
File(auth, templates, sets, checked, routes) ==
  [auth |-> auth, app |-> FALSE, templates |-> templates, sets |-> sets, checked |-> checked,
   boxes |-> <<[id |-> "desk", auth |-> "password", app |-> FALSE]>>, routes |-> routes]
Single(product) == <<Route("A", "address", asha, product, Default)>>
SettingsDef ==
  {File("password", templates, sets, TRUE, Single(product)) :
     templates \in BOOLEAN, sets \in BOOLEAN, product \in {"auto", "kyc", "other"}}
  \cup {File("password", TRUE, TRUE, TRUE, routes) : routes \in RoutesDef}
  \cup {File("password", TRUE, TRUE, FALSE, Single("auto")), File("oauth_microsoft", TRUE, TRUE, TRUE, Single("kyc"))}

\* One of the two, the first with a connector that has no routes yet.
MailNext == \/ saved.catalog = Bare /\ loaded = saved /\ count + puts = 0 /\ Next /\ UNCHANGED rvars
            \/ Init /\ RulesNext /\ UNCHANGED vars
MailInit == Init /\ RulesInit /\ (saved.catalog = Bare => saved.settings.routes = <<>>)
MailSpec == MailInit /\ [][MailNext]_<<vars, rvars>>
=============================================================================
