\* Two mails in two mailboxes, two reviewers, one crash, error or lost answer, two jobs.  Two messages judged.
CONSTANTS
  NoMail = NoMail
  pack = pack
  again = again
  inbox = inbox
  client = client
  d1 = d1
  d2 = d2
  scan = scan
  Mails = {pack, again}
  Boxes = {inbox, client}
  Reviewers = {r1, r2}
  Arriving <- ArrivingDef
  DocsOf <- DocsOfDef
  NameOf <- NameOfDef
  NoId = {pack}
  MaxFaults = 1
  MaxJobs = 2
  None = None
  Messages <- MessagesDef
  Default = "default"
  Settings <- SettingsDef
  Catalogs <- CatalogsDef
  Hints <- HintsDef
  MaxDocs = 5
  MaxMails = 2
  MaxPuts = 1
SPECIFICATION MailSpec
SYMMETRY Alike
INVARIANTS TakenOnce NoMailDropped JobsAreOnRecord VerdictIsRight
\* The mailboxes are empty or handled in the end.
CHECK_DEADLOCK FALSE
