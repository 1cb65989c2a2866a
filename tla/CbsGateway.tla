----------------------------- MODULE CbsGateway -----------------------------
(***************************************************************************)
(* The governed doorway to the core bank: cbs_gateway.py, the Governor of  *)
(* agent_governance.py with its three files, and the operators' routes of  *)
(* governance_api.py, which live in another process.                       *)
(*                                                                         *)
(* Every request and every operator's click loads a Governor of its own:   *)
(* it reads the head of the receipt chain, the autonomy records and the    *)
(* breaker once and from then on trusts what it read.  Requests of the     *)
(* gateway interleave only while they await their body (and hold the event *)
(* loop while they forward); operators' clicks interleave with everything. *)
(***************************************************************************)
EXTENDS BankCore, Sequences

CONSTANTS Requests, Clicks,       \* calls of the gateway, of governance_api
          Agents, ALL,            \* the agents with a policy; the breaker's scope for all
          Permits, PackPermits,   \* <<agent, action>> allowed by agent_policy.json, by the pack
          AlwaysGate,             \* those gated at any level
          PACK,                   \* an industry policy pack
          PromoteAfter,           \* PROMOTE_AFTER: approvals from level 2 to 3, from 3 to 4
          Ops,                    \* the request bodies agents send
          NoReq

ASSUME GovernanceAssumption ==
  /\ PromoteAfter \in [{2, 3} -> Nat \ {0}]
  /\ ALL \notin Agents /\ NoReq \notin Requests \cup Clicks /\ Requests \cap Clicks = {}
  /\ \A op \in Ops : {"action", "kind", "dr", "cr", "amount"} \subseteq DOMAIN op /\ "id" \notin DOMAIN op

\* The handlers' reading of a body: cash has one account, a transfer two, an account is
\* opened with money from outside.  The amount is any number: nobody looks at it before.
ASSUME OpsAssumption ==
  \A op \in Ops :
    /\ op.amount \in Int /\ op.kind \in OpKinds
    /\ op.kind \in {"deposit", "open"} => op.dr = Outside /\ op.cr \in Accounts
    /\ op.kind \in {"withdraw", "other"} => op.dr \in Accounts /\ op.cr = Outside
    /\ op.kind = "transfer" => op.dr \in Accounts /\ op.cr \in Accounts

VARIABLES
  receipts,  \* the lines of receipts.jsonl
  trust,     \* autonomy.json: level, streak and incidents of each agent
  switches,  \* breaker.json and active_packs.json: the scopes frozen, the packs active
  gov,       \* the Governor each call loaded: prev, trust, switches
  pc, req,   \* where each call is, and what it asks
  core,      \* requests inside a handler of the core, with funds checked
  stale,     \* history: files written from a version that was no longer theirs
  timedOut   \* history: a forward gave up on the core

govVars == <<receipts, trust, switches, gov, pc, req, core, stale, timedOut>>
vars == <<govVars, bank>>
Calls == Requests \cup Clicks

Fresh == [level |-> 2, streak |-> 0, incidents |-> 0]
Idle == [agent |-> NoReq, op |-> NoReq, gated |-> FALSE]

Init ==
  /\ receipts = <<>> /\ stale = {} /\ timedOut = FALSE
  /\ trust = [a \in Agents |-> Fresh]
  /\ switches = [breaker |-> {}, packs |-> {}]
  /\ gov = [c \in Calls |-> [prev |-> 0, trust |-> trust, switches |-> switches]]
  /\ pc = [c \in Calls |-> "new"] /\ req = [c \in Calls |-> Idle]
  /\ core = {}
  /\ BankInit

-----------------------------------------------------------------------------
(* Receipts, policy and autonomy *)

\* Every line ever hashed is numbered by its place; 0 is GENESIS.
LastHash == Len(receipts)

Receipt(event, subject) == [event |-> event, subject |-> subject]

\* The event as a line of the file: by which call, behind which hash.
Line(e, c, prev) == [event |-> e.event, subject |-> e.subject, call |-> c, prev |-> prev]

\* Mutant: the head is not moved by the record just written.
ChainedFromLoad(c, events) ==
  [i \in DOMAIN events |-> Line(events[i], c, gov[c].prev)]

\* The lines SignedReceiptLedger.record writes for the events of one step: the first is
\* chained from the head this call's Governor knows, each other from the one before.
Chained(c, events) ==
  [i \in DOMAIN events |->
     Line(events[i], c, IF i = 1 THEN gov[c].prev ELSE LastHash + i - 1)]

\* SignedReceiptLedger.verify.
Verifies == \A i \in DOMAIN receipts : receipts[i].prev = i - 1

\* merged_policies: the policy an active pack has for an agent replaces the base policy's.
Allowed(g) == IF PACK \in g.switches.packs THEN PackPermits ELSE Permits

\* PolicyEngine.check: an agent without a policy and an action without a rule are refused.
InAllowlist(g, a, action) == <<a, action>> \in Allowed(g)

Frozen(g, a) == {a, ALL} \cap g.switches.breaker # {}

\* Mutant: the breaker and the allowlist are asked after the gate.
VerdictGateFirst(g, a, action) ==
  IF g.trust[a].level = 2 \/ <<a, action>> \in AlwaysGate THEN "call_gated"
  ELSE IF Frozen(g, a) \/ ~InAllowlist(g, a, action) THEN "call_denied"
  ELSE "call_allowed"

\* authorize outside shadow mode: breaker, allowlist, level, gate.  The call budget counts
\* the calls of one Governor, of which a Governor sees one here.
Verdict(g, a, action) ==
  IF Frozen(g, a) \/ ~InAllowlist(g, a, action) \/ g.trust[a].level = 1
  THEN "call_denied"
  ELSE IF g.trust[a].level = 2 \/ <<a, action>> \in AlwaysGate THEN "call_gated"
  ELSE "call_allowed"

\* Mutant: incidents are forgotten.
EarnedAfterAll(t) == t.level < 4 /\ t.streak + 1 >= PromoteAfter[2]

Earned(t) ==
  t.level \in DOMAIN PromoteAfter /\ t.streak + 1 >= PromoteAfter[t.level] /\ t.incidents = 0

\* note_approved, note_rejected, note_incident.
Approved(t) ==
  [level |-> IF Earned(t) THEN t.level + 1 ELSE t.level,
   streak |-> IF Earned(t) THEN 0 ELSE t.streak + 1, incidents |-> t.incidents]
Rejected(t) == [level |-> t.level, streak |-> 0, incidents |-> t.incidents]
Demoted(t) == [level |-> 1, streak |-> 0, incidents |-> t.incidents + 1]

\* record_outcome: the agent's new record and the receipts.
Outcome(t, a, outcome) ==
  CASE outcome = "approved" ->
         [trust |-> Approved(t),
          lines |-> IF Earned(t) THEN <<Receipt("promoted", a), Receipt("approved", a)>>
                                 ELSE <<Receipt("approved", a)>>]
    [] outcome = "rejected" -> [trust |-> Rejected(t), lines |-> <<Receipt("rejected", a)>>]
    [] outcome = "incident" ->
         [trust |-> Demoted(t), lines |-> <<Receipt("demoted", a), Receipt("incident", a)>>]

\* The Governor g with a's record, or the file f of switches, replaced.
Trusting(g, a, t) == [trust |-> [g.trust EXCEPT ![a] = t], switches |-> g.switches]
Switching(g, f, s) == [trust |-> g.trust, switches |-> [g.switches EXCEPT ![f] = s]]

\* A call writes what its Governor holds: the receipts go behind the head it knows, and
\* of the autonomy and the switch files it writes, it writes the whole.
Write(c, lines, files, new) ==
  LET g == gov[c] IN
  /\ receipts' = receipts \o Chained(c, lines)
  /\ trust' = IF "trust" \in files THEN new.trust ELSE trust
  /\ switches' = [f \in DOMAIN switches |-> IF f \in files THEN new.switches[f] ELSE switches[f]]
  /\ gov' = [gov EXCEPT ![c] = [prev |-> IF lines = <<>> THEN g.prev ELSE LastHash + Len(lines),
                                trust |-> new.trust, switches |-> new.switches]]
  /\ stale' = stale \cup {f \in files \cup (IF lines = <<>> THEN {} ELSE {"receipts"}) :
                            CASE f = "receipts" -> g.prev # LastHash
                              [] f = "trust" -> g.trust # trust
                              [] OTHER -> g.switches[f] # switches[f]}

-----------------------------------------------------------------------------
(* Calls *)

\* The request that holds the gateway's event loop.
OnLoop == {r \in Requests : pc[r] \in {"loaded", "core"}}
MayRun(c) == c \in Requests => OnLoop \subseteq {c}

\* Governor.load.
Load(c) ==
  /\ pc[c] = "new" /\ MayRun(c)
  /\ gov' = [gov EXCEPT ![c] = [prev |-> LastHash, trust |-> trust, switches |-> switches]]
  /\ pc' = [pc EXCEPT ![c] = "loaded"]
  /\ UNCHANGED <<receipts, trust, switches, req, core, stale, timedOut, bank>>

\* The body that call c's request has, marked with c.
Body(op, c) == [f \in DOMAIN op \cup {"id"} |-> IF f = "id" THEN c ELSE op[f]]

\* gateway up to its first await, and process_intake's click (an approver of itself):
\* authorize, and for a gated call with an approver record the approval.
Authorize(c) ==
  /\ pc[c] = "loaded"
  /\ \E a \in Agents, op \in Ops, approver \in (IF c \in Clicks THEN {TRUE} ELSE BOOLEAN) :
       LET verdict == Verdict(gov[c], a, op.action)
           granted == verdict = "call_gated" /\ approver
           outcome == Outcome(gov[c].trust[a], a, "approved")
       IN /\ req' = [req EXCEPT ![c] = [agent |-> a, op |-> Body(op, c), gated |-> granted]]
          /\ Write(c, <<Receipt(verdict, a)>> \o (IF granted THEN outcome.lines ELSE <<>>),
                   IF granted THEN {"trust"} ELSE {},
                   IF granted THEN Trusting(gov[c], a, outcome.trust) ELSE gov[c])
          /\ pc' = [pc EXCEPT ![c] = IF c \in Requests /\ (granted \/ verdict = "call_allowed")
                                     THEN "body" ELSE "end"]
  /\ UNCHANGED <<core, timedOut, bank>>

\* Mutant: other requests run while one is forwarded.
ForwardAside(r) ==
  /\ pc[r] = "body"
  /\ IF Covered(req[r].op)
     THEN core' = core \cup {r} /\ pc' = [pc EXCEPT ![r] = "aside"]
     ELSE pc' = [pc EXCEPT ![r] = "reply"] /\ UNCHANGED core
  /\ UNCHANGED <<receipts, trust, switches, gov, req, stale, timedOut, bank>>

\* The body has come: forward, on the event loop; the core's handler looks up the accounts.
Forward(r) ==
  /\ pc[r] = "body" /\ MayRun(r)
  /\ IF Covered(req[r].op)
     THEN core' = core \cup {r} /\ pc' = [pc EXCEPT ![r] = "core"]
     ELSE pc' = [pc EXCEPT ![r] = "reply"] /\ UNCHANGED core
  /\ UNCHANGED <<receipts, trust, switches, gov, req, stale, timedOut, bank>>

\* The core's handler posts; if the gateway still waits, it gets the reply.
CorePosts(r) ==
  /\ r \in core
  /\ core' = core \ {r}
  /\ CASE req[r].op.kind = "eod" -> EndOfDay(r)
       [] req[r].op.kind = "read" -> UNCHANGED bank
       [] OTHER -> Post(req[r].op)
  /\ pc' = IF pc[r] = "end" THEN pc ELSE [pc EXCEPT ![r] = "reply"]
  /\ UNCHANGED <<receipts, trust, switches, gov, req, stale, timedOut>>

\* urlopen gives up after 30 s: the request fails, the core's handler goes on.
TimesOut(r) ==
  /\ pc[r] = "core"
  /\ pc' = [pc EXCEPT ![r] = "end"]
  /\ timedOut' = TRUE
  /\ UNCHANGED <<receipts, trust, switches, gov, req, core, stale, bank>>

\* The reply is passed on; a call that was not gated is receipted as executed only now.
Reply(r) ==
  /\ pc[r] = "reply"
  /\ pc' = [pc EXCEPT ![r] = "end"]
  /\ Write(r, IF req[r].gated THEN <<>> ELSE <<Receipt("executed", req[r].agent)>>, {}, gov[r])
  /\ UNCHANGED <<req, core, timedOut, bank>>

\* What a click on each file of switches may be about, and what its receipt is called.
Scopes == [breaker |-> Agents \cup {ALL}, packs |-> {PACK}]
TurnedOn == [breaker |-> "breaker_frozen", packs |-> "pack_activated"]
TurnedOff == [breaker |-> "breaker_released", packs |-> "pack_deactivated"]

\* freeze, release, activate_pack, deactivate_pack: the whole file, then the receipt.
Switch(c) ==
  /\ c \in Clicks /\ pc[c] = "loaded"
  /\ \E f \in DOMAIN Scopes : \E scope \in Scopes[f] :
       LET on == gov[c].switches[f] IN
       \/ Write(c, <<Receipt(TurnedOn[f], scope)>>, {f}, Switching(gov[c], f, on \cup {scope}))
       \/ Write(c, <<Receipt(TurnedOff[f], scope)>>, {f}, Switching(gov[c], f, on \ {scope}))
  /\ pc' = [pc EXCEPT ![c] = "end"]
  /\ UNCHANGED <<req, core, timedOut, bank>>

\* record_outcome with a rejection or an incident, by whoever reviews an agent's calls.
Review(c) ==
  /\ c \in Clicks /\ pc[c] = "loaded"
  /\ \E a \in Agents, outcome \in {"rejected", "incident"} :
       LET done == Outcome(gov[c].trust[a], a, outcome)
       IN Write(c, done.lines, {"trust"}, Trusting(gov[c], a, done.trust))
  /\ pc' = [pc EXCEPT ![c] = "end"]
  /\ UNCHANGED <<req, core, timedOut, bank>>

Next ==
  \/ \E c \in Calls : Load(c) \/ Authorize(c) \/ Switch(c) \/ Review(c)
  \/ \E r \in Requests : Forward(r) \/ CorePosts(r) \/ TimesOut(r) \/ Reply(r)

Spec == Init /\ [][Next]_vars

-----------------------------------------------------------------------------
(* Properties *)

\* The chain of receipts answers for request r: the agent was allowed the action, not frozen
\* and not demoted when it was asked, and a gated call was approved.
Governed(r) ==
  \E i \in DOMAIN receipts :
    /\ receipts[i].call = r /\ receipts[i].event \in {"call_allowed", "call_gated"}
    /\ InAllowlist(gov[r], receipts[i].subject, req[r].op.action)
    /\ ~Frozen(gov[r], receipts[i].subject)
    /\ \/ receipts[i].event = "call_gated" /\ \E j \in DOMAIN receipts :
            receipts[j].call = r /\ receipts[j].event = "approved" /\ j > i
       \/ receipts[i].event = "call_allowed" /\ gov[r].trust[receipts[i].subject].level > 2

\* "Every request is ... authorized by the deny-by-default Governor, receipted, and only
\* then forwarded to the core": what the core does for a request, its chain of receipts
\* answers for, whatever other calls did to the files in between.
OnlyGovernedCallsReachTheCore ==
  \A r \in Requests : r \in core \/ (\E t \in txns : t.id = r) => Governed(r)

\* The chain of receipts breaks exactly when a call appended behind a head it had read
\* before another call moved it, and verify says so ever after.
ChainBreaksByOverlap == Verifies <=> "receipts" \notin stale

About(a, events) == {i \in DOMAIN receipts : receipts[i].subject = a /\ receipts[i].event \in events}

TrustFollows ==
  \A a \in Agents :
    /\ About(a, {"incident"}) # {} => trust[a].level = 1
    /\ trust[a].level > 2 =>
         Cardinality(About(a, {"approved"})) >= PromoteAfter[2] +
           (IF trust[a].level = 4 THEN PromoteAfter[3] ELSE 0)
    /\ trust[a].level # 1 => Cardinality(About(a, {"promoted"})) = trust[a].level - 2

SwitchFollows(f) ==
  \A scope \in Scopes[f] :
    LET clicks == About(scope, {TurnedOn[f], TurnedOff[f]})
    IN scope \in switches[f] <=> clicks # {} /\ receipts[Max(clicks)].event = TurnedOn[f]

\* Unless a call overwrote the file from an old copy, it says what the receipts add up to:
\* "Trust is earned per agent and lost instantly on incident", an agent above level 2 has
\* the approvals for it, and an agent with an incident stays at level 1; and the breaker and
\* the active packs are what the last clicks on them made them ("even the brake is auditable").
FilesFollowReceipts ==
  /\ "trust" \notin stale => TrustFollows
  /\ \A f \in DOMAIN Scopes : f \notin stale => SwitchFollows(f)

\* As long as no forward timed out no account owes more than the core let it owe unchecked:
\* the gateway holds its event loop while the core answers, so that the core checks and posts
\* one request at a time, though its handlers look funds up on one connection and move them
\* on another.
NoOverdraft == ~timedOut => \A a \in Accounts : balance[a] + Debt(a) >= 0
=============================================================================
