---------------------------- MODULE BackendFiles ----------------------------
(***************************************************************************)
(* Three files that requests of the web backend share without a lock: the  *)
(* access keys and the sales leads of server.py, lists that a handler      *)
(* reads, extends and writes whole, and the institution's settings         *)
(* (institution_settings_api.py), one record that is written whole.  The   *)
(* first is also what access.py asks, before each request, for the role of *)
(* its key.                                                                *)
(*                                                                         *)
(* An entry of the keys is [key, role, expires].  Other keys are "admin"   *)
(* (which PREFECTOS_ADMIN_KEYS may list), "env" (PREFECTOS_API_KEYS),      *)
(* "demo" (the administrator's of _DEMO_KEYS) and "none".  The repository  *)
(* has a file of keys, with the demo's among them.                         *)
(***************************************************************************)
EXTENDS Integers, FiniteSets

CONSTANTS
  Requests,      \* the threads that handle requests
  Shipped,       \* the entries of data/api_keys.json at first
  Issuable,      \* the keys that the administrator may issue
  Environments,  \* by process, [enforcing, admins, keys]: the PREFECTOS_ variables that are set
  DotEnvs,       \* what .env may say: some of these variables
  MaxRequests, MaxRevoked, MaxFaults

\* server.py, and batch_api.py with the settings.
Backends == {"server", "batch"}
Settable == {"enforcing", "admins", "keys"}

ASSUME BackendAssumption ==
  /\ Environments \subseteq [Backends -> [Settable -> BOOLEAN]]
  /\ \A d \in DotEnvs : \A v \in DOMAIN d : d[v] \in BOOLEAN
  /\ \A e \in Shipped : e \in [key : {e.key}, role : {e.role}, expires : BOOLEAN]
  /\ \A d, e \in Shipped : d.key = e.key => d = e
  /\ Issuable \cap ({"admin", "env", "demo", "none"} \cup {e.key : e \in Shipped}) = {}
  /\ MaxRevoked \in Nat

VARIABLES
  env,        \* by process
  disk,       \* by file, what was last written: the entries, and the keys whose status is not ACTIVE
  torn,       \* the files that cannot be parsed
  request,    \* by thread, the request it handles
  over,       \* who writes over a text of which an end may remain
  expired,    \* the keys whose expires_at has passed
  revoked,    \* history: the keys that the operator revoked in the file
  undone,     \* history: of these, those revoked while a creation held the list it had read
  issued,     \* history: the entries made for the administrator, and the first ones
  told,       \* history: the keys that somebody has
  kept,       \* history: by file, the entries written since two last wrote it at a time, or a write failed
  requests, faults
backendVars == <<env, disk, torn, request, over, expired, revoked, undone, issued, told, kept, requests, faults>>

Files == {"keys", "leads", "settings"}
File(op) ==
  CASE op \in {"create", "list"} -> "keys" [] op = "contact" -> "leads" [] op \in {"get", "put"} -> "settings"
    [] OTHER -> "none"
Process(op) == IF op \in {"get", "put"} THEN "batch" ELSE "server"
NoRequest == [at |-> "idle"]
Nothing == [entries |-> {}, revoked |-> {}]

BackendInit ==
  /\ env \in Environments
  /\ disk = [f \in Files |-> IF f = "keys" THEN [entries |-> Shipped, revoked |-> {}] ELSE Nothing]
  /\ request = [h \in Requests |-> NoRequest]
  /\ issued = Shipped /\ told = {e.key : e \in Shipped}
  /\ kept = [f \in Files |-> disk[f].entries]
  /\ torn = {} /\ over = {} /\ expired = {} /\ revoked = {} /\ undone = {}
  /\ requests = 0 /\ faults = 0

(***************************************************************************)
(* Who calls (access.py).                                                  *)
(***************************************************************************)
\* _RULES: what a route asks of the caller's role; "open" routes have no rule.
Level(op) ==
  CASE op \in {"run", "list", "create"} -> "admin"
    [] op \in {"approve", "put"} -> "no_user"
    [] op \in {"contact", "whoami", "get"} -> "open"
Operations == {"run", "list", "create", "approve", "put", "contact", "whoami", "get"}
Suffices(role, level) ==
  CASE level = "admin" -> role = "System Admin"
    [] level = "no_user" -> role \notin {"User", "anonymous"}
    [] level = "open" -> TRUE

\* What a file holds for a reader: nothing when it is missing or cannot be parsed.
Stored(f) == IF f \in torn THEN Nothing ELSE disk[f]
\* lookup_issued
Issued(key) == {e \in Stored("keys").entries : e.key = key}
Refused(e) == e.key \in Stored("keys").revoked \/ (e.expires /\ e.key \in expired)

\* The rest of resolve: the environment's keys, or the demo's where it has none.
Unissued(p, key) ==
  CASE key = "admin" /\ env[p].admins -> "System Admin"
    [] key = "env" /\ env[p].keys -> "Licensee"
    [] key = "demo" /\ ~env[p].keys -> "System Admin"
    [] OTHER -> "anonymous"

\* Mutant: the key's expires_at is not looked at.
ResolveEver(p, key) ==
  IF Issued(key) = {} THEN Unissued(p, key)
  ELSE LET e == CHOOSE e \in Issued(key) : TRUE
       IN IF key \in Stored("keys").revoked THEN "anonymous" ELSE e.role

\* resolve: issued keys first.
Resolve(p, key) ==
  IF Issued(key) = {} THEN Unissued(p, key)
  ELSE LET e == CHOOSE e \in Issued(key) : TRUE IN IF Refused(e) THEN "anonymous" ELSE e.role

\* _identity_for: while the environment has no keys, one that was never issued is a licensee's.
Identified(p, key) ==
  /\ key # "none"
  /\ IF Issued(key) # {} THEN \A e \in Issued(key) : ~Refused(e)
     ELSE ~env[p].keys \/ Unissued(p, key) # "anonymous"

\* By the register of what was issued, not by the file: whose key it is, and whether it holds.
Holder(p, key) ==
  LET own == {e \in issued : e.key = key}
  IN IF own = {} THEN Unissued(p, key)
     ELSE LET e == CHOOSE e \in own : TRUE
          IN IF key \in revoked \ undone \/ (e.expires /\ key \in expired) THEN "anonymous" ELSE e.role

(***************************************************************************)
(* The requests.                                                           *)
(***************************************************************************)
Moves(h, at) == request' = [request EXCEPT ![h].at = at]
Ends(h) == request' = [request EXCEPT ![h] = NoRequest]
Registers == <<revoked, undone, issued, told>>

\* What a create adds: a fresh key of some role and validity; a contact adds a lead, whose mail
\* was tried before; a put, the settings.
New(op) ==
  CASE op = "create" -> [key : Issuable \ {e.key : e \in issued}, role : {"System Admin", "User"}, expires : BOOLEAN]
    [] op \in {"contact", "put"} -> {[id |-> requests]}

\* A request comes, with a key that somebody has.
Arrive(h, op, key) ==
  /\ request[h] = NoRequest /\ requests < MaxRequests
  /\ request' = [request EXCEPT ![h] = [at |-> "guard", op |-> op, key |-> key]]
  /\ requests' = requests + 1
  /\ UNCHANGED <<env, disk, torn, over, expired, Registers, kept, faults>>

\* check, in the hook before each request: refused, where the roles are enforced.
First(op) ==
  CASE op \in {"create", "contact"} -> "begin" [] op \in {"get", "put"} -> "identify" [] OTHER -> "serve"
Guard(h) ==
  LET r == request[h]
      p == Process(r.op)
  IN /\ r.at = "guard"
     /\ IF Suffices(Resolve(p, r.key), Level(r.op)) \/ ~env[p].enforcing THEN Moves(h, First(r.op)) ELSE Ends(h)
     /\ UNCHANGED <<env, disk, torn, over, expired, Registers, kept, requests, faults>>

Identify(h) ==
  LET r == request[h]
  IN /\ r.at = "identify"
     /\ IF ~Identified(Process(r.op), r.key) THEN Ends(h) ELSE Moves(h, IF r.op = "get" THEN "serve" ELSE "begin")
     /\ UNCHANGED <<env, disk, torn, over, expired, Registers, kept, requests, faults>>

\* What only reads: the list of the keys, the settings, whoami, and routes of other modules.
Serve(h) ==
  /\ request[h].at = "serve"
  /\ Ends(h)
  /\ UNCHANGED <<env, disk, torn, over, expired, Registers, kept, requests, faults>>

At(h, f, ats) == request[h].at \in ats /\ File(request[h].op) = f

\* What .env says goes before what the process was started with.
Override(e, d) == [v \in Settable |-> IF v \in DOMAIN d THEN d[v] ELSE e[v]]

\* The new entry is made.  A contact reads .env again, for the mail that it tries to send.
Begin(h) ==
  LET r == request[h]
  IN /\ r.at = "begin"
     /\ \E e \in New(r.op) :
          /\ request' = [request EXCEPT ![h] =
                           [at |-> IF r.op = "put" THEN "open" ELSE "read", op |-> r.op, new |-> e, old |-> Nothing]]
          /\ issued' = IF r.op = "create" THEN issued \cup {e} ELSE issued
     /\ IF r.op = "contact" THEN \E d \in DotEnvs : env' = [env EXCEPT !["server"] = Override(@, d)]
                            ELSE UNCHANGED env
     /\ UNCHANGED <<disk, torn, over, expired, revoked, undone, told, kept, requests, faults>>

\* The list is read; one that cannot be parsed is an empty one.
ReadList(h) ==
  /\ request[h].at = "read"
  /\ request' = [request EXCEPT ![h].at = "open", ![h].old = Stored(File(request[h].op))]
  /\ UNCHANGED <<env, disk, torn, over, expired, Registers, kept, requests, faults>>

\* Who is writing f.
WritersOf(f) == {g \in Requests : At(g, f, {"dump"})}

\* Mutant: the list is read after the file was opened for writing.
OpenFirst(h) ==
  LET f == File(request[h].op)
  IN /\ request[h].at = "open"
     /\ request' = [request EXCEPT ![h].at = "dump", ![h].old = Nothing]
     /\ torn' = torn \cup {f} /\ over' = over \ WritersOf(f)
     /\ UNCHANGED <<env, disk, expired, Registers, kept, requests, faults>>

\* Opening the file empties it.
Open(h) ==
  LET f == File(request[h].op)
  IN /\ request[h].at = "open"
     /\ Moves(h, "dump")
     /\ torn' = torn \cup {f} /\ over' = over \ WritersOf(f)
     /\ UNCHANGED <<env, disk, expired, Registers, kept, requests, faults>>

\* Another request is writing f, or has read the list that it is going to write.
Meets(h, f) == \E g \in Requests \ {h} : At(g, f, IF f = "settings" THEN {"dump"} ELSE {"open", "dump"})
Keep(h, f) == kept' = [kept EXCEPT ![f] = IF Meets(h, f) THEN {} ELSE (IF f = "settings" THEN {} ELSE @) \cup {request[h].new}]
Forget(f) == kept' = [kept EXCEPT ![f] = {}]

\* The list is written, and a key told; over the text of another an end of that may remain.
Dump(h) ==
  LET r == request[h]
      f == File(r.op)
  IN /\ r.at = "dump"
     /\ disk' = [disk EXCEPT ![f] = [r.old EXCEPT !.entries = @ \cup {r.new}]]
     /\ \/ torn' = torn \ {f} /\ Keep(h, f)
        \/ h \in over /\ torn' = torn \cup {f} /\ Forget(f)
     /\ over' = (over \cup WritersOf(f)) \ {h}
     /\ told' = IF r.op = "create" THEN told \cup {r.new.key} ELSE told
     /\ IF r.op = "contact" THEN Moves(h, "log") ELSE Ends(h)
     /\ UNCHANGED <<env, expired, revoked, undone, issued, requests, faults>>

\* contact_sales notes the mail in outbound_emails.log and answers that it was sent.
LogMail(h) ==
  /\ request[h].at = "log"
  /\ Ends(h)
  /\ UNCHANGED <<env, disk, torn, over, expired, Registers, kept, requests, faults>>

\* The disk is full, or the process ends: the file stays without its text.
DumpFails(h) ==
  LET f == File(request[h].op)
  IN /\ request[h].at = "dump" /\ faults < MaxFaults
     /\ Ends(h)
     /\ torn' = torn \cup {f} /\ Forget(f)
     /\ over' = (over \cup WritersOf(f)) \ {h}
     /\ faults' = faults + 1
     /\ UNCHANGED <<env, disk, expired, Registers, requests>>

(***************************************************************************)
(* The clock, and the operator, who revokes a key in the file.             *)
(***************************************************************************)
Expire(e) ==
  /\ e.expires /\ e.key \notin expired
  /\ expired' = expired \cup {e.key}
  /\ UNCHANGED <<env, disk, torn, request, over, Registers, kept, requests, faults>>

Revoke(key) ==
  /\ "keys" \notin torn /\ Issued(key) # {} /\ key \notin disk["keys"].revoked
  /\ Cardinality(revoked \cup {key}) <= MaxRevoked
  /\ disk' = [disk EXCEPT !["keys"].revoked = @ \cup {key}]
  /\ revoked' = revoked \cup {key}
  /\ undone' = IF \E h \in Requests : At(h, "keys", {"open", "dump"}) THEN undone \cup {key} ELSE undone \ {key}
  /\ UNCHANGED <<env, torn, request, over, expired, issued, told, kept, requests, faults>>

BackendNext ==
  \/ \E e \in issued : Expire(e) \/ Revoke(e.key)
  \/ \E h \in Requests :
       \/ \E op \in Operations, key \in told \cup {"admin", "env", "demo", "none"} : Arrive(h, op, key)
       \/ Guard(h) \/ Identify(h) \/ Serve(h) \/ Begin(h) \/ ReadList(h) \/ Open(h) \/ Dump(h)
       \/ LogMail(h) \/ DumpFails(h)

BackendSpec == BackendInit /\ [][BackendNext]_backendVars

(***************************************************************************)
(* Properties.                                                             *)
(***************************************************************************)
\* While no file is between its opening and its writing, what was written to it since two requests
\* last overlapped or a write failed is in it: the list can be parsed, every lead of that time is
\* there, the settings are those of the last save, and every key has the role it was issued with
\* until it expires or the operator's revocation of it stands.  What an overlap or a failed write
\* costs can be all that was there before: create_api_key begins a new list on one it cannot read.
AnsweredIsStored ==
  \A f \in Files :
    (\A h \in Requests : ~At(h, f, {"dump"})) =>
      /\ kept[f] \subseteq Stored(f).entries
      /\ f = "keys" => \A e \in kept[f], p \in Backends : e.key \notin undone => Resolve(p, e.key) = Holder(p, e.key)

\* Where its process enforces roles, a handler begins to work for a route with a rule only if the
\* caller's key has the role that the rule asks for: the one it was issued with, unless it expired
\* or was revoked by an edit that no creation wrote over; whatever is being written to the file of
\* the keys at that time, and whoever lost a key to it (access.check before each request).  Once a
\* key was created the file may not show those it had, and a key that the environment or the demo
\* table names has the role it has there, even if it was revoked.
Works(h) == request[h].at \notin {"idle", "guard"}
OnlyTheEntitled ==
  [][\A h \in Requests :
       LET r == request'[h]
           p == Process(r.op)
       IN Works(h)' /\ ~Works(h) /\ env[p].enforcing =>
            \/ Suffices(Holder(p, r.key), Level(r.op))
            \/ issued # Shipped /\ Suffices(Unissued(p, r.key), Level(r.op))]_backendVars
=============================================================================
