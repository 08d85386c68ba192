------------------------------ MODULE KeyCache ------------------------------
(***************************************************************************)
(* API keys and the verification cache of each API process: authenticate   *)
(* _touch_last_used and require in ripcord/auth.py, the routes of          *)
(* api/keys.py, and create-key of cli.py.                                  *)
(*                                                                         *)
(* A request that finds no entry in its process's cache looks the key up   *)
(* in Postgres. The SELECT sees what is committed when it runs; the        *)
(* coroutine goes on when its answer arrives, and anything may run in      *)
(* between. A cache entry is the ticks it has left: none, or out of ticks, *)
(* is 0, because _cached drops an entry that has expired. An entry also    *)
(* holds the scopes of its key; nothing changes those once it is minted,   *)
(* so `granted` stands for the column and for the copies.                  *)
(***************************************************************************)
EXTENDS Naturals

CONSTANTS
    Keys,        \* key_ids
    Scopes,      \* ALL_SCOPES
    Admin,       \* SCOPE_ADMIN
    Grants,      \* the lists of scopes that keys are asked to be minted with
    Procs,       \* API processes
    Requests,    \* clients, one request at a time each
    TTL,         \* auth_cache_seconds, in ticks
    Delay        \* the ticks that the answer of a lookup may take to arrive

ASSUME TimesAssumption == TTL \in Nat /\ Delay \in Nat
ASSUME SomeAssumption == Keys # {} /\ Procs # {}
ASSUME ScopesAssumption == Admin \in Scopes

VARIABLES
    keys,        \* api_keys: "none", or a row that is "live" or "revoked"
    granted,     \* the scopes of each key
    since,       \* ticks since revoked_at was first set, up to Horizon
    cache,       \* _key_cache of each process: the ticks each entry has left
    req,         \* each request
    handled      \* how each process last ended a revocation of each key

vars == <<keys, granted, since, cache, req, handled>>

\* How long after a revocation a key may still be accepted.
Horizon == TTL + Delay

AnyKey  == CHOOSE k \in Keys : TRUE
AnyProc == CHOOSE p \in Procs : TRUE

\* Past require: in its handler, and in revoke_key before and after the commit.
Inside == {"accepted", "commit", "invalidate"}

\* pc, the process and the scope the route requires; the credential: the bootstrap
\* key, or a key and whether the secret is its own; the key a revocation is of; what
\* the SELECT found and when; and, for the properties, `since` on arrival.
ReqType == [pc : {"idle", "select", "resume", "touch"} \cup Inside,
            proc : Procs, need : Scopes, bootstrap : BOOLEAN, key : Keys,
            genuine : BOOLEAN, target : Keys,
            found : {"none", "live", "revoked"}, age : 0 .. Delay,
            late : 0 .. Horizon]

NoReq == [pc |-> "idle", proc |-> AnyProc, need |-> Admin, bootstrap |-> FALSE,
          key |-> AnyKey, genuine |-> FALSE, target |-> AnyKey,
          found |-> "none", age |-> 0, late |-> 0]

TypeOK ==
    /\ keys \in [Keys -> {"none", "live", "revoked"}]
    /\ granted \in [Keys -> SUBSET Scopes]
    /\ since \in [Keys -> 0 .. Horizon]
    /\ cache \in [Procs -> [Keys -> 0 .. TTL]]
    /\ req \in [Requests -> ReqType]
    /\ handled \in [Procs -> [Keys -> {"no", "busy", "quiet"}]]

Init ==
    /\ keys = [k \in Keys |-> "none"]
    /\ granted = [k \in Keys |-> {}]
    /\ since = [k \in Keys |-> 0]
    /\ cache = [p \in Procs |-> [k \in Keys |-> 0]]
    /\ req = [r \in Requests |-> NoReq]
    /\ handled = [p \in Procs |-> [k \in Keys |-> "no"]]

-----------------------------------------------------------------------------
(* require: who is asking, and whether they may.                           *)

\* Mutant: every scope implies the others, as admin does.
EffectiveAll(scopes) == IF scopes = {} THEN {} ELSE Scopes

Effective(scopes) == IF Admin \in scopes THEN Scopes ELSE scopes

\* A verified key is let in with a scope that implies the one required; otherwise
\* it is answered 403. A request that has been answered leaves nothing behind.
Admit(q) ==
    IF q.need \in Effective(granted[q.key])
    THEN [q EXCEPT !.pc = "accepted", !.found = "none"] ELSE NoReq

\* A cache hit is decided at once, with the same comparison of digests as a miss;
\* a miss goes to Postgres. (Without a credential, or with one that split_key does
\* not take for a key, nothing happens.)
Arrive(r, p, need, k, genuine) ==
    LET q == [NoReq EXCEPT !.pc = "select", !.proc = p, !.need = need, !.key = k,
                           !.genuine = genuine, !.late = since[k]]
    IN
    /\ req[r].pc = "idle"
    /\ req' = [req EXCEPT ![r] = IF cache[p][k] = 0 THEN q
                                 ELSE IF genuine THEN Admit(q) ELSE NoReq]
    /\ UNCHANGED <<keys, granted, since, cache, handled>>

\* The bootstrap key holds admin, and is compared before anything is looked up.
ArriveBootstrap(r, p, need) ==
    /\ req[r].pc = "idle" /\ need \in Effective({Admin})
    /\ req' = [req EXCEPT ![r] = [NoReq EXCEPT !.pc = "accepted", !.proc = p,
                                               !.need = need, !.bootstrap = TRUE]]
    /\ UNCHANGED <<keys, granted, since, cache, handled>>

Select(r) ==
    /\ req[r].pc = "select"
    /\ req' = [req EXCEPT ![r].pc = "resume", ![r].found = keys[req[r].key]]
    /\ UNCHANGED <<keys, granted, since, cache, handled>>

\* Mutant: a revoked key is not told from a live one.
VerifiedRow(r) == req[r].found # "none" /\ req[r].genuine

\* Mutant: the digests are not compared on a miss.
VerifiedLive(r) == req[r].found = "live"

Verified(r) == req[r].found = "live" /\ req[r].genuine

\* The SELECT's answer: a verified key is put in the cache, whatever has happened
\* to its row since. With auth_cache_seconds = 0 nothing is put.
Resume(r) ==
    /\ req[r].pc = "resume"
    /\ req' = [req EXCEPT ![r] = IF Verified(r)
                                 THEN [@ EXCEPT !.pc = "touch", !.age = 0] ELSE NoReq]
    /\ cache' = IF Verified(r)
                THEN [cache EXCEPT ![req[r].proc][req[r].key] = TTL] ELSE cache
    /\ UNCHANGED <<keys, granted, since, handled>>

\* Mutant: the whole row that was read is written back.
TouchRow(r) ==
    /\ req[r].pc = "touch"
    /\ req' = [req EXCEPT ![r] = Admit(@)]
    /\ keys' = [keys EXCEPT ![req[r].key] = req[r].found]
    /\ UNCHANGED <<granted, since, cache, handled>>

\* _touch_last_used: an UPDATE of last_used_at alone, or nothing if it is recent.
Touch(r) ==
    /\ req[r].pc = "touch"
    /\ req' = [req EXCEPT ![r] = Admit(@)]
    /\ UNCHANGED <<keys, granted, since, cache, handled>>

\* The UPDATE fails. The rollback expires the row, and the warning that is to be
\* logged reads its key_id: outside a query that raises, and the answer is a 500.
TouchFails(r) ==
    /\ req[r].pc = "touch"
    /\ req' = [req EXCEPT ![r] = NoReq]
    /\ UNCHANGED <<keys, granted, since, cache, handled>>

\* The answer of a handler that has changed nothing here.
Leave(r) ==
    /\ req[r].pc = "accepted"
    /\ req' = [req EXCEPT ![r] = NoReq]
    /\ UNCHANGED <<keys, granted, since, cache, handled>>

-----------------------------------------------------------------------------
(* The routes of api/keys.py require admin; the CLI requires nothing.      *)

InKeyRoute(r) == req[r].pc = "accepted" /\ req[r].need = Admin

\* ApiKeyCreate wants at least one scope, and none that is unknown.
Grantable(scopes) == scopes # {} /\ scopes \subseteq Scopes

\* A key_id is random, and never used again.
Insert(k, scopes) ==
    /\ keys[k] = "none"
    /\ keys' = [keys EXCEPT ![k] = "live"]
    /\ granted' = [granted EXCEPT ![k] = scopes]

\* create_key: if the commit is refused, nothing happened, and if its answer is
\* lost nobody knows the secret.
Mint(r, k, scopes) ==
    /\ InKeyRoute(r) /\ Grantable(scopes)
    /\ Insert(k, scopes)
    /\ req' = [req EXCEPT ![r] = NoReq]
    /\ UNCHANGED <<since, cache, handled>>

\* `create-key --scopes ,` mints a key without scopes; the API does not.
CliMint(k, scopes) ==
    /\ scopes \subseteq Scopes
    /\ Insert(k, scopes)
    /\ UNCHANGED <<since, cache, req, handled>>

\* A key that is revoked already is answered as it is: nothing is invalidated.
RevokeSelect(r, k) ==
    /\ InKeyRoute(r)
    /\ keys[k] = "live"
    /\ req' = [req EXCEPT ![r].pc = "commit", ![r].target = k]
    /\ UNCHANGED <<keys, granted, since, cache, handled>>

\* Of two that read the row unrevoked both write revoked_at.
SetRevoked(r) ==
    /\ req[r].pc = "commit"
    /\ keys' = [keys EXCEPT ![req[r].target] = "revoked"]

RevokeCommit(r) ==
    /\ SetRevoked(r)
    /\ req' = [req EXCEPT ![r].pc = "invalidate"]
    /\ UNCHANGED <<granted, since, cache, handled>>

\* The commit took effect and its answer is lost: a 500, and no invalidation.
CommitUnknown(r) ==
    /\ SetRevoked(r)
    /\ req' = [req EXCEPT ![r] = NoReq]
    /\ UNCHANGED <<granted, since, cache, handled>>

CommitFails(r) ==
    /\ req[r].pc = "commit"
    /\ req' = [req EXCEPT ![r] = NoReq]
    /\ UNCHANGED <<keys, granted, since, cache, handled>>

\* A lookup of p that has seen the row live and has not put it in the cache yet.
Pending(p, k) ==
    \E r \in Requests : /\ req[r].pc = "resume" /\ req[r].proc = p
                        /\ req[r].key = k /\ Verified(r)

\* Mutant: the route does not drop the entry.
InvalidateNothing(r) ==
    LET p == req[r].proc  k == req[r].target IN
    /\ req[r].pc = "invalidate"
    /\ handled' = [handled EXCEPT ![p][k] = IF Pending(p, k) THEN "busy" ELSE "quiet"]
    /\ req' = [req EXCEPT ![r] = NoReq]
    /\ UNCHANGED <<keys, granted, since, cache>>

Invalidate(r) ==
    LET p == req[r].proc  k == req[r].target IN
    /\ req[r].pc = "invalidate"
    /\ cache' = [cache EXCEPT ![p][k] = 0]
    /\ handled' = [handled EXCEPT ![p][k] = IF Pending(p, k) THEN "busy" ELSE "quiet"]
    /\ req' = [req EXCEPT ![r] = NoReq]
    /\ UNCHANGED <<keys, granted, since>>

-----------------------------------------------------------------------------
(* Time, and processes that end.                                           *)

\* Mutant: an entry never expires.
TickNoTtl ==
    /\ \A r \in Requests : req[r].pc = "resume" => req[r].age < Delay
    /\ since' = [k \in Keys |-> IF keys[k] = "revoked" /\ since[k] < Horizon
                                THEN since[k] + 1 ELSE since[k]]
    /\ req' = [r \in Requests |-> IF req[r].pc = "resume"
                                  THEN [req[r] EXCEPT !.age = @ + 1] ELSE req[r]]
    /\ UNCHANGED <<keys, granted, cache, handled>>

\* Mutant: entries are renewed by time instead of used up.
TickRenews ==
    /\ \A r \in Requests : req[r].pc = "resume" => req[r].age < Delay
    /\ cache' = [p \in Procs |-> [k \in Keys |-> IF cache[p][k] = 0 THEN 0
                                                 ELSE cache[p][k] + 1]]
    /\ since' = [k \in Keys |-> IF keys[k] = "revoked" /\ since[k] < Horizon
                                THEN since[k] + 1 ELSE since[k]]
    /\ UNCHANGED <<keys, granted, req, handled>>

\* A tick passes: the answers of lookups do not take longer than Delay.
Tick ==
    /\ \A r \in Requests : req[r].pc = "resume" => req[r].age < Delay
    /\ cache' = [p \in Procs |-> [k \in Keys |-> IF cache[p][k] = 0 THEN 0
                                                 ELSE cache[p][k] - 1]]
    /\ since' = [k \in Keys |-> IF keys[k] = "revoked" /\ since[k] < Horizon
                                THEN since[k] + 1 ELSE since[k]]
    /\ req' = [r \in Requests |-> IF req[r].pc = "resume"
                                  THEN [req[r] EXCEPT !.age = @ + 1] ELSE req[r]]
    /\ UNCHANGED <<keys, granted, handled>>

\* A process ends, with its cache and its requests, and a new one takes its place.
Restart(p) ==
    /\ cache' = [cache EXCEPT ![p] = [k \in Keys |-> 0]]
    /\ req' = [r \in Requests |-> IF req[r].proc = p THEN NoReq ELSE req[r]]
    /\ UNCHANGED <<keys, granted, since, handled>>

Next ==
    \/ \E r \in Requests :
          \/ \E p \in Procs, n \in Scopes :
                \/ ArriveBootstrap(r, p, n)
                \/ \E k \in Keys, g \in BOOLEAN : Arrive(r, p, n, k, g)
          \/ Select(r) \/ Resume(r)
          \/ Touch(r) \/ TouchFails(r) \/ Leave(r)
          \/ \E k \in Keys, scopes \in Grants : Mint(r, k, scopes)
          \/ \E k \in Keys : RevokeSelect(r, k)
          \/ RevokeCommit(r) \/ CommitUnknown(r) \/ CommitFails(r) \/ Invalidate(r)
    \/ \E k \in Keys, scopes \in Grants : CliMint(k, scopes)
    \/ Tick
    \/ \E p \in Procs : Restart(p)

Spec == Init /\ [][Next]_vars

\* Time passes, and answers that have arrived are taken up. Nobody has to send a
\* request, and no process has to end.
Fairness == WF_vars(Tick) /\ \A r \in Requests : WF_vars(Resume(r))

FairSpec == Spec /\ Fairness

-----------------------------------------------------------------------------
(* Properties.                                                             *)

\* A request that arrives TTL + Delay ticks after a revocation, or later, is not
\* accepted by any process, whichever of them handled the revocation and however
\* lookups, commits and lost answers interleave. (The comment in config.py, "the
\* worst-case delay before a revocation takes effect", leaves out Delay.)
LateRefused ==
    \A r \in Requests :
        req[r].pc \in Inside => req[r].late < Horizon \/ req[r].late = 0

\* "Nothing is cached for a key that fails verification, so this never turns a
\* rejected key into an accepted one" (auth.py): from the cache or not, only a
\* minted key is accepted, with its own secret and for what its scopes allow.
OnlyVerified ==
    \A r \in Requests :
        req[r].pc \in Inside =>
            \/ req[r].bootstrap
            \/ /\ req[r].genuine /\ keys[req[r].key] # "none"
               /\ req[r].need \in Effective(granted[req[r].key])

\* Whose request it is holds admin, and was not revoked long before it.
IsAdmin(r) ==
    \/ req[r].bootstrap
    \/ Admin \in granted[req[r].key] /\ (req[r].late < Horizon \/ req[r].late = 0)

\* Keys are minted and revoked by admins, or minted from the command line, which is
\* no request: through no sequence of requests does a key without admin, or one that
\* had it and was revoked Horizon ticks before, make itself a new key or take
\* another's away.
OnlyAdminsManage ==
    [][\A k \in Keys :
         keys'[k] # keys[k] =>
            \/ keys[k] = "none" /\ UNCHANGED req
            \/ \E r \in Requests :
                  /\ req[r].pc \in Inside /\ req'[r] # req[r] /\ IsAdmin(r)]_vars

\* The docstring's "revocation is immediate in the process that handled it", for
\* the revocations that meet no lookup under way in that process.
QuietRevocation ==
    \A p \in Procs, k \in Keys : handled[p][k] = "quiet" => cache[p][k] = 0

\* The same without the proviso, as the docstring says it.
ImmediateHere ==
    \A p \in Procs, k \in Keys : handled[p][k] # "no" => cache[p][k] = 0

\* Nothing brings a revoked key back: not the UPDATE of a request that read the
\* row before it was revoked, nor a revocation that fails.
RevocationStays == [][\A k \in Keys : keys[k] = "revoked" => keys'[k] = "revoked"]_vars

\* A revocation reaches every process in the end, the ones that never heard of it
\* and the ones whose caches a late lookup has filled again.
RevocationSpreads ==
    \A k \in Keys :
        keys[k] = "revoked" ~> [](\A p \in Procs : cache[p][k] = 0)

\* Why the bound holds (the inductive invariant behind the theorems): an entry's
\* ticks, and the age of a lookup that has seen the key live, both tell how long
\* ago the key can have been revoked at most.
SinceInv == \A k \in Keys : keys[k] # "revoked" => since[k] = 0

EntryInv ==
    \A p \in Procs, k \in Keys :
        cache[p][k] > 0 => keys[k] # "none" /\ since[k] + cache[p][k] <= Horizon

LookupOK(q) ==
    /\ q.late > 0 => keys[q.key] = "revoked"
    /\ q.pc = "touch" => q.found = "live" /\ q.genuine
    /\ q.pc \in {"resume", "touch"} /\ q.found = "live" =>
          q.late = 0 /\ keys[q.key] # "none"
    /\ q.pc = "resume" /\ q.found = "live" => since[q.key] <= q.age
    /\ q.pc \in Inside /\ ~q.bootstrap =>
          /\ q.genuine /\ keys[q.key] # "none"
          /\ q.need \in Effective(granted[q.key])
    /\ q.pc \in Inside => q.late < Horizon \/ q.late = 0
    /\ q.pc \in {"commit", "invalidate"} => q.need = Admin
    /\ q.pc = "invalidate" => keys[q.target] = "revoked"

LookupInv == \A r \in Requests : LookupOK(req[r])

\* In a process that ended a revocation quietly no lookup can fill the cache.
QuietInv ==
    \A p \in Procs, k \in Keys :
        handled[p][k] = "quiet" =>
            keys[k] = "revoked" /\ cache[p][k] = 0 /\ ~Pending(p, k)
=============================================================================
