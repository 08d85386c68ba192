---------------------------- MODULE RulesetCache ----------------------------
(***************************************************************************)
(* The Redis ruleset cache: ripcord/cache.py and its three kinds of user.  *)
(*                                                                         *)
(*   writers     the flag routes (POST, PATCH, DELETE /flags), which commit *)
(*               to Postgres and then call notify_flag_change;             *)
(*   evaluators  POST /evaluate (services.evaluate_flag_cached);           *)
(*   bootstraps  GET /ruleset (realtime.get_ruleset).                      *)
(*                                                                         *)
(* Every Redis command a handler awaits is a step of its own, so any other *)
(* handler, on this server or another, may run between two of them.        *)
(*                                                                         *)
(* A flag's contents matter here only through their age: row.n counts the  *)
(* commits made to a key (a deletion is a commit too), row.born is the     *)
(* commit that inserted the row (its identity: a key deleted and created   *)
(* again is another row), and row.live says whether the row is there.      *)
(***************************************************************************)
EXTENDS Integers

CONSTANTS
    Keys,        \* flag keys
    Writers,     \* concurrent requests that change flags
    Evaluators,  \* concurrent /evaluate requests
    Bootstraps,  \* concurrent /ruleset requests
    Owns,        \* Owns[w]: the flags writer w may change
    Faults,      \* the kinds of Redis failure that may happen
    MaxCommits   \* bound on the commits made to one key

Readers == Evaluators \cup Bootstraps

FaultKinds == {"cache_read", "epoch_read", "publish", "notify", "restart"}

ASSUME KeysAssumption    == Keys # {}
ASSUME ReadersAssumption == Evaluators \cap Bootstraps = {}
ASSUME OwnsAssumption    == Owns \in [Writers -> SUBSET Keys]
ASSUME FaultsAssumption  == Faults \subseteq FaultKinds
ASSUME BoundAssumption   == MaxCommits \in Nat

Row    == [n : Nat, born : Nat, live : BOOLEAN]
Absent == [n |-> 0, born |-> 0, live |-> FALSE]

\* read_epoch failed: write_ruleset is called with expected_epoch=None.
NoFence == -1

VARIABLES
    db,        \* Postgres: the latest committed row of each key
    acked,     \* history: the newest row of each key whose request has returned
    field,     \* the Redis hash: one field per flag, Absent if there is none
    complete,  \* is COMPLETE_FIELD in the hash
    ttl,       \* does the hash have an expiry
    epoch,     \* EPOCH_KEY, 0 when it is unset
    wpc,       \* the next step of each writer
    change,    \* the commit each writer is announcing
    rpc,       \* the next step of each reader
    want,      \* the keys a reader was asked about
    view,      \* what a reader has read so far, and finally answers
    fence,     \* the epoch a rebuild was started at
    tripped,   \* has EPOCH_KEY been written since the WATCH of a reader at EXEC
    floor,     \* history: acked, as it was when the request arrived
    whole      \* history: was the hash complete when the request first read it,
               \* or has it read Postgres since

redis   == <<field, complete, ttl, epoch>>
writers == <<wpc, change>>
readers == <<rpc, want, view, fence, floor, whole>>
vars    == <<db, acked, redis, writers, readers, tripped>>

WriterSteps == {"idle", "reread", "incr", "field", "ttl", "expire", "publish"}
ReaderSteps == {"idle", "hexists", "epoch", "build", "watch", "exec",
                "published", "answered", "failed"}

TypeOK ==
    /\ db \in [Keys -> Row]
    /\ acked \in [Keys -> Row]
    /\ field \in [Keys -> Row]
    /\ complete \in BOOLEAN
    /\ ttl \in BOOLEAN
    /\ epoch \in Nat
    /\ wpc \in [Writers -> WriterSteps]
    /\ change \in [Writers -> [key : Keys, row : Row]]
    /\ rpc \in [Readers -> ReaderSteps]
    /\ want \in [Readers -> SUBSET Keys]
    /\ view \in [Readers -> [Keys -> Row]]
    /\ fence \in [Readers -> Nat \cup {NoFence}]
    /\ tripped \in [Readers -> BOOLEAN]
    /\ floor \in [Readers -> [Keys -> Row]]
    /\ whole \in [Readers -> BOOLEAN]

\* What the cache stores of a row: its payload, or nothing if it is deleted.
Payload(row) == IF row.live THEN row ELSE Absent

\* A Redis key with no field left does not exist.
Exists == complete \/ \E k \in Keys : field[k].live

Nothing  == [k \in Keys |-> Absent]
NoChange == [key |-> CHOOSE k \in Keys : TRUE, row |-> Absent]

\* Redis has just been started; some flags may have been created before that.
Init ==
    /\ db \in [Keys -> {Absent, [n |-> 1, born |-> 1, live |-> TRUE]}]
    /\ acked = db
    /\ field = Nothing
    /\ complete = FALSE
    /\ ttl = FALSE
    /\ epoch = 0
    /\ wpc = [w \in Writers |-> "idle"]
    /\ change = [w \in Writers |-> NoChange]
    /\ rpc = [r \in Readers |-> "idle"]
    /\ want = [r \in Readers |-> {}]
    /\ view = [r \in Readers |-> Nothing]
    /\ fence = [r \in Readers |-> NoFence]
    /\ tripped = [r \in Readers |-> FALSE]
    /\ floor = [r \in Readers |-> Nothing]
    /\ whole = [r \in Readers |-> FALSE]

-----------------------------------------------------------------------------
(* Writers: the database commit, then notify_flag_change.                  *)

WriterAt(w, step, next) ==
    /\ wpc[w] = step
    /\ wpc' = [wpc EXCEPT ![w] = next]

\* One committed change to a flag. FlagStore models how the handler gets here.
Commit(w, k, row, next) ==
    /\ WriterAt(w, "idle", next)
    /\ k \in Owns[w]
    /\ db[k].n < MaxCommits
    /\ db' = [db EXCEPT ![k] = row]
    /\ change' = [change EXCEPT ![w] = [key |-> k, row |-> row]]
    /\ UNCHANGED <<acked, redis, readers, tripped>>

Create(w, k) ==
    /\ ~db[k].live
    /\ Commit(w, k, [n |-> db[k].n + 1, born |-> db[k].n + 1, live |-> TRUE],
              "reread")

Update(w, k) ==
    /\ db[k].live
    /\ Commit(w, k, [db[k] EXCEPT !.n = @ + 1], "reread")

Delete(w, k) ==
    /\ db[k].live
    /\ Commit(w, k, [db[k] EXCEPT !.n = @ + 1, !.live = FALSE], "incr")

\* The get_flag after the commit. The session's identity map keeps this
\* request's own values of its row, whatever has been committed since; a row
\* created anew under the same key is another object and is read afresh.
Reread(w) ==
    /\ db[change[w].key].live
    /\ WriterAt(w, "reread", "incr")
    /\ change' = IF db[change[w].key].born = change[w].row.born THEN change
                 ELSE [change EXCEPT ![w].row = db[change[w].key]]
    /\ UNCHANGED <<db, acked, redis, readers, tripped>>

\* The row has been deleted in between: get_flag returns None, flag_payload
\* raises, and the request fails before notify_flag_change is called.
RereadGone(w) ==
    /\ ~db[change[w].key].live
    /\ WriterAt(w, "reread", "idle")
    /\ change' = [change EXCEPT ![w] = NoChange]
    /\ UNCHANGED <<db, acked, redis, readers, tripped>>

\* EPOCH_KEY is written, or the connections are lost: every WATCH is tripped.
Touch == tripped' = [r \in Readers |-> tripped[r] \/ rpc[r] = "exec"]

\* Mutant: the counter is moved the wrong way.
DecrEpoch(w) ==
    /\ WriterAt(w, "incr", "field")
    /\ epoch' = epoch - 1
    /\ Touch
    /\ UNCHANGED <<db, acked, field, complete, ttl, change, readers>>

IncrEpoch(w) ==
    /\ WriterAt(w, "incr", "field")
    /\ epoch' = epoch + 1
    /\ Touch
    /\ UNCHANGED <<db, acked, field, complete, ttl, change, readers>>

\* Mutant: a deletion is announced but the field stays.
WriteFieldNoHdel(w) ==
    LET c == change[w] IN
    /\ WriterAt(w, "field", IF c.row.live THEN "ttl" ELSE "publish")
    /\ field' = IF c.row.live THEN [field EXCEPT ![c.key] = c.row] ELSE field
    /\ UNCHANGED <<db, acked, complete, ttl, epoch, change, readers, tripped>>

\* Mutant: the writer leaves the expiry to the next rebuild.
WriteFieldNoTtl(w) ==
    LET c == change[w] IN
    /\ WriterAt(w, "field", "publish")
    /\ field' = [field EXCEPT ![c.key] = Payload(c.row)]
    /\ UNCHANGED <<db, acked, complete, epoch, change, readers, tripped>>
    /\ ttl' = (ttl /\ Exists')

\* HSET of the payload, or HDEL when the flag was deleted.
WriteField(w) ==
    LET c == change[w] IN
    /\ WriterAt(w, "field", IF c.row.live THEN "ttl" ELSE "publish")
    /\ field' = [field EXCEPT ![c.key] = Payload(c.row)]
    /\ UNCHANGED <<db, acked, complete, epoch, change, readers, tripped>>
    /\ ttl' = (ttl /\ Exists')

\* TTL answers a negative number for a key without expiry and for no key.
CheckTtl(w) ==
    /\ WriterAt(w, "ttl", IF ttl THEN "publish" ELSE "expire")
    /\ UNCHANGED <<db, acked, redis, change, readers, tripped>>

\* Mutant: only a hash that a rebuild has completed gets its expiry.
SetTtlIfComplete(w) ==
    /\ WriterAt(w, "expire", "publish")
    /\ ttl' = complete
    /\ UNCHANGED <<db, acked, field, complete, epoch, change, readers, tripped>>

SetTtl(w) ==
    /\ WriterAt(w, "expire", "publish")
    /\ ttl' = Exists
    /\ UNCHANGED <<db, acked, field, complete, epoch, change, readers, tripped>>

\* The request returns: its change is now promised to be in effect.
Return(w) ==
    LET c == change[w] IN
    /\ wpc' = [wpc EXCEPT ![w] = "idle"]
    /\ acked' = IF c.row.n > acked[c.key].n
                THEN [acked EXCEPT ![c.key] = c.row] ELSE acked
    /\ change' = [change EXCEPT ![w] = NoChange]
    /\ UNCHANGED <<db, redis, readers, tripped>>

Publish(w) == wpc[w] = "publish" /\ Return(w)

\* Any Redis command of notify_flag_change raises. The exception is logged and
\* swallowed: the rest is skipped and the request returns as if all were well.
NotifyFails(w) ==
    /\ "notify" \in Faults
    /\ wpc[w] \in {"incr", "field", "ttl", "expire", "publish"}
    /\ Return(w)

WriterStep(w) ==
    \/ Reread(w) \/ RereadGone(w) \/ IncrEpoch(w) \/ WriteField(w)
    \/ CheckTtl(w) \/ SetTtl(w) \/ Publish(w) \/ NotifyFails(w)

-----------------------------------------------------------------------------
(* Readers: a cache hit, or a rebuild of the whole hash from Postgres.     *)

ReaderAt(r, step, next) ==
    /\ rpc[r] = step
    /\ rpc' = [rpc EXCEPT ![r] = next]

Arrive(r, keys, seen, next) ==
    /\ ReaderAt(r, "idle", next)
    /\ want' = [want EXCEPT ![r] = keys]
    /\ view' = [view EXCEPT ![r] = [k \in Keys |-> IF k \in keys THEN seen[k]
                                                   ELSE Absent]]
    /\ floor' = [floor EXCEPT ![r] = [k \in Keys |-> IF k \in keys THEN acked[k]
                                                     ELSE Absent]]
    /\ whole' = [whole EXCEPT ![r] = complete]
    /\ UNCHANGED <<db, acked, redis, writers, fence, tripped>>

\* read_flag pipelines HGET and HEXISTS without a transaction, so another
\* client's command may run between the two.
Evaluate(r, k) == Arrive(r, {k}, field, "hexists")

HExists(r) ==
    /\ ReaderAt(r, "hexists",
                IF complete \/ \E k \in want[r] : view[r][k].live
                THEN "answered" ELSE "epoch")
    /\ UNCHANGED <<db, acked, redis, writers, want, view, fence, tripped, floor,
                   whole>>

\* Mutant: a hash that is not empty is taken for the whole ruleset.
RulesetUnmarked(r) ==
    \/ Exists /\ Arrive(r, Keys, field, "answered")
    \/ ~Exists /\ Arrive(r, Keys, Nothing, "epoch")

\* HGETALL reads the marker and every field in one command.
Ruleset(r) ==
    \/ complete /\ Arrive(r, Keys, field, "answered")
    \/ ~complete /\ Arrive(r, Keys, Nothing, "epoch")

\* Mutant: reading the counter writes it back (an EXPIRE, say), which trips WATCHes.
RewriteEpoch(r) ==
    /\ ReaderAt(r, "epoch", "build")
    /\ fence' = [fence EXCEPT ![r] = epoch]
    /\ Touch
    /\ UNCHANGED <<db, acked, redis, writers, want, view, floor, whole>>

ReadEpoch(r) ==
    /\ ReaderAt(r, "epoch", "build")
    /\ fence' = [fence EXCEPT ![r] = epoch]
    /\ UNCHANGED <<db, acked, redis, writers, want, view, tripped, floor,
                   whole>>

\* build_ruleset_mapping: from here on the request answers from this snapshot.
\* The first SELECT has the flags, the next two their rules and variants, which
\* may be newer by then: view is the age of the oldest part, so a snapshot mixed
\* from two versions is one that differs from db. Without a fence the WATCH is
\* skipped.
Build(r) ==
    /\ ReaderAt(r, "build", IF fence[r] = NoFence THEN "exec" ELSE "watch")
    /\ view' = [view EXCEPT ![r] = db]
    /\ whole' = [whole EXCEPT ![r] = TRUE]
    /\ UNCHANGED <<db, acked, redis, writers, want, fence, tripped, floor>>

\* Mutant: WATCH alone is relied on, without comparing the counter.
WatchOnly(r) ==
    /\ ReaderAt(r, "watch", "exec")
    /\ UNCHANGED <<db, acked, redis, writers, want, view, fence, tripped, floor,
                   whole>>

\* WATCH, then GET and compare with the epoch read before the snapshot.
Watch(r) ==
    /\ ReaderAt(r, "watch", IF epoch = fence[r] THEN "exec" ELSE "answered")
    /\ UNCHANGED <<db, acked, redis, writers, want, view, fence, tripped, floor,
                   whole>>

\* Mutant: the counter is compared, but not watched until EXEC.
ExecUnwatched(r) ==
    /\ ReaderAt(r, "exec", "published")
    /\ field' = [k \in Keys |-> Payload(view[r][k])]
    /\ complete' = TRUE
    /\ ttl' = TRUE
    /\ fence' = [fence EXCEPT ![r] = NoFence]
    /\ tripped' = [tripped EXCEPT ![r] = FALSE]
    /\ UNCHANGED <<db, acked, epoch, writers, want, view, floor, whole>>

\* Mutant: the DEL takes the expiry with it and no EXPIRE follows.
ExecNoExpire(r) ==
    /\ IF tripped[r] /\ fence[r] # NoFence
       THEN ReaderAt(r, "exec", "answered") /\ UNCHANGED redis
       ELSE /\ ReaderAt(r, "exec", "published")
            /\ field' = [k \in Keys |-> Payload(view[r][k])]
            /\ complete' = TRUE
            /\ ttl' = FALSE
            /\ UNCHANGED epoch
    /\ fence' = [fence EXCEPT ![r] = NoFence]
    /\ tripped' = [tripped EXCEPT ![r] = FALSE]
    /\ UNCHANGED <<db, acked, writers, want, view, floor, whole>>

\* A command fails: an evaluation catches it and goes on from the database,
\* get_ruleset lets it become a 500.
Degrade(r, next) == IF r \in Evaluators THEN next ELSE "failed"

\* Where an EXEC that was applied leads; its reply may be lost.
Outcomes(r) ==
    {"published"} \cup {step \in {Degrade(r, "published")} : "publish" \in Faults}

\* MULTI/EXEC of DEL, HSET and EXPIRE: atomic, and refused if the watched
\* counter was written since the WATCH.
Exec(r) ==
    /\ IF tripped[r] /\ fence[r] # NoFence
       THEN ReaderAt(r, "exec", "answered") /\ UNCHANGED redis
       ELSE /\ \E next \in Outcomes(r) : ReaderAt(r, "exec", next)
            /\ field' = [k \in Keys |-> Payload(view[r][k])]
            /\ complete' = TRUE
            /\ ttl' = TRUE
            /\ UNCHANGED epoch
    /\ fence' = [fence EXCEPT ![r] = NoFence]
    /\ tripped' = [tripped EXCEPT ![r] = FALSE]
    /\ UNCHANGED <<db, acked, writers, want, view, floor, whole>>

\* The response is sent and the request forgotten.
Respond(r) ==
    /\ rpc[r] \in {"answered", "published", "failed"}
    /\ rpc' = [rpc EXCEPT ![r] = "idle"]
    /\ want' = [want EXCEPT ![r] = {}]
    /\ view' = [view EXCEPT ![r] = Nothing]
    /\ fence' = [fence EXCEPT ![r] = NoFence]
    /\ tripped' = [tripped EXCEPT ![r] = FALSE]
    /\ floor' = [floor EXCEPT ![r] = Nothing]
    /\ whole' = [whole EXCEPT ![r] = FALSE]
    /\ UNCHANGED <<db, acked, redis, writers>>

(* Redis errors.                                                           *)

CacheReadFails(r, keys) ==
    /\ "cache_read" \in Faults
    /\ Arrive(r, keys, Nothing, Degrade(r, "epoch"))

\* Mutant: the epoch is read outside the try block.
EpochReadRaises(r) ==
    /\ "epoch_read" \in Faults
    /\ ReaderAt(r, "epoch", "failed")
    /\ UNCHANGED <<db, acked, redis, writers, want, view, fence, tripped, floor,
                   whole>>

EpochReadFails(r) ==
    /\ "epoch_read" \in Faults
    /\ ReaderAt(r, "epoch", Degrade(r, "build"))
    /\ UNCHANGED <<db, acked, redis, writers, want, view, fence, tripped, floor,
                   whole>>

PublishFails(r) ==
    /\ "publish" \in Faults
    /\ \E step \in {"watch", "exec"} : ReaderAt(r, step, Degrade(r, "answered"))
    /\ UNCHANGED <<db, acked, redis, writers, want, view, fence, tripped, floor,
                   whole>>

ReaderStep(r) ==
    \/ HExists(r) \/ ReadEpoch(r) \/ Build(r) \/ Watch(r) \/ Exec(r)
    \/ Respond(r) \/ EpochReadFails(r) \/ PublishFails(r)

-----------------------------------------------------------------------------
(* Redis itself.                                                           *)

\* RULESET_TTL_SECONDS have passed. Time is not modelled: an expiry that is
\* set may run out at any moment.
Expire ==
    /\ ttl
    /\ field' = Nothing
    /\ complete' = FALSE
    /\ ttl' = FALSE
    /\ UNCHANGED <<db, acked, epoch, writers, readers, tripped>>

\* Redis restarts empty: the counter is lost with the hash, and a connection
\* that had issued WATCH cannot execute its transaction any more.
Restart ==
    /\ "restart" \in Faults
    /\ field' = Nothing
    /\ complete' = FALSE
    /\ ttl' = FALSE
    /\ epoch' = 0
    /\ Touch
    /\ UNCHANGED <<db, acked, writers, readers>>

Next ==
    \/ \E w \in Writers, k \in Keys : Create(w, k) \/ Update(w, k) \/ Delete(w, k)
    \/ \E w \in Writers : WriterStep(w)
    \/ \E r \in Evaluators, k \in Keys : Evaluate(r, k) \/ CacheReadFails(r, {k})
    \/ \E r \in Bootstraps : Ruleset(r) \/ CacheReadFails(r, Keys)
    \/ \E r \in Readers : ReaderStep(r)
    \/ Expire
    \/ Restart

\* A request that has arrived is carried on by its server's event loop, and an
\* expiry that is set runs out: only a rebuild of a hash without the marker
\* renews it. Nothing makes a request arrive or Redis fail.
Fairness ==
    /\ \A w \in Writers : WF_vars(WriterStep(w))
    /\ \A r \in Readers : WF_vars(ReaderStep(r))
    /\ WF_vars(Expire)

Spec == Init /\ [][Next]_vars /\ Fairness

-----------------------------------------------------------------------------
(* Properties.                                                             *)

\* A writer that has committed but not yet moved the fence, resp. the field.
BeforeBump(w)  == wpc[w] \in {"reread", "incr"}
BeforeField(w) == wpc[w] \in {"reread", "incr", "field"}

\* A reader's row is the current one, or its successor is yet to be announced.
Covered(r, k) ==
    \/ view[r][k] = db[k]
    \/ \E w \in Writers : BeforeBump(w) /\ change[w].key = k
                         /\ change[w].row = db[k]

Settling(k) == \E w \in Writers : change[w].key = k /\ BeforeField(w)

Quiet == \A w \in Writers : wpc[w] = "idle"

\* The fence (write_ruleset, notify_flag_change): a rebuild whose EXEC changes the
\* hash, whether or not its reply arrives, has either the database as it is now,
\* or misses only commits whose writer has yet to bump the epoch, and so will
\* write its field after the publication. So no flag mixed from two versions by
\* the SELECTs of a rebuild is published to stay.
FencedPublish ==
    [][\A r \in Readers : rpc[r] = "exec" /\ rpc'[r] # "exec" /\ redis' # redis =>
         \A k \in Keys : Covered(r, k)]_vars

\* Why it does (the inductive invariant behind FencedPublish). A rebuild's fence
\* is never ahead of the counter; one that may still publish has seen the
\* counter stand still; and a snapshot that misses a commit is either fenced
\* off already, or will be when the commit's writer bumps the counter.
FenceInv ==
    /\ \A r \in Readers :
          /\ rpc[r] \in {"build", "watch", "exec"} =>
                fence[r] # NoFence /\ fence[r] <= epoch
          /\ rpc[r] = "exec" /\ ~tripped[r] => fence[r] = epoch
          /\ rpc[r] \in {"watch", "exec"} /\ fence[r] = epoch =>
                \A k \in Keys : Covered(r, k)
    /\ \A w \in Writers : wpc[w] = "reread" => change[w].row.live

\* The hash never disagrees with Postgres about a flag unless the writer that
\* changed it is still on its way to its own HSET or HDEL: a complete hash is
\* neither stale nor short, and a partial one is not stale.
Matches(k) ==
    complete \/ field[k].live => field[k] = Payload(db[k]) \/ Settling(k)

HashMatchesDb == \A k \in Keys : Matches(k)

\* The kill switch: once the request that changed a flag has returned, no
\* request that arrives later is answered from an older version of the flag,
\* wherever the answer comes from (evaluate_flag_cached, get_ruleset).
NeverStale(k) ==
    \A r \in Readers :
        rpc[r] \in {"answered", "published"} /\ k \in want[r] /\ view[r][k].live
            => view[r][k].n >= floor[r][k].n

NoStaleAnswer == \A k \in Keys : NeverStale(k)

\* For that, the requests that change the flag must not overlap, from the commit
\* of each to its return.
Changes(w, k) == wpc[w] # "idle" /\ change[w].key = k

Apart(k) == \A v, w \in Writers : Changes(v, k) /\ Changes(w, k) => v = w

\* Then the one under way announces the newest row.
KnowsNewest(k) == \A w \in Writers : Changes(w, k) => change[w].row = db[k]

\* What a returned request promised is not undone: not in Postgres, not in the
\* hash, not by a rebuild that may still publish, not in any reader's hands.
PromiseKept(k) ==
    /\ acked[k].n <= db[k].n
    /\ field[k].live => field[k].n >= acked[k].n
    /\ \A r \in Readers :
          /\ rpc[r] \in {"watch", "exec"} /\ fence[r] = epoch =>
                view[r][k].n >= acked[k].n
          /\ floor[r][k].n <= acked[k].n
          /\ view[r][k].live => view[r][k].n >= floor[r][k].n

\* It is the same flag, maybe changed, that exists now.
StillThere(old, new) == old.live /\ new.live /\ old.born = new.born

\* No bootstrap, and no evaluation that was answered by a complete hash or from
\* Postgres, is told that a flag is missing while it has existed since the request
\* came in. The one evaluation that may be is torn: its HGET found no field in a
\* hash without the marker, and its HEXISTS the marker of a rebuild that followed.
NeverMissing(k) ==
    \A r \in Readers :
        rpc[r] \in {"answered", "published"} /\ k \in want[r] /\ ~view[r][k].live
          /\ (whole[r] \/ r \in Bootstraps)
            => ~StillThere(floor[r][k], db[k])

RulesetIsWhole == \A k \in Keys : NeverMissing(k)

\* The TTL safety net: a hash without an expiry is one whose creator is about
\* to set it, however HSET, TTL and EXPIRE of several writers, rebuilds and
\* the expiry itself interleave.
HashExpires ==
    Exists => ttl \/ \E w \in Writers : wpc[w] \in {"ttl", "expire"}

\* The cache heals itself: a stale field does not stay in the hash for ever.
SelfHeals ==
    \A k \in Keys : (field[k].live /\ field[k] # db[k])
                       ~> (field[k] = Payload(db[k]) \/ ~field[k].live)

\* ... and, whatever fails, a complete hash that is stale or short does not.
CompleteHashHeals ==
    \A k \in Keys : (complete /\ field[k] # Payload(db[k]))
                       ~> (~complete \/ field[k] = Payload(db[k]))

\* A rebuild that starts when no flag is being changed warms the cache unless
\* a change starts meanwhile: concurrent rebuilds do not abort each other.
QuietRebuildWarms ==
    \A r \in Readers : (rpc[r] = "epoch" /\ Quiet) ~> (complete \/ ~Quiet)

\* A Redis that fails at any command, or is emptied, never fails /evaluate,
\* and an answer that was built from Postgres is as new as the request.
EvaluateSurvivesRedis ==
    \A r \in Evaluators :
        /\ rpc[r] # "failed"
        /\ rpc[r] \in {"watch", "exec", "published"} =>
              \A k \in want[r] : view[r][k].n >= floor[r][k].n
=============================================================================
