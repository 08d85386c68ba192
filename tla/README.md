# Ripcord in TLA+

Ripcord is a feature-flag service: a FastAPI server that keeps flags in Postgres, serves
evaluations from a ruleset cached in Redis, announces changes over Redis pub/sub and SSE,
and comes with a Python SDK that evaluates locally and a dashboard. Any number of server
processes share one Postgres and one Redis, and every handler gives way to other handlers
at each `await`. This directory models the parts where that matters, checks them with TLC
and proves the main results with TLAPS for all values of the constants.

## 1. The system

| Component | State | Operations | Talks to | What makes it correct |
|---|---|---|---|---|
| Flag store (`ripcord/services.py`, `api/flags.py`, `models.py`, `schemas.py`, `db.py`) | tables `flags`, `targeting_rules`, `variants`, `audit_log` | create, get, update (optimistic locking), delete | Postgres | no lost update; a flag never refers to a variant it lacks; the audit log agrees with the flags; amounts to one atomic change at a time |
| Ruleset cache (`ripcord/cache.py`, `services.evaluate_flag_cached`, `api/realtime.get_ruleset`) | Redis hash of payloads with a completeness marker and an expiry; the change counter ("epoch") | lookup, rebuild (fenced by the epoch), announce a change | Postgres, Redis | the kill switch: once a change has been answered nobody who asks later is served the old flag; a partial hash is not taken for the whole; what is stale goes away |
| API keys (`ripcord/auth.py`, `api/keys.py`, `cli.py`) | table `api_keys` with the scopes of each key; per process, the keys verified lately | authenticate, check a scope, mint (API, CLI), revoke, `last_used_at` | Postgres | revocation takes effect within a bound, everywhere, and for good; only admins mint and revoke |
| Change stream (`api/realtime.flag_change_events`) | one pub/sub subscription per open stream | subscribe, forward | Redis, SDK, dashboard | every change that is announced while a stream is up reaches it |
| SDK (`ripcord/sdk/client.py`) | the ruleset last fetched; a watch task | start, refresh, evaluate, watch, close | `/ruleset`, `/stream` | it converges to the server's flags; it never loses the last good ruleset; it keeps reconnecting |
| Engine (`ripcord/engine.py`) | none | evaluate a flag for a user | - | sticky, monotonic rollout, complete bands of weights, total |
| Validation (`ripcord/schemas.py`) | none | accept or reject a body | - | what a create accepts, or a patch leaves behind, the engine can serve |
| Insights (`api/insights.py`) | none | list the audit log, aggregate | Postgres | order of the entries |
| Dashboard (`dashboard/`) | the flag on screen, the key in local storage | load, patch, edit, sign in | HTTP API | shows the newest answer; never patches with a version it did not show |
| App, configuration, logging, metrics, migrations, scripts, Terraform | - | wiring and tooling | - | - |

The hard behaviours are the ones between two awaits:

* a rebuild of the cache reads Postgres, and publishes later, while a change commits,
  bumps the epoch, writes its field and is answered;
* announcements of two changes overtake each other; Redis fails, or is emptied, at any
  command of either;
* HSET, TTL and EXPIRE are three commands, HGET and HEXISTS are two;
* a flag is read by three SELECTs and checked, while it is changed, deleted or created anew;
  its audit entry takes its id before the row lock decides who commits first;
* the rules of a flag come to the engine in one order from the request that wrote them, in
  another from the table, and a load may mix two versions of a flag;
* the SDK's bootstrap, its watch, the application's own refreshes and `close` meet at every
  `await`, over a stream that drops what nobody listens to;
* `start` is called again, and the first watch has no handle any more when `close` comes;
* a key is looked up while it is revoked, here or by another process, perhaps by a request
  of its own; the answer of the revocation's commit is lost; a process ends.

`PROJECT.json` lists each with its line ("hazards"), with the properties that cover it or
the reason why none does yet.

## 2. Modules

| Module | Models | Checked with | Proved in |
|---|---|---|---|
| `RulesetCache` | `cache.py` and its three kinds of user, a step per Redis command | `MCRulesetCache` | `RulesetCacheProofs` (the fence, the kill switch), `RulesetAnswerProofs` (expiry, answers) |
| `ServedFlag`, `RulesetServes` | what the cache promises about one flag; a history of the flag and the refinement mapping from `RulesetCache` | `MCRulesetServes` | `RulesetServesProofs` |
| `FlagStore` | create, get, update, delete, with validation and locking | `MCFlagStore` | `FlagStoreProofs` |
| `FlagRegister` | the abstract specification `FlagStore` implements | (through `FlagStore`) | `FlagStoreProofs` |
| `KeyCache` | authentication, scopes, minting, revocation, time | `MCKeyCache` | `KeyCacheProofs` |
| `SdkWatch` | the client's copy, its refreshes and its watch, over `/ruleset` and `/stream` | `MCSdkWatch` | `SdkWatchProofs` |
| `FollowedRuleset` | the abstract specification of the copy that `SdkWatch` implements | (through `SdkWatch`) | `SdkWatchProofs` |
| `Engine` | `evaluate` and all it calls, as operators | (through `Serving`) | `ServingProofs`, `ShareProofs` |
| `Serving` | the flags the engine is given: writes that the schemas accept, loads, loads cut in two; the SDK's accessors | `MCServing` | `ServingProofs`, `ShareProofs` |

`FlagStore` decides what is committed, `RulesetCache` which version of it an evaluation
meets, `Serving` with `Engine` what that version serves, `SdkWatch` when an SDK gets it.
Each takes from the others what they promise: `RulesetCache` takes commits as steps
(`FlagStore` shows that they amount to steps), `SdkWatch` takes `/ruleset` as answering no
older than what had been announced (`NoStaleAnswer` and `RulesetIsWhole` of `RulesetCache`,
proved as `KillSwitchTheorem` and `WholeTheorem` where changes of a flag do not overlap), `Serving`
takes coherent rows (`AlwaysCoherent` of `FlagStore`; the weights it checks itself).

Operators whose comment starts with "Mutant:" are not part of the specifications: each is a
plausible bug in the definition that follows it (a dropped guard, a missing reset), which
the property named with it in `PROJECT.json` must catch.

### RulesetCache

*State.* `db` is what is committed: per key a record of how many commits it has had (`n`),
the commit that created it (`born`) and whether it is there (`live`). Payloads are compared
for nothing but their age, so a row stands for its payload. `field`, `complete`, `ttl` are
the hash; `epoch` the counter. Writers are requests to the flag routes from their commit to
their answer; readers are evaluations and `/ruleset` requests.

| Actions | Code |
|---|---|
| `Create`, `Update`, `Delete` | the commit in `services.py`; `FlagStore` is the detail |
| `Reread`, `RereadGone` | the `get_flag` after it. The session keeps its own object of the same row; if the row is gone the request fails before it announces anything |
| `IncrEpoch`, `WriteField`, `CheckTtl`, `SetTtl`, `Publish` | the five commands of `notify_flag_change`; `NotifyFails` is its `except` at any of them |
| `Evaluate`, `HExists` | the two commands of `read_flag`'s pipeline, which is not a transaction |
| `Ruleset` | `read_ruleset`: one HGETALL |
| `ReadEpoch`, `Build`, `Watch`, `Exec` | `read_epoch`; `build_ruleset_mapping`; WATCH with the comparison; MULTI/EXEC, refused when the counter has been written since |
| `CacheReadFails`, `EpochReadFails`, `PublishFails` | the three `except`s of `evaluate_flag_cached`; in `get_ruleset`, which has none, the request fails |
| `Expire`, `Restart` | Redis: the TTL runs out; Redis comes back empty |

`notify_flag_change`'s last `else` (DEL of the whole hash) is left out: no caller passes
neither a payload nor "deleted". A command that fails has no effect in the model; one whose
*reply* is lost is, for the handler, the same as one that fails a command later, except for
EXEC: `Outcomes` has both the reply that arrives and, where the run allows that fault, the one
that is lost after the publication took place.
The snapshot of `Build` is one step although three SELECTs read it: it stands for the age of
the first of them. A snapshot that mixes two versions of a flag is then one that differs from
`db`, so `FencedPublish` and `HashMatchesDb` speak of its publication as of any other old
one; what the engine makes of a mixed one that is answered is the subject of `Serving`.

*Properties.* `NoStaleAnswer` (the kill switch), `HashMatchesDb`, `FencedPublish` (the
fence), `RulesetIsWhole`, `HashExpires`, `SelfHeals`, `CompleteHashHeals`,
`QuietRebuildWarms`, `EvaluateSurvivesRedis`. `RulesetIsWhole` needs to know whether an
evaluation's HGET saw a complete hash, which its HEXISTS, sent apart, does not tell: the
history variable `whole` records it. It leaves out exactly the torn lookup, whose HGET came
before a publication and whose HEXISTS after it; without that exception TLC finds it.

*`ServedFlag`, `RulesetServes`.* What an evaluation may count on, without Redis: the flag is a
log of its changes, `promised` is the newest of them whose request has returned, and a request is
answered with a version no older than the one promised when it asked, or with "no such flag" if
at some time since there was none (a regular register: changes under way may be seen or not). A
request that errs, or is torn as above, learns nothing. `RulesetServes` adds the log of one flag,
`Flag`, to `RulesetCache` as a history variable, maps a handler's steps to a call that waits, is
answered or has failed, and states the refinement as `ServedSpec`. Rebuilds, expiries and the
steps of `notify_flag_change` before its return are stutters.

### FlagStore and FlagRegister

*State.* `rows` holds the committed flag of each key, cut down to the parts that constrain
each other: the variants it defines, the variants its rules pin, `off_variant`, with `id`
and `version`. `audit` is the log of each key, `copy` what each operator last received (its
PATCH carries that version), and `loaded` the `Flag` object of the request's session.

`Select`, `LoadRules`, `LoadVariants` are the SELECTs of `get_flag` with its two eager
loads; then `Get` answers, or a refusal does, or `Flush` begins the transaction: it inserts
the audit entry, whose id is taken here (`mark` remembers, for the properties, how many
entries of the flag were committed then). `Update` and `Delete` are the guarded statement
and the commit, one step because the row lock orders the transactions and nothing of it is
visible before the commit; the guard is the `WHERE version = ...` that `version_id_col`
adds. `Post` and `Insert` are the same two steps of a create. `Blank` is the empty string
where a variant may be named: the schemas compare with None and refuse it, the truth tests of
`update_flag` and the engine take it for none. `VersionMismatch`, `Invalid`, `StaleUpdate`,
`StaleDelete` and `DuplicateKey` are the refusals. `Reread` is the `get_flag` after a commit,
answered with the session's own object, or with a 500 if the key is gone; `RereadNew` is its
first SELECT when the key was created anew, after which the request goes on as a GET.

*Properties.* `NoLostUpdate`, `AlwaysCoherent`, `AuditReplays`, `AuditInOrder` (the ids by
which `list_audit` sorts follow the commits), `ReadInv` (what torn reads may hold) and `RegisterSpec`: the store implements `FlagRegister`, in which a key holds
nothing or one coherent flag and each change is a single step. The refinement maps `reg` to
`rows`; every action but `Insert`, `Update` and `Delete` is a stutter.

### KeyCache

*State.* `keys` is `api_keys` cut down to existence and revocation, `granted` the scopes of
each key; `cache[p][k]` the ticks process `p` will still accept `k` from memory (0: no
entry). `since[k]` counts the ticks since the revocation, up to the horizon after which
nothing changes any more; `handled` remembers whether a process ended a revocation while one
of its own lookups was under way. `req` is one request of each client: its process, its
credential (the bootstrap key, or a key with the right or a wrong secret), the scope its
route requires, and how far it has come. `Delay` bounds, in ticks, how long the answer of a
lookup may take. The code has no such bound (asyncpg's default timeouts do not limit it), so
the bound is a parameter.

| Actions | Code |
|---|---|
| `ArriveBootstrap` | `authenticate` with the bootstrap key: admin, no lookup |
| `Arrive` | a cache hit, decided without an await, or the start of a miss |
| `Select`, `Resume` | the moment Postgres answers; everything after it until the next await, the insertion into the cache included |
| `Touch`, `TouchFails` | `_touch_last_used`, and then `require`: `Admit` lets the request into its handler, or answers 403 |
| `Mint`, `CliMint` | `create_key`, by a request with admin; `create-key` of the command line, which also mints keys without scopes |
| `RevokeSelect`, `RevokeCommit`, `Invalidate` | `revoke_key`, by a request with admin, which may be revoking the key it came with |
| `CommitFails`, `CommitUnknown` | its commit is refused; or takes effect while the answer is lost, and `invalidate_key_cache` is never reached |
| `Leave`, `Tick`, `Restart` | any other handler; time; a process that ends |

With `auth_enabled` False (for development) `require` asks nothing, and none of this is about that.

*Properties.* `LateRefused` (the bound), `QuietRevocation`, `OnlyVerified` (secret and
scope), `OnlyAdminsManage`, `RevocationStays`, `RevocationSpreads`.

### SdkWatch

*State.* The ruleset is its version; `version` is what is committed, `announced` what
`notify_flag_change` has told. `copy` is `_flags` by its age. Each coroutine of the
application makes one call of `start`, `refresh` or `close` (`app`); a watch task is at the
top of its loop, connecting, reading or refreshing (`wpc`), with a `stream` and the events
on the `wire`. `get` is the GET of each coroutine: sent, served by the server, received.

| Actions | Code |
|---|---|
| `Change`, `Announce` | a commit; PUBLISH, which appends to the wires of the open streams only |
| `Serve` | `/ruleset`: any version from what was announced when it was asked to what is committed |
| `Break` | the stream is lost, with a suffix of what was on its way |
| `Start`, `StartReturns`; `Refresh`, `RefreshReturns` | the calls, cut at the GET; an answer replaces the copy, a failure leaves it |
| `Close` | `_stopped`, and the cancellation of the task the handle has, at whichever await it is |
| `Loop`, `Connect`, `ConnectFails`, `ReadEvent`, `EventHandled`, `StreamEnds` | `_watch` from await to await |

One operator announces at a time and announcements do not fail: what overtaking and lost
announcements do is the subject of `RulesetCache`. `known` and `overlapped` are for the
properties only: the newest version that some answer so far had to show, and whether two
GETs have been under way at once. The back-off has no duration.

There are as many watch tasks as `start` calls have returned; `task` is the handle of the
last one, which is all that `close` can cancel. A task left without a handle goes on until
its connection is lost, then sees `_stopped` and ends.

*Properties.* `NoStepBack`, `ClosedIsQuiet`, `EventsAreHeeded`, `WatchResumes`, `LeakedEnds`,
and `FollowsServer`: the client implements `FollowedRuleset`, which knows no tasks, streams
or calls. There a fetcher asks, and later adopts any ruleset the server has come to have
since the change that was promised when it asked, or gives up; nothing else touches the copy.
A coroutine whose GET is under way is a fetcher that has asked; the server's answer is chosen
when it is sent and adopted later, which `FollowedRuleset` does in one step, since what the
server has only grows. The copy may step back within that window when GETs overlap;
`NoStepBack` says when it cannot.

### Engine and Serving

`Engine` has the functions of `engine.py` as operators over a flag and a user. A user is a
pair of buckets and a context: nothing in `evaluate` depends on how MD5 makes the buckets,
so the properties quantify over all pairs. `ChooseVariant` keeps the walk over cumulative
weights, its fallbacks included. Variants are a function from keys to weights, because
their order is lost in three places (the relationship's `order_by`, `FlagOut`, and the sort
in `choose_variant`); rules are a sequence, because theirs is not.

*State of Serving.* `row` is one flag as committed, with its rules as the last request
listed them; `spec` the `FlagSpec` made of it last. `Replace` and `Edit` are a PATCH with
and without rules, and the payload announced after it; `Load` is a SELECT, with the rules by
priority and ties in any order; `TornLoad` is a load with writes between its SELECTs: the
columns of before, the variants of after, the rules of before, of after or of a write between.
`TornByDeletion` is one during which the flag is deleted: nothing refers to the row that was
read. (`Init` is a create and what it announces. After a deletion there is nothing to
evaluate but what such loads have read; the row goes on as the flag created anew.)
Requests carry weights of any kind; `SharesAll` is what `_validate_variants` wants of them.
`IsEnabled` and `Variant` are what the SDK's accessors make of a result.

*Properties.* `ResultsAreServable`, `SharesMatchWeights`, `RaisingOnlyAdds`,
`LoadsServeTheRow`: the docstring's "sticky", "monotonic" and "decorrelated", made precise.

## 3. Runs

| Run | Bounds | Shows |
|---|---|---|
| `cache_rebuilds` | 2 flags, an operator who changes one of them, 2 commits, an evaluation and a bootstrap | `NoStaleAnswer`, `HashMatchesDb`, `RulesetIsWhole`, types; `ServedSpec` for the flag that is changed; `QuietRebuildWarms` |
| `cache_shared_flag` | 1 flag, 2 operators, 3 commits, an evaluation | `FencedPublish`, `HashExpires`, `SelfHeals` although operators overtake each other |
| `cache_faults` | 1 flag, 1 operator, 2 commits, an evaluation and a bootstrap, every fault any number of times | `EvaluateSurvivesRedis`, `CompleteHashHeals` |
| `flag_store` | 1 key, 2 operators, 4 changes | `NoLostUpdate`, `AlwaysCoherent`, `ReadInv`, `AuditReplays`, `AuditInOrder`, `RegisterSpec`, types |
| `key_revocation` | 1 key, 2 scopes, 2 processes, 2 requests at a time, TTL 1, delay 1 | all properties of `KeyCache` |
| `sdk_watch` | 3 calls, 2 watches, 2 changes | all properties of `SdkWatch` but `ReconnectRefreshes` |
| `serving` | rollouts of 0 to 3 thirds, 6 buckets, 3 variants, 6 sets of weights (3 valid), 3 lists of rules, 3 contexts | all properties of `Serving` but `LowerPriorityFirst` |
| `kill_switch_two_operators` | 1 flag, 2 operators | violates `NoStaleAnswer` |
| `missed_invalidation` | 1 flag, 1 operator, announcements may fail | violates `SelfHeals` |
| `lookup_across_revocation` | as `key_revocation` | violates `ImmediateHere` |
| `connected_but_behind` | 1 call, 1 watch, 1 change | violates `ReconnectRefreshes` |
| `rule_precedence` | as `serving` | violates `LowerPriorityFirst` |

*Why the bounds are enough to be interesting.* One flag is enough for the races on a flag;
two flags are needed for a hash that is partial or that one flag's rebuild overwrites for
the other. Commits include deletions, so 2 are a creation, or an existing flag (a
possibility of the initial state), and its change; 3 are delete, recreate and change. A lost
update takes a creation and two updates; a stale copy of a predecessor, a creation, a
deletion, a second creation and an update: hence 4 changes. The sets of variants are chosen
so that one of them lacks the variant that a rule may pin. Three calls are a `start`, a
second `start` or a `refresh` that overlaps it, and a `close`, in any order, so that a watch
may lose its handle or be created after `close`; two changes make an event arrive while the
one before is handled. (Both watches, an application's refresh and two changes at once
take ten times the states; safety is proved for any number of each.) A whole of 3 has two partial rollouts, so that one can be
raised to the other, and 6 buckets make a step of the rollout more than one bucket; the sets
of variants are none, two, and three of which one is empty; of two rules, both, one or none
match. One key is enough for a key that revokes itself, or is revoked by the bootstrap key, while
it is looked up by two requests in one process or in two; its scopes are none, admin, or
one that is not enough. What a second key adds, an admin who mints himself another,
`ManageTheorem` covers for any number. TTL 1 and delay 1 make an entry fresh and spent, and
a lookup that ends one tick after the revocation. The bound of `FlagStore`,
`MaxChanges`, is in the guards of `Insert` and `Update`: a request that reaches it stops
there, which the code never does, so its run does not look for deadlocks; nor do those of
`SdkWatch`, where everything may stop once every call has returned and the client is closed.
The other runs do.

*Fairness.* `RulesetCache`: weak fairness of each started request (an event loop resumes a
coroutine whose answer has come; nothing makes a request arrive, and a failing command is
among its steps) and of `Expire` (a TTL that stays set runs out; only a rebuild of an
incomplete hash sets it anew). `KeyCache`: weak fairness of `Tick` and `Resume`: time
passes and answers are taken up. `SdkWatch`: weak fairness of the steps of a watch (an await
of the event loop is over at some time; of a GET because httpx has a default timeout; of a
broken stream by assumption, since `/stream` is opened with `timeout=None`), strong fairness
of `Connect`: a server that is tried for ever lets the client in at last. Nothing is assumed
of the application's calls, of changes, or of `/ruleset`. `FlagStore` and `Serving` have
safety properties only.

*Symmetry* is used in `flag_store` (operators) and `lookup_across_revocation`
(requests, processes), never with a liveness property.

### What the code does against its documentation

The five violating runs; `PROJECT.json` quotes the lines.

1. `kill_switch_two_operators`: HSETs reach Redis in any order, and the field is written
   unconditionally. Two operators who change one flag can leave the older payload cached
   after both were answered, until the TTL ends.
2. `missed_invalidation`: if the command after the HSET that created the hash fails, the
   hash has no expiry, and a later missed announcement stays until some request rebuilds.
3. `lookup_across_revocation`: a lookup that straddles a revocation puts the key back into
   the cache of the process that has just dropped it, for one TTL.
4. `connected_but_behind`: `_watch` refreshes on events only. A client whose bootstrap
   failed, or that was reconnecting while a change was announced, connects and keeps what it
   has, possibly nothing, until the next change of any flag.
5. `rule_precedence`: the payload announced by the request that wrote the rules has them in
   the request's order, not by priority, and `evaluate` takes the first match. A rebuild of
   the cache, with no change to the flag, then changes what users get. `LoadsServeTheRow`
   says whom this can concern: users whom two rules match. (The dashboard numbers
   priorities in the order it sends, so only other clients of the API meet it.)

Smaller ones, which no run is spent on: a rebuild that lands between HGET and HEXISTS makes
an existing flag "not found" for one evaluation (the exception in `RulesetIsWhole`); versions start at 1 again after a delete
and create, so the version check cannot tell a copy of the predecessor (the exception in
`NoLostUpdate`); `start()` called twice leaves a watch that `close()` does not cancel; a POST
that waits for the unique key has its audit id already, so a creation may be listed before
the deletion that made room for it (the exception in `AuditInOrder`); a revoked admin key
can mint itself another while it is still let in.

Related, and covered by assumptions below: if the epoch cannot be read, or Redis restarts
empty during a rebuild, the fence does not hold.

## 4. Proofs

All proofs are for arbitrary sets of keys, operators, readers and processes, and arbitrary
bounds. Assumptions on constants are the named ASSUMEs of the modules.

**RulesetCacheProofs.**
`TypeCorrect`: `Spec => []TypeOK`.
`FenceTheorem`: `FencedPublish`, assuming `FenceHolds`: the epoch reads and the
announcements do not fail and Redis does not lose the counter. The inductive invariant is
`FenceInv`: a rebuild's fence is never ahead of the counter; one at EXEC with its WATCH
untripped has seen the counter stand still; and if its fence equals the counter its
snapshot misses only commits whose writer has yet to increment. It is needed because
`FencedPublish` speaks of the instant of the EXEC, while what makes it true was decided at
GET, at the SELECT and at the WATCH.
`HashTheorem` and `KillSwitchTheorem`: `HashMatchesDb` and `NoStaleAnswer`, assuming also
that no two requests that change the same flag overlap, from commit to return (`Apart(k)`, in
every state and for every flag; run `kill_switch_two_operators` shows why). Who makes the
changes does not matter: `OwnersTheorem` says that one operator for each flag is a way to keep
them apart. The invariant adds `KnowsNewest` (the request under way announces the newest row)
and `PromiseKept` (nothing in Postgres, in the hash, in a rebuild that may still publish,
or in a reader's hands is older than what was promised when the reader came). It is an
invariant of each flag by itself, with `Apart` of that flag only (`FlagTheorem`): overlapping
changes of other flags move the epoch and make rebuilds fail or publish, and none of that
makes this flag stale.

**RulesetAnswerProofs.** `ExpiryTheorem` (`HashExpires`, if announcements do not fail in the
middle): a hash without an expiry is one whose writer is between HSET and EXPIRE.
`SurvivalTheorem` (`EvaluateSurvivesRedis`), without any assumption on faults or on how many
operators change a flag: a rebuild's rows are read after its request arrived, so whatever
Redis does the answer taken from them is no older than that. `WholeTheorem`
(`RulesetIsWhole`; flag by flag, `FlagIsThereTheorem`), assuming `FenceHolds` and `Apart`: the hash misses only a flag whose
creator is still to write it, as long as it carries the marker; so does what a lookup found
in such a hash, or a rebuild in Postgres, until the answer is sent (`WholeInv`).

**RulesetServesProofs.** `CacheRefinesServedFlag`: `HistorySpec => ServedSpec`, assuming
`FenceHolds` and `Apart(Flag)`. `LogInv` ties every row that anybody holds (the hash, a reader,
a writer, what is promised) to the log: it is the version with its number, and if the flag it
belongs to is not there any more, the log has a moment without it. This needs no assumption.
With the invariants of the two modules before, an answer is one of the versions the register may
give (`AnswersAreVersions`): if a flag was found, because it is no older than promised; if not,
because a flag that is missing has been away since. Each action of `RulesetCache` is then
shown to be a step of `ServedFlag` or a stutter.

**FlagStoreProofs.** `StoreTypes`, `CoherenceTheorem`, `ReadTheorem`, `LockTheorem`,
`AuditTheorem`, `AuditOrderTheorem` and `StoreRefinesRegister`. The argument is `ReadInv`: what a session has loaded so far agrees
with the row, part by part, if the row still has the id and version that the first SELECT
saw. So the guard on the version, which compares two numbers, guarantees that validation
saw the whole flag that the commit replaces (`PatchExact`); the update is then the
register's, and it leaves a coherent flag. For the audit log, `Replays` says where in the log
the row's life began, so that its version counts the entries since; the order of the ids
follows because an entry that was committed after the flush has moved the row's version, and
the guard fails.

**KeyCacheProofs.** `KeyTypes`, `RevocationBound`, `VerifiedTheorem`, `QuietTheorem`,
`RevokedForGood`, `ManageTheorem`. `EntryInv` says that an entry's remaining ticks and the ticks since the
revocation never exceed TTL + Delay together; `LookupInv`, that a lookup that has seen the
key live is at least as old as the revocation; so what `Resume` inserts satisfies
`EntryInv`, and `Tick` moves both sides alike. `QuietInv` adds that a process that ended a
revocation with no lookup under way never gets one that can fill the cache. `ManageTheorem`
needs of a request in its handler that its key was verified, holds what the route required,
and arrived before the horizon, whatever has happened to the key since.

**SdkWatchProofs.** `SdkTypes`, `CopyTheorem` (`NoStepBack`), `CloseTheorem`
(`ClosedIsQuiet`) and `CopyFollowsServer` (`FollowsServer`), for any number of calls and watches. For the copy, `InOrder` says that
while no two GETs have overlapped the one under way, if any, was asked when everything known
had been announced, so that its answer cannot be older than the copy. `ClosedIsQuiet` is
inductive by itself: a task connects only after it has looked at `_stopped`, and whoever
gets the handle after `close` has yet to look. For the refinement `Awaited` says that a GET
under way belongs to a coroutine that is at the `await` of its `refresh`, so that each has one
at a time whatever `start` and `close` have done to the tasks, and that an answer on its way
lies between what was announced and what there is.

**ServingProofs.** `TypeTheorem`; `ServableTheorem`, for which nothing is needed of a flag
but its type, so that it covers flags mixed from two versions; `RaisingTheorem`
(`RaisingOnlyAdds`), for any number of buckets: the threshold grows with the percentage,
whether some rule matches does not depend on their order, and the choice of a variant
depends on the weights alone; `LoadTheorem` (`LoadsServeTheRow`): a load is a permutation of
the row's rules, and if one rule matches at most the one that decides is the same. That a band has a variant needs that a non-empty set of keys
has a least and a greatest element, from the well-foundedness of the naturals.

**ShareProofs.** `ShareTheorem` (`SharesMatchWeights`), for any number of buckets, variants and
rules and any weights the schemas accept. `choose_variant` adds weights up, so it needs that a
fold over a set unfolds one element at a time and does not depend on the order, which is
induction over the size of the set. The library's induction theorems take the statement as an
operator, which the provers cannot instantiate; `SetInduction` takes the set of numbers for which
it holds instead, and follows from the least element of the rest. Then: the band of a variant
lies between two sums, so a bucket lies in exactly one band (`BandIsBetween`) and a band has as
many buckets as the weight says (`BandCounts`); the users a variant serves are the pairs of an
included rollout bucket and a bucket of its band, and the size of a product is the product of
the sizes. The invariant is `WeightsAreWhole`: the weights of what is evaluated are those of one
committed row, or none, also when a load was torn.

*Only model-checked:* liveness (`SelfHeals`, `CompleteHashHeals`, `QuietRebuildWarms`,
`RevocationSpreads`, `EventsAreHeeded`, `WatchResumes`, `LeakedEnds`), which needs fairness
and ENABLED, out of the prover's reach. Every invariant and every action property that a
passing run checks is stated by a theorem.

## 5. Not modelled, and the plan

*Validation* is modelled as far as it relates the parts of a body to each other and to what
is stored; lengths, patterns, ranges and duplicates refuse a request and touch nothing.
*Insights* only read; of them the order of the audit ids is modelled. The *HTTP app* wires
routes together, which are modelled with their components; *configuration, logging and
metrics* hold no state that behaviour depends on (`auth_enabled`, `auth_cache_seconds` and
the TTL of the hash are parameters or said above). The *dashboard* is a browser client of
the API in TypeScript: `load()` of the flag page may be called again while an earlier load
is under way, so that the older answer is shown, but nothing else depends on what a tab
shows. *Migrations* run once before the service starts; *scripts and deployment* hold no
logic of it. A model of Postgres itself (isolation, sequences) is limited to: a SELECT sees
what is committed, a guarded write is atomic, a unique key is unique, a sequence grows.

Left for later, in this order:

1. A composition of `FlagStore`, `RulesetCache` and `SdkWatch`: the kill switch from the
   operator's click to the SDK. Each boundary is a theorem of one side today.
2. `Dashboard`: `load` and `patch` of the flag page with responses that overtake each other.
