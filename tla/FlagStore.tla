----------------------------- MODULE FlagStore ------------------------------
(***************************************************************************)
(* The flags in Postgres: ripcord/services.py and the routes of            *)
(* api/flags.py that use it.                                               *)
(*                                                                         *)
(* A request reads its flag with three SELECTs (flags, targeting_rules,    *)
(* variants), each of which sees what is committed when it runs, decides,  *)
(* and writes everything in one transaction. Its first statement is the    *)
(* INSERT of the audit entry, which takes the entry's id from a sequence   *)
(* (a flush orders unrelated tables by class name, and AuditLog precedes   *)
(* Flag). The UPDATE or DELETE that follows carries WHERE version = <the   *)
(* version read>, and its row lock orders the transactions: that statement *)
(* and the commit are one step. After its commit a create or an update     *)
(* reads the flag again.                                                   *)
(*                                                                         *)
(* Of a flag's contents the model keeps the parts that constrain each      *)
(* other: the variants it defines, the variants its rules pin, and its     *)
(* off_variant. A patch that changes only other columns is one that keeps  *)
(* all three: it still takes a version.                                    *)
(***************************************************************************)
EXTENDS Integers, Sequences

CONSTANTS
    Keys,          \* flag keys
    Operators,     \* clients of the flag routes, one request at a time each
    Variants,      \* names of variants
    VariantSets,   \* the variant sets that pass _validate_variants by themselves
    PinSets,       \* the sets of variants that rules may pin, Blank included
    Offs,          \* the variants that off_variant may name, or Blank
    Blank,         \* the empty string where a variant may be named
    NoVariant,     \* off_variant is null
    Keep,          \* a field that a PATCH does not carry
    MaxChanges     \* bound on the changes of a key, its last deletion aside

ASSUME VariantsAssumption ==
    /\ VariantSets \subseteq SUBSET Variants /\ {} \in VariantSets
    /\ PinSets \subseteq SUBSET (Variants \cup {Blank}) /\ {} \in PinSets
    /\ Offs \subseteq Variants \cup {Blank}
    /\ Blank \notin Variants /\ NoVariant \notin Variants \cup {Blank}
    /\ Keep \notin VariantSets \cup PinSets \cup Variants \cup {NoVariant, Blank}
ASSUME KeysAssumption == Keys # {}
ASSUME BoundAssumption == MaxChanges \in Nat

VARIABLES
    rows,          \* the committed flag of each key, with its rules and variants
    nextId,        \* the sequence behind flags.id
    audit,         \* audit_log: the actions recorded for each key
    copy,          \* each flag as each operator last received it
    pc,            \* the next step of each operator's request
    kind,          \* its method
    key,           \* the flag it is about
    loaded,        \* the Flag object in its session
    mark           \* history: how many entries of its flag's audit log had been
                   \* committed when its own took its id

vars == <<rows, nextId, audit, copy, pc, kind, key, loaded, mark>>

Flag(id, ver, v, p, o) ==
    [id |-> id, ver |-> ver, variants |-> v, pins |-> p, off |-> o]

NoFlag == Flag(0, 0, {}, {}, NoVariant)

FlagType == [id : Nat, ver : Nat, variants : VariantSets, pins : PinSets,
             off : Offs \cup {NoVariant}]

Steps   == {"idle", "rules", "variants", "decide", "flush", "insert", "reread"}
Methods == {"GET", "POST", "PATCH", "DELETE"}

\* The fields of a PATCH body: each is given or not.
Patch == [variants : VariantSets \cup {Keep}, pins : PinSets \cup {Keep},
          off : Offs \cup {NoVariant, Keep}]

TypeOK ==
    /\ rows \in [Keys -> FlagType]
    /\ nextId \in Nat
    /\ audit \in [Keys -> Seq({"created", "updated", "deleted"})]
    /\ copy \in [Operators -> [Keys -> FlagType]]
    /\ pc \in [Operators -> Steps]
    /\ kind \in [Operators -> Methods]
    /\ key \in [Operators -> Keys]
    /\ loaded \in [Operators -> FlagType]
    /\ mark \in [Operators -> Nat]

AnyKey == CHOOSE k \in Keys : TRUE

Init ==
    /\ rows = [k \in Keys |-> NoFlag]
    /\ nextId = 1
    /\ audit = [k \in Keys |-> <<>>]
    /\ copy = [o \in Operators |-> [k \in Keys |-> NoFlag]]
    /\ pc = [o \in Operators |-> "idle"]
    /\ kind = [o \in Operators |-> "GET"]
    /\ key = [o \in Operators |-> AnyKey]
    /\ loaded = [o \in Operators |-> NoFlag]
    /\ mark = [o \in Operators |-> 0]

-----------------------------------------------------------------------------
(* Validation.                                                             *)

IsCoherent(v, p, o) == p \subseteq v /\ o \in v \cup {NoVariant}

\* The truth tests of update_flag take "" for no variant, as the engine does; the
\* schemas compare with None and refuse it.
IsCoherentOrBlank(v, p, o) ==
    IsCoherent(v, p \ {Blank}, IF o = Blank THEN NoVariant ELSE o)

Given(field, stored) == IF field = Keep THEN stored ELSE field

\* FlagUpdate._check_variants: only a body that carries variants is checked,
\* and against itself: rules it does not carry count as none.
SchemaAccepts(p) ==
    p.variants # Keep =>
        IsCoherent(p.variants, Given(p.pins, {}), Given(p.off, NoVariant))

\* Mutant: only the parts that the body carries are checked.
ServiceAcceptsCarried(f, p) ==
    IsCoherentOrBlank(Given(p.variants, f.variants), Given(p.pins, {}),
                      Given(p.off, NoVariant))

\* update_flag: the three parts as this PATCH would leave them.
ServiceAccepts(f, p) ==
    IsCoherentOrBlank(Given(p.variants, f.variants), Given(p.pins, f.pins),
                      Given(p.off, f.off))

\* Mutant: an absent off_variant is not told from a given one.
PatchedNoKeep(row, f, p) ==
    Flag(row.id, f.ver + 1, Given(p.variants, row.variants),
         Given(p.pins, row.pins), p.off)

\* What the flush writes. _apply_variants removes the variants that were loaded
\* and are not wanted, and adds or updates the wanted ones.
Patched(row, f, p) ==
    Flag(row.id, f.ver + 1,
         IF p.variants = Keep THEN row.variants
         ELSE (row.variants \ (f.variants \ p.variants)) \cup p.variants,
         Given(p.pins, row.pins), Given(p.off, row.off))

-----------------------------------------------------------------------------
(* Requests.                                                               *)

At(o, step, next) ==
    /\ pc[o] = step
    /\ pc' = [pc EXCEPT ![o] = next]

\* The request and its session end.
Answer(o, step) ==
    /\ At(o, step, "idle")
    /\ kind' = [kind EXCEPT ![o] = "GET"]
    /\ key' = [key EXCEPT ![o] = AnyKey]
    /\ loaded' = [loaded EXCEPT ![o] = NoFlag]
    /\ mark' = [mark EXCEPT ![o] = 0]

\* An answer that reports a failure, and changes nothing.
Refuse(o, step) == Answer(o, step) /\ UNCHANGED <<rows, nextId, audit, copy>>

\* The SELECT of the flags row; with none the answer is 404. An operator patches
\* a flag it has a copy of.
Select(o, k, method) ==
    /\ method \in {"GET", "PATCH", "DELETE"}
    /\ method = "PATCH" => copy[o][k].id # 0
    /\ rows[k].id # 0
    /\ At(o, "idle", "rules")
    /\ kind' = [kind EXCEPT ![o] = method]
    /\ key' = [key EXCEPT ![o] = k]
    /\ loaded' = [loaded EXCEPT ![o] =
                     Flag(rows[k].id, rows[k].ver, {}, {}, rows[k].off)]
    /\ UNCHANGED <<rows, nextId, audit, copy, mark>>

\* The rows that refer to the loaded flag's id, if it is still there.
Stored(o) == rows[key[o]].id = loaded[o].id

LoadRules(o) ==
    /\ At(o, "rules", "variants")
    /\ loaded' = [loaded EXCEPT ![o].pins = IF Stored(o) THEN rows[key[o]].pins ELSE {}]
    /\ UNCHANGED <<rows, nextId, audit, copy, kind, key, mark>>

LoadVariants(o) ==
    /\ At(o, "variants", "decide")
    /\ loaded' = [loaded EXCEPT ![o].variants =
                     IF Stored(o) THEN rows[key[o]].variants ELSE {}]
    /\ UNCHANGED <<rows, nextId, audit, copy, kind, key, mark>>

Get(o) ==
    /\ kind[o] = "GET"
    /\ Answer(o, "decide")
    /\ copy' = [copy EXCEPT ![o][key[o]] = loaded[o]]
    /\ UNCHANGED <<rows, nextId, audit>>

\* The INSERT of an audit entry: its id is beyond those of all entries so far.
TakeId(o, k) == mark' = [mark EXCEPT ![o] = Len(audit[k])]

Post(o, k) ==
    /\ At(o, "idle", "insert")
    /\ TakeId(o, k)
    /\ kind' = [kind EXCEPT ![o] = "POST"]
    /\ key' = [key EXCEPT ![o] = k]
    /\ UNCHANGED <<rows, nextId, audit, copy, loaded>>

Record(k, action) == audit' = [audit EXCEPT ![k] = Append(@, action)]

\* FlagCreate has checked the whole body. The unique key decides the race: the
\* loser's transaction, audit entry included, is rolled back for a 409.
Insert(o, v, p, f) ==
    LET k == key[o] IN
    /\ rows[k].id = 0
    /\ Len(audit[k]) < MaxChanges
    /\ IsCoherent(v, p, f)
    /\ At(o, "insert", "reread")
    /\ rows' = [rows EXCEPT ![k] = Flag(nextId, 1, v, p, f)]
    /\ loaded' = [loaded EXCEPT ![o] = rows'[k]]
    /\ nextId' = nextId + 1
    /\ Record(k, "created")
    /\ UNCHANGED <<copy, kind, key, mark>>

DuplicateKey(o) == rows[key[o]].id # 0 /\ Refuse(o, "insert")

\* Mutant: the expected version of the body is ignored.
AnyVersion(o) == loaded[o].ver > 0

\* The fast path of update_flag, 409: the operator's copy is another version.
Current(o) == loaded[o].ver = copy[o][key[o]].ver

VersionMismatch(o) == kind[o] = "PATCH" /\ ~Current(o) /\ Refuse(o, "decide")

\* 422: the flag would not be coherent.
Invalid(o, p) ==
    /\ kind[o] = "PATCH" /\ Current(o)
    /\ SchemaAccepts(p) /\ ~ServiceAccepts(loaded[o], p)
    /\ Refuse(o, "decide")

\* Nothing refuses the request before its transaction. What its body changes is
\* chosen in Update: it depends on nothing that another request can change.
Flush(o) ==
    /\ kind[o] \in {"PATCH", "DELETE"}
    /\ kind[o] = "PATCH" => Current(o)
    /\ At(o, "decide", "flush")
    /\ TakeId(o, key[o])
    /\ UNCHANGED <<rows, nextId, audit, copy, kind, key, loaded>>

\* Mutant: no version_id_col, so WHERE id = ... only.
GuardById(o) == Stored(o)

\* WHERE id = ... AND version = <the version loaded>.
Guard(o) == Stored(o) /\ rows[key[o]].ver = loaded[o].ver

Update(o, p) ==
    LET k == key[o] IN
    /\ kind[o] = "PATCH"
    /\ SchemaAccepts(p) /\ ServiceAccepts(loaded[o], p)
    /\ Guard(o)
    /\ Len(audit[k]) < MaxChanges
    /\ At(o, "flush", "reread")
    /\ rows' = [rows EXCEPT ![k] = Patched(@, loaded[o], p)]
    /\ loaded' = [loaded EXCEPT ![o] = rows'[k]]
    /\ Record(k, "updated")
    /\ UNCHANGED <<nextId, copy, kind, key, mark>>

\* Mutant: the audit entry is committed before the flag.
StaleUpdateRecorded(o) ==
    /\ kind[o] = "PATCH" /\ ~Guard(o)
    /\ Answer(o, "flush")
    /\ Record(key[o], "updated")
    /\ UNCHANGED <<rows, nextId, copy>>

\* The guard matches no row: StaleDataError, 409. The audit entry, which is in
\* the same transaction, is rolled back.
StaleUpdate(o) == kind[o] = "PATCH" /\ ~Guard(o) /\ Refuse(o, "flush")

Delete(o) ==
    LET k == key[o] IN
    /\ kind[o] = "DELETE"
    /\ Guard(o)
    /\ Answer(o, "flush")
    /\ rows' = [rows EXCEPT ![k] = NoFlag]
    /\ Record(k, "deleted")
    /\ UNCHANGED <<nextId, copy>>

\* The handler of StaleDataError reads flag.version, which the rollback has
\* expired; loading it again outside a query raises, and the answer is a 500.
StaleDelete(o) == kind[o] = "DELETE" /\ ~Guard(o) /\ Refuse(o, "flush")

\* get_flag after the commit. If the key holds the same row, whatever its version
\* by now, the session answers with its own object; if it holds none the route
\* fails on None, though the change was committed.
Reread(o) ==
    LET k == key[o] IN
    /\ rows[k].id = 0 \/ Stored(o)
    /\ Answer(o, "reread")
    /\ copy' = IF Stored(o) THEN [copy EXCEPT ![o][k] = loaded[o]] ELSE copy
    /\ UNCHANGED <<rows, nextId, audit>>

\* The key was deleted and created anew: the session does not know this row, and
\* reads it as a GET does.
RereadNew(o) ==
    LET row == rows[key[o]] IN
    /\ row.id # 0 /\ ~Stored(o)
    /\ At(o, "reread", "rules")
    /\ kind' = [kind EXCEPT ![o] = "GET"]
    /\ loaded' = [loaded EXCEPT ![o] = Flag(row.id, row.ver, {}, {}, row.off)]
    /\ UNCHANGED <<rows, nextId, audit, copy, key, mark>>

Next ==
    \E o \in Operators :
        \/ \E k \in Keys, m \in Methods : Select(o, k, m)
        \/ LoadRules(o) \/ LoadVariants(o) \/ Get(o)
        \/ \E k \in Keys : Post(o, k)
        \/ \E v \in VariantSets, p \in PinSets, f \in Offs \cup {NoVariant} :
              Insert(o, v, p, f)
        \/ DuplicateKey(o) \/ VersionMismatch(o)
        \/ \E p \in Patch : Invalid(o, p) \/ Update(o, p)
        \/ Flush(o) \/ StaleUpdate(o) \/ Delete(o) \/ StaleDelete(o)
        \/ Reread(o) \/ RereadNew(o)

Spec == Init /\ [][Next]_vars

-----------------------------------------------------------------------------
(* Properties.                                                             *)

\* A flag never pins or names a variant that it does not define, although each
\* PATCH is checked against rules and variants read by separate statements, two
\* PATCHes may each be valid on their own, and "" passes some of the checks
\* (update_flag's comment: "against the state this PATCH would leave behind").
AlwaysCoherent ==
    \A k \in Keys : IsCoherentOrBlank(rows[k].variants, rows[k].pins, rows[k].off)

\* An accepted PATCH replaces exactly the flag the operator was looking at: all
\* of it, even if the copy was read while another change was being committed.
NoLostUpdate ==
    [][\A o \in Operators : pc[o] = "flush" /\ pc'[o] = "reread" =>
         LET copied == copy[o][key[o]] IN
         copied.id = rows[key[o]].id => copied = rows[key[o]]]_vars

\* A flag somebody holds, as a copy or in a session, was that of its version: at
\* the same identity and version it is the same flag, and it is never ahead.
Dated(f, row) ==
    f.id = row.id => f.ver <= row.ver /\ (f.ver = row.ver => f = row)

\* What the three SELECTs have found so far belongs together if the row is still
\* at the version that the first of them saw.
LoadedInv ==
    /\ nextId # 0
    /\ \A k \in Keys : rows[k].id < nextId /\ (rows[k].id = 0 => rows[k] = NoFlag)
    /\ \A o \in Operators, k \in Keys :
          copy[o][k].id # 0 => copy[o][k].id < nextId /\ Dated(copy[o][k], rows[k])
    /\ \A o \in Operators :
          LET f   == loaded[o]
              row == rows[key[o]]
          IN  pc[o] \in {"rules", "variants", "decide", "flush", "reread"} =>
                /\ f.id # 0 /\ f.id < nextId
                /\ f.id = row.id => f.ver <= row.ver
                /\ f.id = row.id /\ f.ver = row.ver =>
                      /\ f.off = row.off
                      /\ pc[o] # "rules" => f.pins = row.pins
                      /\ pc[o] \in {"decide", "flush", "reread"} => f = row

\* What was decided before the transaction still holds in it, and no change of
\* the flag was committed since the audit entry took its id, if the row is still
\* at that version.
FlushInv ==
    \A o \in Operators : pc[o] = "flush" =>
        /\ kind[o] = "PATCH" => Current(o)
        /\ Guard(o) => mark[o] = Len(audit[key[o]])

\* Why a guarded commit acts on exactly what was loaded: the inductive invariant
\* behind the theorems.
ReadInv == LoadedInv /\ FlushInv

\* A log of a key's changes tells whether the flag exists and at which version.
Replays(log, row) ==
    LET made == {i \in DOMAIN log : log[i] = "created"} IN
    /\ row.id # 0 <=> log # <<>> /\ log[Len(log)] # "deleted"
    /\ row.id # 0 => \E i \in made : /\ \A j \in i + 1 .. Len(log) : log[j] = "updated"
                                     /\ row.ver = Len(log) - i + 1
    /\ \A i \in made : i = 1 \/ log[i - 1] = "deleted"

\* The audit log tells what the table holds, and it alternates creation and
\* deletion: no failed request leaves an entry, and no change lacks one.
AuditReplays == \A k \in Keys : Replays(audit[k], rows[k])

\* "Newest first" (list_audit, which orders by id): an update or a deletion takes
\* its id after every earlier change of its flag was committed, though ids are
\* taken before the row lock is. Only a creation may come before the deletion
\* that made room for it.
AuditInOrder ==
    [][\A o \in Operators :
           pc[o] = "flush" /\ pc'[o] # "flush" /\ audit'[key[o]] # audit[key[o]] =>
               mark[o] = Len(audit[key[o]])]_vars

\* The store is a register of coherent, versioned flags that change one at a
\* time: the abstract specification of FlagRegister.
Register == INSTANCE FlagRegister WITH reg <- rows
RegisterSpec == Register!Spec
=============================================================================
