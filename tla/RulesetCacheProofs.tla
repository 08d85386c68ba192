------------------------- MODULE RulesetCacheProofs -------------------------
(***************************************************************************)
(* Proofs about RulesetCache, for any number of flags, writers and readers *)
(* and any number of commits.                                              *)
(***************************************************************************)
EXTENDS RulesetCache, TLAPS

USE KeysAssumption, ReadersAssumption, OwnsAssumption, FaultsAssumption,
    BoundAssumption

-----------------------------------------------------------------------------
(* Type correctness.                                                       *)

LEMMA AbsentIsRow == Absent \in Row
BY DEF Absent, Row

LEMMA RowUpdate ==
    ASSUME NEW row \in Row
    PROVE  /\ [row EXCEPT !.n = @ + 1] \in Row
           /\ [row EXCEPT !.n = @ + 1, !.live = FALSE] \in Row
<1>1. row.n + 1 \in Nat
  BY DEF Row
<1> QED BY <1>1 DEF Row

LEMMA PayloadIsRow == ASSUME NEW row \in Row PROVE Payload(row) \in Row
BY AbsentIsRow DEF Payload

LEMMA NoChangeType == NoChange \in [key : Keys, row : Row]
BY AbsentIsRow DEF NoChange

\* The tables of Init have the types of TypeOK.
LEMMA TypeInit == Init => TypeOK
<1> SUFFICES ASSUME Init PROVE TypeOK
  OBVIOUS
<1>1. db \in [Keys -> Row] /\ acked \in [Keys -> Row]
  <2>1. Absent \in Row /\ [n |-> 1, born |-> 1, live |-> TRUE] \in Row
    BY DEF Absent, Row
  <2> QED BY <2>1 DEF Init
<1>2. Nothing \in [Keys -> Row]
  BY AbsentIsRow DEF Nothing
<1>3. change \in [Writers -> [key : Keys, row : Row]]
  BY NoChangeType DEF Init
<1> QED
  BY <1>1, <1>2, <1>3
  DEF Init, TypeOK, WriterSteps, ReaderSteps, NoFence

\* No handler, and nothing Redis does, leaves the types.
LEMMA TypeStep == TypeOK /\ [Next]_vars => TypeOK'
<1> SUFFICES ASSUME TypeOK, [Next]_vars PROVE TypeOK'
  OBVIOUS
<1> USE DEF TypeOK, redis, writers, readers
<1>a. ASSUME NEW w \in Writers, NEW k \in Keys, NEW row \in Row,
             NEW next \in {"reread", "incr"}, Commit(w, k, row, next)
      PROVE  TypeOK'
  BY <1>a DEF Commit, WriterAt, WriterSteps
<1>b. ASSUME NEW r \in Readers, NEW keys \in SUBSET Keys,
             NEW seen \in [Keys -> Row], NEW next \in ReaderSteps,
             Arrive(r, keys, seen, next)
      PROVE  TypeOK'
  BY <1>b, AbsentIsRow DEF Arrive, ReaderAt
<1>c. Nothing \in [Keys -> Row]
  BY AbsentIsRow DEF Nothing
<1>1. ASSUME NEW w \in Writers, NEW k \in Keys,
             Create(w, k) \/ Update(w, k) \/ Delete(w, k)
      PROVE  TypeOK'
  <2>1. CASE Create(w, k)
    <3>1. [n |-> db[k].n + 1, born |-> db[k].n + 1, live |-> TRUE] \in Row
      BY DEF Row
    <3> QED BY <2>1, <3>1, <1>a DEF Create
  <2>2. CASE Update(w, k)
    <3>1. [db[k] EXCEPT !.n = @ + 1] \in Row
      BY RowUpdate
    <3> QED BY <2>2, <3>1, <1>a DEF Update
  <2>3. CASE Delete(w, k)
    <3>1. [db[k] EXCEPT !.n = @ + 1, !.live = FALSE] \in Row
      BY RowUpdate
    <3> QED BY <2>3, <3>1, <1>a DEF Delete
  <2> QED BY <1>1, <2>1, <2>2, <2>3
<1>2. ASSUME NEW w \in Writers, WriterStep(w) PROVE TypeOK'
  <2>1. CASE Reread(w)
    BY <2>1 DEF Reread, WriterAt, WriterSteps
  <2>2. CASE RereadGone(w)
    BY <2>2, NoChangeType DEF RereadGone, WriterAt, WriterSteps
  <2>3. CASE IncrEpoch(w)
    BY <2>3 DEF IncrEpoch, Touch, WriterAt, WriterSteps
  <2>4. CASE WriteField(w)
    <3>1. Payload(change[w].row) \in Row
      BY PayloadIsRow
    <3>2. ttl' \in BOOLEAN
      BY <2>4 DEF WriteField, Exists
    <3> QED BY <2>4, <3>1, <3>2 DEF WriteField, WriterAt, WriterSteps
  <2>5. CASE CheckTtl(w)
    BY <2>5 DEF CheckTtl, WriterAt, WriterSteps
  <2>6. CASE SetTtl(w)
    BY <2>6 DEF SetTtl, WriterAt, WriterSteps, Exists
  <2>7. CASE Publish(w) \/ NotifyFails(w)
    <3>1. Return(w)
      BY <2>7 DEF Publish, NotifyFails
    <3>2. change[w].key \in Keys /\ change[w].row \in Row
      OBVIOUS
    <3>3. acked' \in [Keys -> Row]
      BY <3>1, <3>2 DEF Return
    <3> QED BY <3>1, <3>3, NoChangeType DEF Return, WriterSteps
  <2> QED BY <1>2, <2>1, <2>2, <2>3, <2>4, <2>5, <2>6, <2>7 DEF WriterStep
<1>3. ASSUME NEW r \in Evaluators, NEW k \in Keys,
             Evaluate(r, k) \/ CacheReadFails(r, {k})
      PROVE  TypeOK'
  BY <1>3, <1>b, <1>c
  DEF Evaluate, CacheReadFails, Degrade, Readers, ReaderSteps
<1>4. ASSUME NEW r \in Bootstraps, Ruleset(r) \/ CacheReadFails(r, Keys)
      PROVE  TypeOK'
  BY <1>4, <1>b, <1>c
  DEF Ruleset, CacheReadFails, Degrade, Readers, ReaderSteps
<1>5. ASSUME NEW r \in Readers, ReaderStep(r) PROVE TypeOK'
  <2>1. CASE HExists(r)
    BY <2>1 DEF HExists, ReaderAt, ReaderSteps
  <2>2. CASE ReadEpoch(r)
    BY <2>2 DEF ReadEpoch, ReaderAt, ReaderSteps
  <2>3. CASE Build(r)
    BY <2>3 DEF Build, ReaderAt, ReaderSteps
  <2>4. CASE Watch(r)
    BY <2>4 DEF Watch, ReaderAt, ReaderSteps
  <2>5. CASE Exec(r)
    <3>1. [k \in Keys |-> Payload(view[r][k])] \in [Keys -> Row]
      BY PayloadIsRow
    <3> QED BY <2>5, <3>1 DEF Exec, Outcomes, Degrade, ReaderAt, ReaderSteps, NoFence
  <2>6. CASE Respond(r)
    BY <2>6, <1>c DEF Respond, ReaderSteps, NoFence
  <2>7. CASE EpochReadFails(r) \/ PublishFails(r)
    BY <2>7 DEF EpochReadFails, PublishFails, Degrade, ReaderAt, ReaderSteps
  <2> QED BY <1>5, <2>1, <2>2, <2>3, <2>4, <2>5, <2>6, <2>7 DEF ReaderStep
<1>6. CASE Expire
  BY <1>6, <1>c DEF Expire
<1>7. CASE Restart
  BY <1>7, <1>c DEF Restart, Touch
<1>8. CASE UNCHANGED vars
  BY <1>8 DEF vars
<1> QED
  BY <1>1, <1>2, <1>3, <1>4, <1>5, <1>6, <1>7, <1>8 DEF Next

\* The types of the model hold always, whatever fails.
THEOREM TypeCorrect == Spec => []TypeOK
BY TypeInit, TypeStep, PTL DEF Spec

-----------------------------------------------------------------------------
(* The epoch fence.                                                        *)

\* The failures under which a change may reach no fence, or a rebuild be held
\* to none: the announcement fails, the epoch is unread, the counter is lost.
FenceHolds == Faults \cap {"notify", "epoch_read", "restart"} = {}

LEMMA FenceInit == Init => FenceInv
BY DEF Init, FenceInv

\* A commit made by any writer is covered by that writer until it bumps.
LEMMA FenceCommit ==
    ASSUME TypeOK, FenceInv, NEW w \in Writers, NEW k \in Keys,
           NEW row \in Row, NEW next \in {"reread", "incr"},
           next = "reread" => row.live, Commit(w, k, row, next)
    PROVE  FenceInv'
<1> USE DEF redis, readers, Commit, WriterAt
<1>1. /\ db' = [db EXCEPT ![k] = row]
      /\ change' = [change EXCEPT ![w] = [key |-> k, row |-> row]]
      /\ wpc' = [wpc EXCEPT ![w] = next]
      /\ wpc[w] = "idle"
      /\ UNCHANGED <<rpc, fence, epoch, tripped, view>>
  OBVIOUS
<1>2. ASSUME NEW r \in Readers, NEW j \in Keys, Covered(r, j)
      PROVE  Covered(r, j)'
  <2>1. CASE j = k
    BY <1>1, <2>1 DEF Covered, BeforeBump, TypeOK
  <2>2. CASE j # k
    <3>1. db'[j] = db[j]
      BY <1>1, <2>2 DEF TypeOK
    <3>2. CASE view[r][j] = db[j]
      BY <1>1, <3>1, <3>2 DEF Covered
    <3>3. ASSUME NEW v \in Writers, BeforeBump(v), change[v].key = j,
                 change[v].row = db[j]
          PROVE  Covered(r, j)'
      <4>1. v # w
        BY <1>1, <3>3 DEF BeforeBump
      <4>2. BeforeBump(v)' /\ change'[v] = change[v]
        BY <1>1, <3>3, <4>1 DEF BeforeBump, TypeOK
      <4> QED BY <3>1, <3>3, <4>2 DEF Covered
    <3> QED BY <1>2, <3>2, <3>3 DEF Covered
  <2> QED BY <2>1, <2>2
<1>3. ASSUME NEW v \in Writers, wpc'[v] = "reread" PROVE change'[v].row.live
  BY <1>1, <1>3 DEF FenceInv, TypeOK
<1> QED BY <1>1, <1>2, <1>3 DEF FenceInv

\* A step that leaves database, counter and writers alone, and lets the readers
\* be, keeps every cover.
LEMMA CoverFrame ==
    ASSUME NEW r \in Readers, NEW k \in Keys, Covered(r, k),
           view'[r] = view[r], UNCHANGED <<db, wpc, change>>
    PROVE  Covered(r, k)'
BY DEF Covered, BeforeBump

LEMMA FenceWriter ==
    ASSUME TypeOK, FenceInv, FenceHolds, NEW w \in Writers, WriterStep(w)
    PROVE  FenceInv'
<1> USE DEF redis, readers, WriterAt
<1>1. CASE Reread(w)
  <2>1. /\ wpc' = [wpc EXCEPT ![w] = "incr"] /\ wpc[w] = "reread"
        /\ UNCHANGED <<db, rpc, fence, epoch, tripped, view>>
        /\ change' = change \/ change' = [change EXCEPT ![w].row = db[change[w].key]]
    BY <1>1 DEF Reread
  <2>2. ASSUME NEW v \in Writers, BeforeBump(v),
               change[v].row = db[change[v].key]
        PROVE  BeforeBump(v)' /\ change'[v] = change[v]
    BY <2>1, <2>2 DEF BeforeBump, TypeOK, Row
  <2>3. ASSUME NEW r \in Readers, NEW k \in Keys, Covered(r, k)
        PROVE  Covered(r, k)'
    BY <2>1, <2>2, <2>3 DEF Covered
  <2>4. ASSUME NEW v \in Writers, wpc'[v] = "reread"
        PROVE  change'[v].row.live
    <3>1. v # w /\ wpc[v] = "reread"
      BY <2>1, <2>4 DEF TypeOK
    <3> QED BY <2>1, <3>1 DEF FenceInv, TypeOK
  <2> QED BY <2>1, <2>3, <2>4 DEF FenceInv
<1>2. CASE RereadGone(w)
  <2>1. /\ wpc' = [wpc EXCEPT ![w] = "idle"] /\ wpc[w] = "reread"
        /\ ~db[change[w].key].live
        /\ change' = [change EXCEPT ![w] = NoChange]
        /\ UNCHANGED <<db, rpc, fence, epoch, tripped, view>>
    BY <1>2 DEF RereadGone
  <2>2. change[w].row # db[change[w].key]
    BY <2>1 DEF FenceInv
  <2>3. ASSUME NEW r \in Readers, NEW k \in Keys, Covered(r, k)
        PROVE  Covered(r, k)'
    <3>1. ASSUME NEW v \in Writers, BeforeBump(v), change[v].key = k,
                 change[v].row = db[k]
          PROVE  BeforeBump(v)' /\ change'[v] = change[v]
      BY <2>1, <2>2, <3>1 DEF BeforeBump, TypeOK
    <3> QED BY <2>1, <2>3, <3>1 DEF Covered
  <2>4. ASSUME NEW v \in Writers, wpc'[v] = "reread"
        PROVE  change'[v].row.live
    BY <2>1, <2>4 DEF FenceInv, TypeOK
  <2> QED BY <2>1, <2>3, <2>4 DEF FenceInv
<1>3. CASE IncrEpoch(w)
  <2>1. /\ wpc' = [wpc EXCEPT ![w] = "field"]
        /\ epoch' = epoch + 1
        /\ tripped' = [r \in Readers |-> tripped[r] \/ rpc[r] = "exec"]
        /\ UNCHANGED <<rpc, fence, change>>
    BY <1>3 DEF IncrEpoch, Touch
  <2>2. ASSUME NEW r \in Readers, rpc[r] \in {"build", "watch", "exec"}
        PROVE  fence[r] # NoFence /\ fence[r] < epoch' /\ fence[r] \in Nat
    BY <2>1, <2>2 DEF FenceInv, TypeOK
  <2>3. ASSUME NEW v \in Writers, wpc'[v] = "reread"
        PROVE  change'[v].row.live
    BY <2>1, <2>3 DEF FenceInv, TypeOK
  <2>4. ASSUME NEW r \in Readers
        PROVE  rpc[r] = "exec" => tripped'[r]
    BY <2>1, <2>4
  <2>5. epoch' \in Nat
    BY <2>1 DEF TypeOK
  <2>6. \A r \in Readers :
          /\ rpc'[r] \in {"build", "watch", "exec"} =>
                fence'[r] # NoFence /\ fence'[r] <= epoch'
          /\ ~(rpc'[r] \in {"watch", "exec"} /\ fence'[r] = epoch')
    BY <2>1, <2>2, <2>5
  <2> QED BY <2>1, <2>3, <2>4, <2>6 DEF FenceInv, NoFence
<1>4. CASE WriteField(w) \/ CheckTtl(w) \/ SetTtl(w) \/ Publish(w)
  <2>1. /\ \E next \in WriterSteps \ {"reread"} : wpc' = [wpc EXCEPT ![w] = next]
        /\ ~BeforeBump(w)
        /\ change' = change \/ change' = [change EXCEPT ![w] = NoChange]
        /\ UNCHANGED <<db, rpc, fence, epoch, tripped, view>>
    BY <1>4 DEF WriteField, CheckTtl, SetTtl, Publish, Return, BeforeBump,
                WriterSteps
  <2>2. ASSUME NEW v \in Writers, BeforeBump(v)
        PROVE  BeforeBump(v)' /\ change'[v] = change[v]
    BY <2>1, <2>2 DEF BeforeBump, TypeOK
  <2>3. ASSUME NEW r \in Readers, NEW k \in Keys, Covered(r, k)
        PROVE  Covered(r, k)'
    BY <2>1, <2>2, <2>3 DEF Covered
  <2>4. ASSUME NEW v \in Writers, wpc'[v] = "reread"
        PROVE  change'[v].row.live
    BY <2>1, <2>4 DEF FenceInv, TypeOK
  <2> QED BY <2>1, <2>3, <2>4 DEF FenceInv
<1>5. ~NotifyFails(w)
  BY DEF NotifyFails, FenceHolds
<1> QED BY <1>1, <1>2, <1>3, <1>4, <1>5 DEF WriterStep

LEMMA FenceReader ==
    ASSUME TypeOK, FenceInv, FenceHolds, NEW r \in Readers, ReaderStep(r)
    PROVE  FenceInv'
<1> USE DEF redis, writers, ReaderAt
<1>a. UNCHANGED <<db, epoch, wpc, change>>
  BY DEF ReaderStep, HExists, ReadEpoch, Build, Watch, Exec, Respond,
         EpochReadFails, PublishFails, redis, writers
<1>b. ASSUME NEW q \in Readers, q # r
      PROVE  /\ rpc'[q] = rpc[q] /\ fence'[q] = fence[q]
             /\ view'[q] = view[q] /\ tripped'[q] = tripped[q]
  BY <1>b DEF TypeOK, ReaderStep, HExists, ReadEpoch, Build, Watch, Exec,
              Respond, EpochReadFails, PublishFails
<1>c. SUFFICES
        /\ rpc'[r] \in {"build", "watch", "exec"} =>
              fence'[r] # NoFence /\ fence'[r] <= epoch
        /\ rpc'[r] = "exec" /\ ~tripped'[r] => fence'[r] = epoch
        /\ rpc'[r] \in {"watch", "exec"} /\ fence'[r] = epoch =>
              \A k \in Keys : Covered(r, k)'
  <2>1. ASSUME NEW q \in Readers, q # r, NEW k \in Keys, Covered(q, k)
        PROVE  Covered(q, k)'
    BY <1>a, <1>b, <2>1, CoverFrame
  <2> QED BY <1>a, <1>b, <1>c, <2>1 DEF FenceInv
<1>1. CASE HExists(r) \/ Respond(r) \/ PublishFails(r) \/ Exec(r)
  BY <1>1 DEF HExists, Respond, PublishFails, Exec, Outcomes, Degrade, TypeOK
<1>2. CASE ReadEpoch(r)
  BY <1>2 DEF ReadEpoch, TypeOK, NoFence
<1>3. CASE Build(r)
  <2>1. view'[r] = db /\ UNCHANGED <<fence, tripped>>
        /\ rpc'[r] = "watch" /\ rpc[r] = "build"
    BY <1>3 DEF Build, FenceInv, TypeOK
  <2>2. \A k \in Keys : Covered(r, k)'
    BY <1>a, <2>1 DEF Covered
  <2> QED BY <2>1, <2>2 DEF FenceInv
<1>4. CASE Watch(r)
  <2>1. /\ UNCHANGED <<fence, tripped, view>> /\ rpc[r] = "watch"
        /\ rpc'[r] = "exec" => fence[r] = epoch
        /\ rpc'[r] \in {"exec", "answered"}
    BY <1>4 DEF Watch, TypeOK
  <2>2. ASSUME NEW k \in Keys, Covered(r, k) PROVE Covered(r, k)'
    BY <1>a, <2>1, <2>2 DEF Covered, BeforeBump
  <2>3. fence[r] # NoFence /\ fence[r] <= epoch
    BY <2>1 DEF FenceInv
  <2>4. fence[r] = epoch => \A k \in Keys : Covered(r, k)
    BY <2>1 DEF FenceInv
  <2> QED BY <2>1, <2>2, <2>3, <2>4
<1>5. ~EpochReadFails(r)
  BY DEF EpochReadFails, FenceHolds
<1> QED BY <1>1, <1>2, <1>3, <1>4, <1>5 DEF ReaderStep

LEMMA FenceStep == TypeOK /\ FenceInv /\ FenceHolds /\ [Next]_vars => FenceInv'
<1> SUFFICES ASSUME TypeOK, FenceInv, FenceHolds, [Next]_vars PROVE FenceInv'
  OBVIOUS
<1>a. ASSUME UNCHANGED <<db, epoch, wpc, change>>,
             \A r \in Readers : rpc'[r] \notin {"build", "watch", "exec"}
                                \/ /\ rpc'[r] = rpc[r] /\ fence'[r] = fence[r]
                                   /\ view'[r] = view[r]
                                   /\ tripped'[r] = tripped[r]
      PROVE  FenceInv'
  <2>1. ASSUME NEW r \in Readers, NEW k \in Keys, Covered(r, k),
               view'[r] = view[r]
        PROVE  Covered(r, k)'
    BY <1>a, <2>1, CoverFrame
  <2> QED BY <1>a, <2>1 DEF FenceInv
<1>1. ASSUME NEW w \in Writers, NEW k \in Keys,
             Create(w, k) \/ Update(w, k) \/ Delete(w, k)
      PROVE  FenceInv'
  <2>1. CASE Create(w, k)
    <3>1. [n |-> db[k].n + 1, born |-> db[k].n + 1, live |-> TRUE] \in Row
      BY DEF Row, TypeOK
    <3> QED BY <2>1, <3>1, FenceCommit DEF Create
  <2>2. CASE Update(w, k)
    <3>1. [db[k] EXCEPT !.n = @ + 1] \in Row /\ [db[k] EXCEPT !.n = @ + 1].live
      BY <2>2, RowUpdate DEF TypeOK, Update, Row
    <3> QED BY <2>2, <3>1, FenceCommit DEF Update
  <2>3. CASE Delete(w, k)
    <3>1. [db[k] EXCEPT !.n = @ + 1, !.live = FALSE] \in Row
      BY RowUpdate DEF TypeOK
    <3> QED BY <2>3, <3>1, FenceCommit DEF Delete
  <2> QED BY <1>1, <2>1, <2>2, <2>3
<1>2. ASSUME NEW w \in Writers, WriterStep(w) PROVE FenceInv'
  BY <1>2, FenceWriter
<1>3. ASSUME NEW r \in Evaluators, NEW k \in Keys,
             Evaluate(r, k) \/ CacheReadFails(r, {k})
      PROVE  FenceInv'
  BY <1>3, <1>a
  DEF Evaluate, CacheReadFails, Degrade, Arrive, ReaderAt, Readers, TypeOK,
      redis, writers
<1>4. ASSUME NEW r \in Bootstraps, Ruleset(r) \/ CacheReadFails(r, Keys)
      PROVE  FenceInv'
  BY <1>4, <1>a
  DEF Ruleset, CacheReadFails, Degrade, Arrive, ReaderAt, Readers, TypeOK,
      redis, writers
<1>5. ASSUME NEW r \in Readers, ReaderStep(r) PROVE FenceInv'
  BY <1>5, FenceReader
<1>6. CASE Expire
  BY <1>6, <1>a DEF Expire, writers, readers
<1>7. ~Restart
  BY DEF Restart, FenceHolds
<1>8. CASE UNCHANGED vars
  BY <1>8, <1>a DEF vars, redis, writers, readers
<1> QED
  BY <1>1, <1>2, <1>3, <1>4, <1>5, <1>6, <1>7, <1>8 DEF Next

\* A step of the system, taken where the invariant holds, publishes only what
\* is current or about to be announced.
LEMMA PublicationCovered ==
    ASSUME TypeOK, FenceInv, [Next]_vars, NEW r \in Readers,
           rpc[r] = "exec", rpc'[r] # "exec", redis' # redis, NEW k \in Keys
    PROVE  Covered(r, k)
<1>1. ASSUME NEW q \in Readers, NEW keys, NEW seen, NEW next,
             Arrive(q, keys, seen, next)
      PROVE  FALSE
  BY <1>1 DEF Arrive, ReaderAt, TypeOK
<1>2. ASSUME NEW q \in Readers, ReaderStep(q) PROVE q = r /\ Exec(r)
  <2>1. q = r
    BY <1>2 DEF ReaderStep, HExists, ReadEpoch, Build, Watch, Exec, Respond,
                EpochReadFails, PublishFails, ReaderAt, TypeOK
  <2> QED BY <1>2, <2>1
    DEF ReaderStep, HExists, ReadEpoch, Build, Watch, Respond, EpochReadFails,
        PublishFails, Degrade, ReaderAt, TypeOK
<1>3. Exec(r)
  BY <1>1, <1>2
  DEF Next, vars, readers, Create, Update, Delete, Commit, WriterStep, Reread,
      RereadGone, IncrEpoch, WriteField, CheckTtl, SetTtl, Publish, NotifyFails,
      Return, Evaluate, CacheReadFails, Ruleset, Readers, Expire, Restart
<1>4. ~tripped[r]
  BY <1>3 DEF Exec, ReaderAt, FenceInv, TypeOK
<1> QED BY <1>4 DEF FenceInv

\* The epoch fence works for any number of writers, also of the same flag, any
\* number of rebuilds, and whatever reads and publications fail: what a rebuild
\* publishes misses only commits whose field is still to be written.
THEOREM FenceTheorem == FenceHolds /\ Spec => FencedPublish
<1>1. Init => TypeOK /\ FenceInv
  BY TypeInit, FenceInit
<1>2. FenceHolds /\ TypeOK /\ FenceInv /\ [Next]_vars => (TypeOK /\ FenceInv)'
  BY TypeStep, FenceStep
<1>3. TypeOK /\ FenceInv /\ [Next]_vars =>
        [\A r \in Readers : rpc[r] = "exec" /\ rpc'[r] # "exec" /\ redis' # redis =>
           \A k \in Keys : Covered(r, k)]_vars
  BY PublicationCovered
<1>4. CASE FenceHolds
  BY <1>1, <1>2, <1>3, <1>4, PTL DEF Spec, FencedPublish
<1>5. CASE ~FenceHolds
  BY <1>5
<1> QED BY <1>4, <1>5

-----------------------------------------------------------------------------
(* The kill switch, flag by flag: what becomes of a flag whose changes do   *)
(* not overlap, whatever happens to the other flags.                       *)

\* What a commit does, whichever of the three handlers makes it.
LEMMA CommitShape ==
    ASSUME TypeOK, NEW w \in Writers, NEW k \in Keys,
           Create(w, k) \/ Update(w, k) \/ Delete(w, k)
    PROVE  \E row \in Row, next \in {"reread", "incr"} :
              row.n = db[k].n + 1 /\ Commit(w, k, row, next)
<1>1. db[k] \in Row
  BY DEF TypeOK
<1>2. CASE Create(w, k)
  <2>1. [n |-> db[k].n + 1, born |-> db[k].n + 1, live |-> TRUE] \in Row
    BY <1>1 DEF Row
  <2> QED BY <1>2, <2>1 DEF Create
<1>3. CASE Update(w, k)
  <2>1. [db[k] EXCEPT !.n = @ + 1].n = db[k].n + 1
    BY <1>1 DEF Row
  <2> QED BY <1>1, <1>3, <2>1, RowUpdate DEF Update
<1>4. CASE Delete(w, k)
  <2>1. [db[k] EXCEPT !.n = @ + 1, !.live = FALSE].n = db[k].n + 1
    BY <1>1 DEF Row
  <2> QED BY <1>1, <1>4, <2>1, RowUpdate DEF Delete
<1> QED BY <1>2, <1>3, <1>4

LEMMA NewestCommit ==
    ASSUME TypeOK, NEW k \in Keys, KnowsNewest(k), Apart(k)', NEW w \in Writers,
           NEW j \in Keys, NEW row \in Row, NEW next \in {"reread", "incr"},
           Commit(w, j, row, next)
    PROVE  KnowsNewest(k)'
<1>1. /\ db' = [db EXCEPT ![j] = row]
      /\ change' = [change EXCEPT ![w] = [key |-> j, row |-> row]]
      /\ wpc' = [wpc EXCEPT ![w] = next]
  BY DEF Commit, WriterAt
<1>2. change'[w] = [key |-> j, row |-> row] /\ wpc'[w] # "idle" /\ db'[j] = row
  BY <1>1 DEF TypeOK
<1>3. CASE j = k
  BY <1>2, <1>3 DEF Apart, KnowsNewest, Changes
<1>4. CASE j # k
  <2>1. db'[k] = db[k] /\ ~Changes(w, k)'
    BY <1>1, <1>2, <1>4 DEF TypeOK, Changes
  <2>2. \A v \in Writers \ {w} : wpc'[v] = wpc[v] /\ change'[v] = change[v]
    BY <1>1 DEF TypeOK
  <2> QED BY <2>1, <2>2 DEF KnowsNewest, Changes
<1> QED BY <1>3, <1>4

\* What any later step of a request leaves alone.
LEMMA WriterFrame ==
    ASSUME TypeOK, NEW w \in Writers, WriterStep(w)
    PROVE  /\ UNCHANGED <<db, complete, rpc, view, fence, floor, whole>>
           /\ wpc[w] # "idle" /\ change[w].key \in Keys
           /\ \A v \in Writers \ {w} : wpc'[v] = wpc[v] /\ change'[v] = change[v]
<1> USE DEF WriterAt
<1>1. UNCHANGED <<db, complete, rpc, view, fence, floor, whole>> /\ wpc[w] # "idle"
  BY DEF WriterStep, Reread, RereadGone, IncrEpoch, WriteField, CheckTtl, SetTtl,
     Publish, NotifyFails, Return, redis, readers
<1>2. \A v \in Writers \ {w} : wpc'[v] = wpc[v] /\ change'[v] = change[v]
  BY DEF TypeOK, WriterStep, Reread, RereadGone, IncrEpoch, WriteField, CheckTtl,
     SetTtl, Publish, NotifyFails, Return
<1> QED BY <1>1, <1>2 DEF TypeOK

\* A request that changes another flag does nothing to this one.
LEMMA OtherStep ==
    ASSUME TypeOK, NEW k \in Keys, NEW w \in Writers, WriterStep(w), ~Changes(w, k)
    PROVE  /\ field'[k] = field[k] /\ acked'[k] = acked[k]
           /\ change[w].key # k /\ ~Changes(w, k)'
<1> USE DEF WriterAt
<1>1. wpc[w] # "idle" /\ change[w].key # k
  BY WriterFrame DEF Changes
<1>2. field'[k] = field[k]
  BY <1>1 DEF TypeOK, WriterStep, Reread, RereadGone, IncrEpoch, WriteField,
     CheckTtl, SetTtl, Publish, NotifyFails, Return, redis
<1>3. acked'[k] = acked[k]
  BY <1>1 DEF TypeOK, WriterStep, Reread, RereadGone, IncrEpoch, WriteField,
     CheckTtl, SetTtl, Publish, NotifyFails, Return
<1>4. wpc'[w] = "idle" \/ change'[w].key = change[w].key
  BY DEF TypeOK, WriterStep, Reread, RereadGone, IncrEpoch, WriteField, CheckTtl,
     SetTtl, Publish, NotifyFails, Return
<1> QED BY <1>1, <1>2, <1>3, <1>4 DEF Changes

\* One that changes this flag announces its own row to the end.
LEMMA OwnStep ==
    ASSUME TypeOK, FenceInv, FenceHolds, NEW k \in Keys, KnowsNewest(k),
           NEW w \in Writers, WriterStep(w), Changes(w, k)
    PROVE  /\ change[w].row = db[k]
           /\ ~RereadGone(w) /\ ~NotifyFails(w)
           /\ Publish(w) \/ (wpc'[w] # "idle" /\ change'[w] = change[w])
<1> USE DEF WriterAt
<1>1. change[w].key = k /\ change[w].row = db[k]
  BY DEF KnowsNewest, Changes
<1>2. ~RereadGone(w) /\ ~NotifyFails(w)
  BY <1>1 DEF RereadGone, NotifyFails, FenceHolds, FenceInv
<1>3. CASE Reread(w)
  <2>1. wpc' = [wpc EXCEPT ![w] = "incr"] /\ change' = change
    BY <1>1, <1>3 DEF Reread
  <2> QED BY <1>1, <1>2, <2>1 DEF TypeOK
<1>4. CASE IncrEpoch(w) \/ WriteField(w) \/ CheckTtl(w) \/ SetTtl(w)
  BY <1>1, <1>2, <1>4 DEF IncrEpoch, WriteField, CheckTtl, SetTtl, TypeOK
<1> QED BY <1>1, <1>2, <1>3, <1>4 DEF WriterStep

LEMMA NewestStep ==
    ASSUME TypeOK, FenceInv, FenceHolds, NEW k \in Keys, KnowsNewest(k), Apart(k)',
           [Next]_vars
    PROVE  KnowsNewest(k)'
<1>1. ASSUME NEW w \in Writers, NEW j \in Keys,
             Create(w, j) \/ Update(w, j) \/ Delete(w, j)
      PROVE  KnowsNewest(k)'
  BY <1>1, CommitShape, NewestCommit
<1>2. ASSUME NEW w \in Writers, WriterStep(w) PROVE KnowsNewest(k)'
  <2>1. UNCHANGED db
        /\ \A v \in Writers \ {w} : wpc'[v] = wpc[v] /\ change'[v] = change[v]
    BY <1>2, WriterFrame
  <2>2. Changes(w, k)' => Changes(w, k) /\ change'[w] = change[w]
    <3>1. CASE Changes(w, k)
      <4>1. ~Publish(w) => change'[w] = change[w]
        BY <1>2, <3>1, OwnStep
      <4>2. Publish(w) => wpc'[w] = "idle"
        BY DEF Publish, Return, TypeOK
      <4> QED BY <3>1, <4>1, <4>2 DEF Changes
    <3> QED BY <1>2, <3>1, OtherStep
  <2> QED BY <2>1, <2>2 DEF KnowsNewest, Changes
<1>3. CASE UNCHANGED <<db, wpc, change>>
  BY <1>3 DEF KnowsNewest, Changes
<1> QED
  BY <1>1, <1>2, <1>3
  DEF Next, vars, writers, Evaluate, CacheReadFails, Ruleset, Arrive, ReaderStep,
      HExists, ReadEpoch, Build, Watch, Exec, Respond, EpochReadFails,
      PublishFails, Expire, Restart

LEMMA HashWriter ==
    ASSUME TypeOK, FenceInv, FenceHolds, NEW k \in Keys, KnowsNewest(k), Matches(k),
           NEW w \in Writers, WriterStep(w)
    PROVE  Matches(k)'
<1>1. /\ UNCHANGED <<db, complete>> /\ wpc[w] # "idle"
      /\ \A v \in Writers \ {w} : wpc'[v] = wpc[v] /\ change'[v] = change[v]
  BY WriterFrame
<1>2. CASE ~Changes(w, k)
  <2>1. field'[k] = field[k] /\ change[w].key # k
    BY <1>2, OtherStep
  <2>2. Settling(k) => Settling(k)'
    BY <1>1, <2>1 DEF Settling, BeforeField
  <2> QED BY <1>1, <2>1, <2>2 DEF Matches
<1>3. CASE Changes(w, k) /\ WriteField(w)
  <2>1. change[w].key = k /\ change[w].row = db[k]
    BY <1>3, OwnStep DEF Changes
  <2>2. field' = [field EXCEPT ![k] = Payload(db[k])]
    BY <1>3, <2>1 DEF WriteField
  <2> QED BY <1>1, <2>2 DEF TypeOK, Matches
<1>4. CASE Changes(w, k) /\ ~WriteField(w)
  <2>1. UNCHANGED field
    BY <1>4 DEF WriterStep, Reread, RereadGone, IncrEpoch, CheckTtl, SetTtl, Publish,
       NotifyFails, Return, redis
  <2>2. BeforeField(w) => BeforeField(w)' /\ change'[w] = change[w]
    <3>1. ~Publish(w) \/ ~BeforeField(w)
      BY DEF Publish, BeforeField
    <3>2. Reread(w) \/ IncrEpoch(w) => BeforeField(w)'
      BY DEF Reread, IncrEpoch, WriterAt, BeforeField, TypeOK
    <3>3. CheckTtl(w) \/ SetTtl(w) => ~BeforeField(w)
      BY DEF CheckTtl, SetTtl, WriterAt, BeforeField
    <3> QED BY <1>4, <3>1, <3>2, <3>3, OwnStep DEF WriterStep
  <2>3. Settling(k) => Settling(k)'
    BY <1>1, <2>2 DEF Settling, BeforeField
  <2> QED BY <1>1, <2>1, <2>3 DEF Matches
<1> QED BY <1>2, <1>3, <1>4

LEMMA HashStep ==
    ASSUME TypeOK, FenceInv, FenceHolds, NEW k \in Keys, KnowsNewest(k), Matches(k),
           [Next]_vars
    PROVE  Matches(k)'
<1>a. ASSUME UNCHANGED <<db, field, complete, wpc, change>>
      PROVE  Matches(k)'
  BY <1>a DEF Matches, Settling, BeforeField
<1>1. ASSUME NEW w \in Writers, NEW j \in Keys, NEW row \in Row,
             NEW next \in {"reread", "incr"}, Commit(w, j, row, next)
      PROVE  Matches(k)'
  <2>1. /\ UNCHANGED <<field, complete>>
        /\ wpc[w] = "idle" /\ wpc'[w] = next /\ change'[w].key = j
        /\ \A v \in Writers \ {w} : wpc'[v] = wpc[v] /\ change'[v] = change[v]
        /\ j # k => db'[k] = db[k]
    BY <1>1 DEF Commit, WriterAt, redis, TypeOK
  <2>2. j = k => Settling(k)'
    BY <2>1 DEF Settling, BeforeField
  <2>3. Settling(k) => Settling(k)'
    BY <2>1 DEF Settling, BeforeField
  <2> QED BY <2>1, <2>2, <2>3 DEF Matches
<1>2. ASSUME NEW w \in Writers, WriterStep(w) PROVE Matches(k)'
  BY <1>2, HashWriter
<1>3. ASSUME NEW r \in Readers, Exec(r) PROVE Matches(k)'
  <2>1. UNCHANGED <<db, wpc, change>>
    BY <1>3 DEF Exec, writers
  <2>2. CASE tripped[r]
    <3>1. UNCHANGED <<field, complete>>
      BY <1>3, <2>2 DEF Exec, ReaderAt, FenceInv, redis
    <3> QED BY <1>a, <2>1, <3>1
  <2>3. CASE ~tripped[r]
    <3>1. field'[k] = Payload(view[r][k])
      BY <1>3, <2>3 DEF Exec
    <3>2. Covered(r, k)
      BY <1>3, <2>3 DEF Exec, ReaderAt, FenceInv
    <3> QED BY <2>1, <3>1, <3>2 DEF Matches, Covered, Settling, BeforeBump, BeforeField
  <2> QED BY <2>2, <2>3
<1>4. ASSUME NEW r \in Readers, ReaderStep(r), ~Exec(r) PROVE Matches(k)'
  BY <1>4, <1>a DEF ReaderStep, HExists, ReadEpoch, Build, Watch, EpochReadFails,
                    PublishFails, Respond, redis, writers
<1>5. ASSUME NEW r, NEW keys, NEW seen, NEW next, Arrive(r, keys, seen, next)
      PROVE  Matches(k)'
  BY <1>5, <1>a DEF Arrive, redis, writers
<1>6. CASE Expire
  BY <1>6 DEF Expire, Matches, Nothing, Absent
<1>7. ~Restart
  BY DEF Restart, FenceHolds
<1>8. CASE UNCHANGED vars
  BY <1>8, <1>a DEF vars, redis, writers
<1> QED
  BY <1>1, <1>2, <1>3, <1>4, <1>5, <1>6, <1>7, <1>8, CommitShape
  DEF Next, Evaluate, CacheReadFails, Ruleset

\* Row numbers are numbers.
LEMMA Numbers ==
    ASSUME TypeOK
    PROVE  \A k \in Keys :
              /\ db[k].n \in Nat /\ acked[k].n \in Nat /\ field[k].n \in Nat
              /\ \A r \in Readers : view[r][k].n \in Nat /\ floor[r][k].n \in Nat
BY DEF TypeOK, Row

\* When the request of a change returns nobody else is about to write the flag,
\* so that the hash has it, and so has every rebuild that may still publish.
LEMMA ReturnSettled ==
    ASSUME TypeOK, FenceInv, NEW k \in Keys, KnowsNewest(k), Matches(k), Apart(k),
           NEW w \in Writers, Publish(w), change[w].key = k
    PROVE  /\ change[w].row = db[k]
           /\ complete \/ field[k].live => field[k] = Payload(db[k])
           /\ \A r \in Readers : rpc[r] \in {"watch", "exec"} /\ fence[r] = epoch
                                   => view[r][k] = db[k]
<1>1. wpc[w] = "publish" /\ Changes(w, k)
  BY DEF Publish, Changes
<1>2. \A v \in Writers : BeforeField(v) => change[v].key # k
  BY <1>1 DEF Apart, Changes, BeforeField
<1> QED BY <1>1, <1>2 DEF KnowsNewest, Matches, Settling, FenceInv, Covered, BeforeBump,
                          BeforeField

\* Moving acked forward, and to a row that is current, keeps the promise.
LEMMA PromiseReturn ==
    ASSUME TypeOK, FenceInv, NEW k \in Keys, KnowsNewest(k), Matches(k), PromiseKept(k),
           Apart(k), NEW w \in Writers, Publish(w), change[w].key = k
    PROVE  PromiseKept(k)'
<1>1. UNCHANGED <<db, field, epoch, rpc, view, fence, floor>>
  BY DEF Publish, Return, redis, readers
<1>2. /\ change[w].row = db[k]
      /\ field[k].live => field[k] = db[k]
      /\ \A r \in Readers : rpc[r] \in {"watch", "exec"} /\ fence[r] = epoch
                              => view[r][k] = db[k]
  BY ReturnSettled DEF Payload, Absent
<1>3. acked'[k] = acked[k] \/ acked'[k] = db[k]
  BY <1>2 DEF Publish, Return, TypeOK
<1>4. \A r \in Readers : floor[r][k].n <= db[k].n
  <2>1. ASSUME NEW r \in Readers PROVE floor[r][k].n <= db[k].n
    <3>1. floor[r][k].n <= acked[k].n /\ acked[k].n <= db[k].n
      BY DEF PromiseKept
    <3> QED BY <3>1, Numbers
  <2> QED BY <2>1
<1>5. CASE acked'[k] = acked[k]
  BY <1>1, <1>5 DEF PromiseKept
<1>6. CASE acked'[k] = db[k]
  BY <1>1, <1>2, <1>4, <1>6, Numbers DEF PromiseKept
<1> QED BY <1>3, <1>5, <1>6

LEMMA PromiseWriter ==
    ASSUME TypeOK, FenceInv, FenceHolds, NEW k \in Keys, KnowsNewest(k), Matches(k),
           PromiseKept(k), Apart(k), NEW w \in Writers, WriterStep(w)
    PROVE  PromiseKept(k)'
<1>1. UNCHANGED <<db, rpc, view, fence, floor>>
  BY WriterFrame
<1>2. \A r \in Readers : rpc[r] \in {"watch", "exec"} /\ fence[r] = epoch'
                           => fence[r] = epoch
  <2>1. epoch' = epoch \/ epoch' = epoch + 1
    BY DEF WriterStep, Reread, RereadGone, IncrEpoch, WriteField, CheckTtl, SetTtl,
       Publish, NotifyFails, Return, redis
  <2> QED BY <2>1 DEF FenceInv, TypeOK, NoFence
<1>3. CASE Publish(w) /\ change[w].key = k
  BY <1>3, PromiseReturn
<1>4. CASE ~Changes(w, k)
  <2>1. field'[k] = field[k] /\ acked'[k] = acked[k]
    BY <1>4, OtherStep
  <2> QED BY <1>1, <1>2, <2>1 DEF PromiseKept
<1>5. CASE Changes(w, k) /\ ~Publish(w)
  <2>1. change[w].key = k /\ change[w].row = db[k] /\ ~RereadGone(w) /\ ~NotifyFails(w)
    BY <1>5, OwnStep DEF Changes
  <2>2. UNCHANGED acked
    BY <1>5, <2>1 DEF WriterStep, Reread, IncrEpoch, WriteField, CheckTtl, SetTtl
  <2>3. field'[k] = field[k] \/ field'[k] = db[k] \/ ~field'[k].live
    <3>1. UNCHANGED field \/ field' = [field EXCEPT ![k] = Payload(db[k])]
      BY <1>5, <2>1 DEF WriterStep, Reread, IncrEpoch, WriteField, CheckTtl, SetTtl, redis
    <3> QED BY <3>1 DEF TypeOK, Payload, Absent
  <2> QED BY <1>1, <1>2, <2>2, <2>3, Numbers DEF PromiseKept
<1> QED BY <1>3, <1>4, <1>5 DEF Changes

LEMMA PromiseReader ==
    ASSUME TypeOK, FenceInv, FenceHolds, NEW k \in Keys, PromiseKept(k),
           NEW r \in Readers, ReaderStep(r)
    PROVE  PromiseKept(k)'
<1> USE DEF redis, ReaderAt
<1>a. UNCHANGED <<db, acked, epoch>>
      /\ \A q \in Readers \ {r} : /\ rpc'[q] = rpc[q] /\ fence'[q] = fence[q]
                                  /\ view'[q] = view[q] /\ floor'[q] = floor[q]
  <2>1. CASE HExists(r) \/ ReadEpoch(r) \/ Build(r)
    BY <2>1 DEF TypeOK, HExists, ReadEpoch, Build
  <2>2. CASE Watch(r) \/ EpochReadFails(r)
    BY <2>2 DEF TypeOK, Watch, EpochReadFails
  <2>3. CASE Exec(r)
    BY <2>3 DEF TypeOK, Exec
  <2>4. CASE Respond(r)
    BY <2>4 DEF TypeOK, Respond
  <2>5. CASE PublishFails(r)
    BY <2>5 DEF TypeOK, PublishFails
  <2> QED BY <2>1, <2>2, <2>3, <2>4, <2>5 DEF ReaderStep
<1>1. CASE HExists(r) \/ ReadEpoch(r)
  <2>1. UNCHANGED <<field, view, floor>> /\ rpc'[r] \notin {"watch", "exec"}
    BY <1>1 DEF HExists, ReadEpoch, TypeOK
  <2> QED BY <1>a, <2>1 DEF PromiseKept
<1>2. CASE Watch(r) \/ PublishFails(r)
  <2>1. /\ UNCHANGED <<field, fence, view, floor>>
        /\ rpc'[r] \in {"watch", "exec"} => rpc[r] \in {"watch", "exec"}
    BY <1>2 DEF Watch, PublishFails, Degrade, TypeOK
  <2> QED BY <1>a, <2>1 DEF PromiseKept
<1>3. CASE Build(r)
  <2>1. /\ UNCHANGED <<field, fence, floor>> /\ view'[r] = db
    BY <1>3 DEF Build, TypeOK
  <2>2. acked[k].n <= db[k].n /\ floor[r][k].n <= acked[k].n
    BY DEF PromiseKept
  <2>3. db[k].n >= acked[k].n /\ db[k].n >= floor[r][k].n
    BY <2>2, Numbers
  <2> QED BY <1>a, <2>1, <2>3 DEF PromiseKept
<1>4. CASE Exec(r)
  <2>1. /\ rpc[r] = "exec" /\ rpc'[r] \notin {"watch", "exec"}
        /\ UNCHANGED <<view, floor>>
    BY <1>4 DEF Exec, Outcomes, Degrade, TypeOK
  <2>2. ASSUME field'[k].live PROVE field'[k].n >= acked[k].n
    <3>1. CASE tripped[r]
      BY <1>4, <2>2, <3>1 DEF Exec, FenceInv, PromiseKept
    <3>2. CASE ~tripped[r]
      <4>1. field'[k] = view[r][k] \/ ~field'[k].live
        BY <1>4, <3>2 DEF Exec, Payload, Absent
      <4>2. view[r][k].n >= acked[k].n
        BY <2>1, <3>2 DEF FenceInv, PromiseKept
      <4> QED BY <2>2, <4>1, <4>2
    <3> QED BY <3>1, <3>2
  <2> QED BY <1>a, <2>1, <2>2 DEF PromiseKept
<1>5. CASE Respond(r)
  <2>1. /\ rpc'[r] = "idle" /\ view'[r] = Nothing /\ floor'[r] = Nothing
        /\ UNCHANGED field
    BY <1>5 DEF Respond, TypeOK
  <2> QED BY <1>a, <2>1, Numbers DEF PromiseKept, Nothing, Absent
<1>6. ~EpochReadFails(r)
  BY DEF EpochReadFails, FenceHolds
<1> QED BY <1>1, <1>2, <1>3, <1>4, <1>5, <1>6 DEF ReaderStep

LEMMA PromiseStep ==
    ASSUME TypeOK, FenceInv, FenceHolds, NEW k \in Keys, KnowsNewest(k), Matches(k),
           PromiseKept(k), Apart(k), [Next]_vars
    PROVE  PromiseKept(k)'
<1>1. ASSUME NEW w \in Writers, NEW j \in Keys, NEW row \in Row,
             NEW next \in {"reread", "incr"}, row.n = db[j].n + 1,
             Commit(w, j, row, next)
      PROVE  PromiseKept(k)'
  <2>1. /\ db' = [db EXCEPT ![j] = row]
        /\ UNCHANGED <<acked, field, epoch, rpc, view, fence, floor>>
    BY <1>1 DEF Commit, redis, readers
  <2>2. db'[k].n = db[k].n \/ db'[k].n = db[k].n + 1
    BY <1>1, <2>1 DEF TypeOK
  <2>3. acked[k].n <= db'[k].n
    BY <2>2, Numbers DEF PromiseKept
  <2> QED BY <2>1, <2>3 DEF PromiseKept
<1>2. ASSUME NEW w \in Writers, WriterStep(w) PROVE PromiseKept(k)'
  BY <1>2, PromiseWriter
<1>3. ASSUME NEW r \in Readers, ReaderStep(r) PROVE PromiseKept(k)'
  BY <1>3, PromiseReader
<1>4. ASSUME NEW r \in Readers, NEW keys \in SUBSET Keys,
             NEW seen \in {field, Nothing},
             NEW next \in {"hexists", "answered", "epoch", "failed"},
             Arrive(r, keys, seen, next)
      PROVE  PromiseKept(k)'
  <2>1. /\ UNCHANGED <<db, acked, field, epoch, fence>>
        /\ rpc' = [rpc EXCEPT ![r] = next]
        /\ view' = [view EXCEPT ![r] = [j \in Keys |-> IF j \in keys THEN seen[j]
                                                       ELSE Absent]]
        /\ floor' = [floor EXCEPT ![r] = [j \in Keys |-> IF j \in keys THEN acked[j]
                                                         ELSE Absent]]
    BY <1>4 DEF Arrive, ReaderAt, redis
  <2>2. ASSUME NEW q \in Readers, q # r
        PROVE  /\ rpc'[q] = rpc[q]
               /\ view'[q][k] = view[q][k] /\ floor'[q][k] = floor[q][k]
    BY <2>1, <2>2 DEF TypeOK
  <2>3. rpc'[r] \notin {"watch", "exec"}
    BY <2>1 DEF TypeOK
  <2>4. /\ floor'[r][k].n <= acked[k].n
        /\ view'[r][k].live => view'[r][k].n >= floor'[r][k].n
    <3>1. view'[r][k] = (IF k \in keys THEN seen[k] ELSE Absent)
          /\ floor'[r][k] = (IF k \in keys THEN acked[k] ELSE Absent)
      BY <2>1 DEF TypeOK
    <3>2. seen[k].live => seen[k].n >= acked[k].n
      BY DEF PromiseKept, Nothing, Absent
    <3> QED BY <3>1, <3>2, Numbers DEF Absent
  <2> QED BY <2>1, <2>2, <2>3, <2>4 DEF PromiseKept
<1>5. CASE Expire
  BY <1>5 DEF Expire, Nothing, Absent, PromiseKept, readers
<1>6. ~Restart
  BY DEF Restart, FenceHolds
<1>7. CASE UNCHANGED vars
  BY <1>7 DEF vars, redis, readers, PromiseKept
<1>8. ASSUME NEW w \in Writers, NEW j \in Keys,
             Create(w, j) \/ Update(w, j) \/ Delete(w, j)
      PROVE  PromiseKept(k)'
  BY <1>1, <1>8, CommitShape
<1>9. ASSUME NEW r \in Evaluators, NEW j \in Keys,
             Evaluate(r, j) \/ CacheReadFails(r, {j})
      PROVE  PromiseKept(k)'
  BY <1>4, <1>9 DEF Evaluate, CacheReadFails, Degrade, Readers
<1>10. ASSUME NEW r \in Bootstraps, Ruleset(r) \/ CacheReadFails(r, Keys)
       PROVE  PromiseKept(k)'
  BY <1>4, <1>10 DEF Ruleset, CacheReadFails, Degrade, Readers
<1> QED
  BY <1>2, <1>3, <1>5, <1>6, <1>7, <1>8, <1>9, <1>10 DEF Next

-----------------------------------------------------------------------------
(* Its theorems.                                                           *)

\* What is inductive about one flag, as long as its changes do not overlap.
FlagInv(k) == KnowsNewest(k) /\ Matches(k) /\ PromiseKept(k)

AllApart == \A k \in Keys : Apart(k)

LEMMA FlagInit == ASSUME Init, NEW k \in Keys PROVE FlagInv(k)
<1>1. /\ db[k].n \in Nat /\ acked[k] = db[k] /\ field[k] = Absent
      /\ \A w \in Writers : wpc[w] = "idle"
      /\ \A r \in Readers : rpc[r] = "idle" /\ view[r][k] = Absent /\ floor[r][k] = Absent
  <2>1. db[k] \in {Absent, [n |-> 1, born |-> 1, live |-> TRUE]} /\ acked = db
    BY DEF Init
  <2>2. db[k].n \in Nat
    BY <2>1 DEF Absent
  <2>3. /\ field = Nothing /\ wpc = [w \in Writers |-> "idle"]
        /\ rpc = [r \in Readers |-> "idle"]
        /\ view = [r \in Readers |-> Nothing] /\ floor = [r \in Readers |-> Nothing]
    BY DEF Init
  <2>4. Nothing[k] = Absent
    BY DEF Nothing
  <2> QED BY <2>1, <2>2, <2>3, <2>4
<1>2. acked[k].n <= db[k].n /\ 0 <= acked[k].n
  BY <1>1
<1>3. ~complete
  BY DEF Init
<1> QED BY <1>1, <1>2, <1>3 DEF FlagInv, KnowsNewest, Changes, Matches, PromiseKept, Absent

LEMMA FlagStep ==
    ASSUME TypeOK, FenceInv, FenceHolds, [Next]_vars, NEW k \in Keys, FlagInv(k),
           Apart(k), Apart(k)'
    PROVE  FlagInv(k)'
BY NewestStep, HashStep, PromiseStep DEF FlagInv

LEMMA FlagInvariant ==
    ASSUME NEW k \in Keys
    PROVE  FenceHolds /\ Spec /\ []Apart(k) => [](TypeOK /\ FenceInv /\ FlagInv(k))
<1>1. Init => TypeOK /\ FenceInv /\ FlagInv(k)
  BY TypeInit, FenceInit, FlagInit
<1>2. FenceHolds /\ Apart(k) /\ Apart(k)' /\ TypeOK /\ FenceInv /\ FlagInv(k) /\ [Next]_vars
        => (TypeOK /\ FenceInv /\ FlagInv(k))'
  BY TypeStep, FenceStep, FlagStep
<1>3. CASE FenceHolds
  BY <1>1, <1>2, <1>3, PTL DEF Spec
<1>4. CASE ~FenceHolds
  BY <1>4
<1> QED BY <1>3, <1>4

LEMMA AllFlagsInvariant ==
    FenceHolds /\ Spec /\ []AllApart
      => [](TypeOK /\ FenceInv /\ \A k \in Keys : FlagInv(k))
<1> DEFINE Inv == TypeOK /\ FenceInv /\ \A k \in Keys : FlagInv(k)
<1>1. Init => Inv
  BY TypeInit, FenceInit, FlagInit
<1>2. FenceHolds /\ AllApart /\ AllApart' /\ Inv /\ [Next]_vars => Inv'
  <2>1. TypeOK /\ FenceInv /\ FenceHolds /\ [Next]_vars => TypeOK' /\ FenceInv'
    BY TypeStep, FenceStep
  <2> QED BY <2>1, FlagStep DEF AllApart
<1> HIDE DEF Inv
<1>3. FenceHolds /\ Spec /\ []AllApart => []Inv
  <2>1. CASE FenceHolds
    BY <1>1, <1>2, <2>1, PTL DEF Spec
  <2>2. CASE ~FenceHolds
    BY <2>2
  <2> QED BY <2>1, <2>2
<1> QED BY <1>3 DEF Inv

LEMMA PromiseServes ==
    ASSUME TypeOK, NEW k \in Keys, PromiseKept(k)
    PROVE  NeverStale(k)
BY DEF NeverStale, PromiseKept

\* The hash is only ever behind Postgres about a flag while a request is between
\* its commit and its HSET or HDEL, if requests that change one flag do not overlap.
THEOREM HashTheorem == FenceHolds /\ Spec /\ []AllApart => []HashMatchesDb
<1>1. (\A k \in Keys : FlagInv(k)) => HashMatchesDb
  BY DEF FlagInv, HashMatchesDb
<1> QED BY <1>1, AllFlagsInvariant, PTL

\* Then the kill switch holds, for any number of flags, writers, evaluations,
\* bootstraps and commits: no request that arrives after a change was answered is
\* served an older version of the flag.
THEOREM KillSwitchTheorem == FenceHolds /\ Spec /\ []AllApart => []NoStaleAnswer
<1>1. TypeOK /\ (\A k \in Keys : FlagInv(k)) => NoStaleAnswer
  BY PromiseServes DEF FlagInv, NoStaleAnswer
<1> QED BY <1>1, AllFlagsInvariant, PTL

\* It holds for each flag by itself: however the changes of other flags overlap,
\* they cannot make this one stale.
THEOREM FlagTheorem ==
    ASSUME NEW k \in Keys
    PROVE  FenceHolds /\ Spec /\ []Apart(k) => [](Matches(k) /\ NeverStale(k))
<1>1. TypeOK /\ FlagInv(k) => Matches(k) /\ NeverStale(k)
  BY PromiseServes DEF FlagInv
<1> QED BY <1>1, FlagInvariant, PTL

\* One operator for each flag is a way to keep its changes apart.
OneOwner == \A v, w \in Writers : v # w => Owns[v] \cap Owns[w] = {}

OwnersChange == \A w \in Writers : wpc[w] # "idle" => change[w].key \in Owns[w]

THEOREM OwnersTheorem == OneOwner /\ Spec => []AllApart
<1>1. Init => OwnersChange
  BY DEF Init, OwnersChange
<1>2. TypeOK /\ OwnersChange /\ [Next]_vars => OwnersChange'
  <2> SUFFICES ASSUME TypeOK, OwnersChange, [Next]_vars PROVE OwnersChange'
    OBVIOUS
  <2>1. ASSUME NEW w \in Writers, NEW j \in Keys,
               Create(w, j) \/ Update(w, j) \/ Delete(w, j)
        PROVE  OwnersChange'
    <3>1. PICK row \in Row, next \in {"reread", "incr"} : Commit(w, j, row, next)
      BY <2>1, CommitShape
    <3>2. /\ wpc' = [wpc EXCEPT ![w] = next] /\ j \in Owns[w]
          /\ change' = [change EXCEPT ![w] = [key |-> j, row |-> row]]
      BY <3>1 DEF Commit, WriterAt
    <3>3. change'[w].key = j
      BY <3>2 DEF TypeOK
    <3>4. \A v \in Writers \ {w} : wpc'[v] = wpc[v] /\ change'[v] = change[v]
      BY <3>2 DEF TypeOK
    <3> QED BY <3>2, <3>3, <3>4 DEF OwnersChange
  <2>2. ASSUME NEW w \in Writers, WriterStep(w) PROVE OwnersChange'
    <3>1. /\ wpc[w] # "idle"
          /\ \A v \in Writers \ {w} : wpc'[v] = wpc[v] /\ change'[v] = change[v]
      BY <2>2, WriterFrame
    <3>2. wpc'[w] = "idle" \/ change'[w].key = change[w].key
      BY <2>2 DEF TypeOK, WriterStep, Reread, RereadGone, IncrEpoch, WriteField,
         CheckTtl, SetTtl, Publish, NotifyFails, Return, WriterAt
    <3> QED BY <3>1, <3>2 DEF OwnersChange
  <2>3. CASE UNCHANGED <<wpc, change>>
    BY <2>3 DEF OwnersChange
  <2> QED
    BY <2>1, <2>2, <2>3
    DEF Next, vars, writers, Evaluate, CacheReadFails, Ruleset, Arrive, ReaderStep,
        HExists, ReadEpoch, Build, Watch, Exec, Respond, EpochReadFails,
        PublishFails, Expire, Restart
<1>3. OneOwner /\ OwnersChange => AllApart
  BY DEF OneOwner, OwnersChange, AllApart, Apart, Changes
<1>4. CASE OneOwner
  BY <1>1, <1>2, <1>3, <1>4, TypeCorrect, PTL DEF Spec
<1> QED BY <1>4
=============================================================================
