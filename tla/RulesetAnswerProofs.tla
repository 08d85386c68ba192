------------------------ MODULE RulesetAnswerProofs ------------------------
(***************************************************************************)
(* More proofs about RulesetCache: the expiry of the hash, evaluations     *)
(* under Redis failures, and that a flag reported missing is missing.      *)
(***************************************************************************)
EXTENDS RulesetCacheProofs

-----------------------------------------------------------------------------
(* The TTL safety net.                                                     *)

LEMMA FieldGone ==
    ASSUME NEW k \in Keys, NEW row, TypeOK, field' = [field EXCEPT ![k] = row],
           ~row.live, UNCHANGED complete, Exists'
    PROVE  Exists
BY DEF Exists, TypeOK

\* A step that keeps the expiry does not make a hash, and leaves the writers that
\* are about to set an expiry where they are, keeps the safety net.
LEMMA ExpiryFrame ==
    ASSUME HashExpires, Exists' => Exists, ttl => ttl' \/ ~Exists',
           \A w \in Writers : wpc[w] \in {"ttl", "expire"} =>
              wpc'[w] \in {"ttl", "expire"} \/ ttl' \/ ~Exists'
    PROVE  HashExpires'
BY DEF HashExpires

LEMMA ExpiryWriter ==
    ASSUME TypeOK, HashExpires, "notify" \notin Faults, NEW w \in Writers,
           WriterStep(w)
    PROVE  HashExpires'
<1> USE DEF WriterAt
<1>1. CASE Reread(w) \/ RereadGone(w) \/ IncrEpoch(w) \/ Publish(w)
  <2>1. /\ UNCHANGED <<field, complete, ttl>>
        /\ wpc[w] \notin {"ttl", "expire"}
        /\ \A v \in Writers \ {w} : wpc'[v] = wpc[v]
    BY <1>1 DEF Reread, RereadGone, IncrEpoch, Publish, Return, redis, TypeOK
  <2> QED BY <2>1, ExpiryFrame DEF Exists
<1>2. CASE WriteField(w)
  <2>1. /\ wpc[w] = "field" /\ UNCHANGED complete
        /\ wpc' = [wpc EXCEPT ![w] = IF change[w].row.live THEN "ttl" ELSE "publish"]
        /\ field' = [field EXCEPT ![change[w].key] = Payload(change[w].row)]
        /\ ttl' = (ttl /\ Exists')
    BY <1>2 DEF WriteField
  <2>2. change[w].key \in Keys
    BY DEF TypeOK
  <2>3. CASE change[w].row.live
    BY <2>1, <2>3 DEF HashExpires, TypeOK
  <2>4. CASE ~change[w].row.live
    <3>1. Exists' => Exists
      <4>1. ~Payload(change[w].row).live
        BY <2>4 DEF Payload, Absent
      <4> QED BY <2>1, <2>2, <4>1, FieldGone
    <3>2. \A v \in Writers : wpc[v] \in {"ttl", "expire"} => wpc'[v] = wpc[v]
      BY <2>1 DEF TypeOK
    <3> QED BY <2>1, <3>1, <3>2, ExpiryFrame
  <2> QED BY <2>3, <2>4
<1>3. CASE CheckTtl(w)
  <2>1. /\ UNCHANGED <<field, complete, ttl>> /\ wpc[w] = "ttl"
        /\ \A v \in Writers \ {w} : wpc'[v] = wpc[v]
        /\ ttl \/ wpc'[w] = "expire"
    BY <1>3 DEF CheckTtl, redis, TypeOK
  <2> QED BY <2>1, ExpiryFrame DEF Exists
<1>5. CASE SetTtl(w)
  <2>1. UNCHANGED <<field, complete>> /\ ttl' = Exists
    BY <1>5 DEF SetTtl
  <2>2. ttl' \/ ~Exists'
    BY <2>1, Zenon DEF Exists
  <2> QED BY <2>2 DEF HashExpires
<1>4. ~NotifyFails(w)
  BY DEF NotifyFails
<1> QED BY <1>1, <1>2, <1>3, <1>4, <1>5 DEF WriterStep

LEMMA ExpiryStep ==
    TypeOK /\ HashExpires /\ "notify" \notin Faults /\ [Next]_vars => HashExpires'
<1> SUFFICES ASSUME TypeOK, HashExpires, "notify" \notin Faults, [Next]_vars
             PROVE  HashExpires'
  OBVIOUS
<1>1. ASSUME UNCHANGED <<field, complete, ttl>>,
             \A w \in Writers : wpc[w] \in {"ttl", "expire"} => wpc'[w] = wpc[w]
      PROVE  HashExpires'
  BY <1>1, ExpiryFrame DEF Exists
<1>2. ASSUME NEW w \in Writers, NEW k \in Keys,
             Create(w, k) \/ Update(w, k) \/ Delete(w, k)
      PROVE  HashExpires'
  <2>1. UNCHANGED <<field, complete, ttl>>
    BY <1>2 DEF Create, Update, Delete, Commit, redis
  <2>2. wpc[w] = "idle" /\ \A v \in Writers \ {w} : wpc'[v] = wpc[v]
    BY <1>2 DEF Create, Update, Delete, Commit, WriterAt, TypeOK
  <2> QED BY <1>1, <2>1, <2>2
<1>3. ASSUME NEW w \in Writers, WriterStep(w) PROVE HashExpires'
  BY <1>3, ExpiryWriter
<1>4. ASSUME NEW r \in Readers, Exec(r) PROVE HashExpires'
  <2>1. CASE UNCHANGED redis
    BY <1>1, <1>4, <2>1 DEF Exec, redis, writers
  <2>2. CASE ttl'
    BY <2>2 DEF HashExpires
  <2> QED BY <1>4, <2>1, <2>2 DEF Exec
<1>5. ASSUME NEW r \in Readers, ReaderStep(r), ~Exec(r) PROVE HashExpires'
  BY <1>1, <1>5 DEF ReaderStep, HExists, ReadEpoch, Build, Watch, Respond,
     EpochReadFails, PublishFails, redis, writers
<1>6. CASE Expire \/ Restart
  <2>1. ~Exists'
    BY <1>6 DEF Expire, Restart, Exists, Nothing, Absent
  <2> QED BY <2>1 DEF HashExpires
<1>7. CASE UNCHANGED <<redis, writers>>
  BY <1>1, <1>7 DEF redis, writers
<1> QED BY <1>2, <1>3, <1>4, <1>5, <1>6, <1>7
        DEF Next, vars, Evaluate, CacheReadFails, Ruleset, Arrive

\* Unless an announcement fails in the middle, a hash without an expiry is one
\* whose expiry a writer is about to set: any number of writers and rebuilds.
THEOREM ExpiryTheorem == "notify" \notin Faults /\ Spec => []HashExpires
<1>1. Init => HashExpires
  BY DEF Init, HashExpires, Exists, Nothing, Absent
<1>2. CASE "notify" \notin Faults
  BY <1>1, <1>2, ExpiryStep, TypeCorrect, PTL DEF Spec
<1> QED BY <1>2
-----------------------------------------------------------------------------
(* Evaluations when Redis fails.                                           *)

\* Numbers only grow, and every row that anybody holds is one that was there:
\* nothing is numbered, or was inserted, later than the database row.
NumberInv ==
    /\ \A k \in Keys : acked[k].n <= db[k].n /\ acked[k].born <= db[k].n
    /\ \A w \in Writers : LET c == change[w] IN
          c.row.n <= db[c.key].n /\ c.row.born <= db[c.key].n
    /\ \A k \in Keys : db[k].born <= db[k].n
    /\ \A r \in Readers, k \in Keys :
          floor[r][k].n <= acked[k].n /\ floor[r][k].born <= db[k].n

RowNumbers(row) == row.n \in Nat /\ row.born \in Nat

LEMMA AllNumbers ==
    ASSUME TypeOK
    PROVE  /\ \A k \in Keys : RowNumbers(db[k]) /\ RowNumbers(acked[k])
           /\ \A w \in Writers : change[w].key \in Keys /\ RowNumbers(change[w].row)
           /\ \A r \in Readers, k \in Keys : RowNumbers(floor[r][k])
           /\ \A r \in Readers, k \in Keys : RowNumbers(view[r][k])
<1>1. \A row \in Row : RowNumbers(row)
  BY DEF Row, RowNumbers
<1>2. ASSUME NEW w \in Writers PROVE change[w].key \in Keys /\ change[w].row \in Row
  BY DEF TypeOK
<1>3. /\ \A k \in Keys : db[k] \in Row /\ acked[k] \in Row
      /\ \A r \in Readers, k \in Keys : floor[r][k] \in Row /\ view[r][k] \in Row
  BY DEF TypeOK
<1> QED BY <1>1, <1>2, <1>3

\* What a commit does, with the row's identity.
LEMMA CommitNumbers ==
    ASSUME TypeOK, NEW w \in Writers, NEW k \in Keys,
           Create(w, k) \/ Update(w, k) \/ Delete(w, k)
    PROVE  \E row \in Row, next \in {"reread", "incr"} :
              /\ row.n = db[k].n + 1
              /\ \/ row.born = db[k].n + 1
                 \/ row.born = db[k].born /\ (row.live => db[k].live)
              /\ Commit(w, k, row, next)
<1>1. db[k] \in Row
  BY DEF TypeOK
<1>2. CASE Create(w, k)
  <2> DEFINE row == [n |-> db[k].n + 1, born |-> db[k].n + 1, live |-> TRUE]
  <2>1. row \in Row /\ row.n = db[k].n + 1 /\ row.born = db[k].n + 1
    BY <1>1 DEF Row
  <2>2. Commit(w, k, row, "reread")
    BY <1>2 DEF Create
  <2> HIDE DEF row
  <2> QED BY <2>1, <2>2
<1>3. CASE Update(w, k)
  <2> DEFINE row == [db[k] EXCEPT !.n = @ + 1]
  <2>1. row \in Row /\ row.n = db[k].n + 1 /\ row.born = db[k].born
    BY <1>1, RowUpdate DEF Row
  <2>2. Commit(w, k, row, "reread") /\ db[k].live
    BY <1>3 DEF Update
  <2> HIDE DEF row
  <2> QED BY <2>1, <2>2
<1>4. CASE Delete(w, k)
  <2> DEFINE row == [db[k] EXCEPT !.n = @ + 1, !.live = FALSE]
  <2>1. row \in Row /\ row.n = db[k].n + 1 /\ row.born = db[k].born /\ ~row.live
    BY <1>1, RowUpdate DEF Row
  <2>2. Commit(w, k, row, "incr")
    BY <1>4 DEF Delete
  <2> HIDE DEF row
  <2> QED BY <2>1, <2>2
<1> QED BY <1>2, <1>3, <1>4

LEMMA NumberInit == Init => NumberInv
<1> SUFFICES ASSUME Init PROVE NumberInv
  OBVIOUS
<1>1. \A k \in Keys : /\ db[k].n \in Nat /\ db[k].born = db[k].n
                      /\ acked[k].n = db[k].n /\ acked[k].born = db[k].n
  BY DEF Init, Absent
<1>2. \A w \in Writers : /\ change[w].row.n = 0 /\ change[w].row.born = 0
                         /\ change[w].key \in Keys
  BY NoChangeType DEF Init, NoChange, Absent
<1>3. \A r \in Readers, k \in Keys : floor[r][k].n = 0 /\ floor[r][k].born = 0
  BY DEF Init, Nothing, Absent
<1> QED BY <1>1, <1>2, <1>3 DEF NumberInv
\* Database rows only get newer, and what is acknowledged, announced or held by a
\* request is one of them: that is all that NumberInv needs.
LEMMA NumberFrame ==
    ASSUME TypeOK, TypeOK', NumberInv,
           \A k \in Keys : db'[k].n >= db[k].n /\ db'[k].born <= db'[k].n,
           \A k \in Keys : \/ acked'[k] = acked[k]
                           \/ /\ acked'[k].n >= acked[k].n /\ acked'[k].n <= db[k].n
                              /\ acked'[k].born <= db[k].n,
           \A w \in Writers : \/ change'[w] = change[w]
                              \/ change'[w] = NoChange
                              \/ change'[w].row = db'[change'[w].key],
           \A r \in Readers, k \in Keys :
              floor'[r][k] \in {floor[r][k], acked[k], Absent}
    PROVE  NumberInv'
<1> USE AllNumbers DEF RowNumbers
<1>1. ASSUME NEW k \in Keys
      PROVE  /\ db[k].n \in Nat /\ db'[k].n \in Nat /\ acked'[k].n \in Nat
             /\ acked'[k].born \in Nat /\ acked[k].n \in Nat /\ acked[k].born \in Nat
  <2>1. db'[k] \in Row /\ acked'[k] \in Row
    BY DEF TypeOK
  <2> QED BY <2>1 DEF Row
<1>2. ASSUME NEW k \in Keys PROVE acked'[k].n <= db'[k].n /\ acked'[k].born <= db'[k].n
  <2>1. acked'[k].n <= db[k].n /\ acked'[k].born <= db[k].n
    BY DEF NumberInv
  <2> QED BY <1>1, <2>1
<1>3. ASSUME NEW w \in Writers
      PROVE  LET c == change'[w] IN
             c.row.n <= db'[c.key].n /\ c.row.born <= db'[c.key].n
  <2>1. change'[w].key \in Keys
    BY DEF TypeOK
  <2>2. CASE change'[w] = change[w]
    <3>1. /\ change[w].row.n <= db[change[w].key].n
          /\ change[w].row.born <= db[change[w].key].n
          /\ change[w].row.n \in Nat /\ change[w].row.born \in Nat
      BY DEF NumberInv
    <3> QED BY <1>1, <2>1, <2>2, <3>1
  <2>3. CASE change'[w] = NoChange
    <3>1. change'[w].row.n = 0 /\ change'[w].row.born = 0
      BY <2>3 DEF NoChange, Absent
    <3> QED BY <1>1, <2>1, <3>1
  <2>4. CASE change'[w].row = db'[change'[w].key]
    BY <1>1, <2>1, <2>4
  <2> QED BY <2>2, <2>3, <2>4
<1>4. ASSUME NEW r \in Readers, NEW k \in Keys
      PROVE  floor'[r][k].n <= acked'[k].n /\ floor'[r][k].born <= db'[k].n
  <2>1. acked'[k].n >= acked[k].n
    BY <1>1
  <2>2. CASE floor'[r][k] = floor[r][k]
    <3>1. /\ floor[r][k].n <= acked[k].n /\ floor[r][k].born <= db[k].n
          /\ floor[r][k].n \in Nat /\ floor[r][k].born \in Nat
      BY DEF NumberInv
    <3> QED BY <1>1, <2>1, <2>2, <3>1
  <2>3. CASE floor'[r][k] = acked[k]
    <3>1. acked[k].born <= db[k].n
      BY DEF NumberInv
    <3> QED BY <1>1, <2>1, <2>3, <3>1
  <2>4. CASE floor'[r][k] = Absent
    BY <1>1, <2>4 DEF Absent
  <2> QED BY <2>2, <2>3, <2>4
<1> QED BY <1>2, <1>3, <1>4 DEF NumberInv

LEMMA NumberStep == TypeOK /\ NumberInv /\ [Next]_vars => NumberInv'
<1> SUFFICES ASSUME TypeOK, NumberInv, [Next]_vars PROVE NumberInv'
  OBVIOUS
<1>0. /\ TypeOK'
      /\ \A k \in Keys : /\ db[k].n >= db[k].n /\ db[k].born <= db[k].n
                         /\ db[k].n \in Nat /\ db[k].born \in Nat
  BY TypeStep, AllNumbers DEF NumberInv, RowNumbers
<1>1. ASSUME NEW w \in Writers, NEW k \in Keys,
             Create(w, k) \/ Update(w, k) \/ Delete(w, k)
      PROVE  NumberInv'
  <2>1. PICK row \in Row, next \in {"reread", "incr"} :
           /\ row.n = db[k].n + 1 /\ (row.born = db[k].n + 1 \/ row.born = db[k].born)
           /\ Commit(w, k, row, next)
    BY <1>1, CommitNumbers
  <2>2. /\ db' = [db EXCEPT ![k] = row]
        /\ change' = [change EXCEPT ![w] = [key |-> k, row |-> row]]
        /\ UNCHANGED <<acked, floor>>
    BY <2>1 DEF Commit, readers
  <2>3. row.n >= db[k].n /\ row.born <= row.n
    BY <1>0, <2>1
  <2>4. \A j \in Keys : db'[j] = db[j] \/ (j = k /\ db'[j] = row)
    BY <2>2 DEF TypeOK
  <2>5. \A v \in Writers : change'[v] = change[v] \/ change'[v].row = db'[change'[v].key]
    BY <2>2 DEF TypeOK
  <2> QED BY <1>0, <2>2, <2>3, <2>4, <2>5, NumberFrame
<1>2. ASSUME NEW w \in Writers, WriterStep(w) PROVE NumberInv'
  <2>1. UNCHANGED <<db, floor>>
    BY <1>2 DEF WriterStep, Reread, RereadGone, IncrEpoch, WriteField, CheckTtl,
       SetTtl, Publish, NotifyFails, Return, readers
  <2>2. CASE Return(w)
    <3>1. change' = [change EXCEPT ![w] = NoChange]
      BY <2>2 DEF Return
    <3>2. \A k \in Keys : \/ acked'[k] = acked[k]
                          \/ /\ k = change[w].key /\ acked'[k] = change[w].row
                             /\ change[w].row.n > acked[k].n
      BY <2>2 DEF Return, TypeOK
    <3>3. /\ change[w].row.n <= db[change[w].key].n
          /\ change[w].row.born <= db[change[w].key].n
      BY DEF NumberInv
    <3>4. \A k \in Keys : acked'[k].n >= acked[k].n
      BY <3>2, AllNumbers DEF RowNumbers
    <3>5. \A v \in Writers : change'[v] = change[v] \/ change'[v] = NoChange
      BY <3>1 DEF TypeOK
    <3> QED BY <1>0, <2>1, <3>2, <3>3, <3>4, <3>5, NumberFrame
  <2>3. CASE ~Return(w)
    <3>1. UNCHANGED acked
      BY <1>2, <2>3 DEF WriterStep, Reread, RereadGone, IncrEpoch, WriteField,
         CheckTtl, SetTtl, Publish, NotifyFails
    <3>2. \A v \in Writers : \/ change'[v] = change[v] \/ change'[v] = NoChange
                             \/ change'[v].row = db'[change'[v].key]
      <4>1. CASE Reread(w)
        <5>1. \/ change' = change
              \/ change' = [change EXCEPT ![w].row = db[change[w].key]]
          BY <4>1 DEF Reread
        <5>2. change \in [Writers -> [key : Keys, row : Row]]
          BY DEF TypeOK
        <5>3. CASE change' = [change EXCEPT ![w].row = db[change[w].key]]
          <6>1. /\ change'[w].row = db[change[w].key]
                /\ change'[w].key = change[w].key
                /\ \A v \in Writers \ {w} : change'[v] = change[v]
            BY <5>2, <5>3
          <6> QED BY <2>1, <6>1
        <5> QED BY <5>1, <5>3
      <4>2. CASE RereadGone(w)
        BY <4>2 DEF RereadGone, TypeOK
      <4>3. CASE ~Reread(w) /\ ~RereadGone(w)
        BY <1>2, <2>3, <4>3 DEF WriterStep, IncrEpoch, WriteField, CheckTtl, SetTtl,
           Publish, NotifyFails
      <4> QED BY <4>1, <4>2, <4>3
    <3> QED BY <1>0, <2>1, <3>1, <3>2, NumberFrame
  <2> QED BY <2>2, <2>3
<1>3. ASSUME UNCHANGED <<db, acked, change>>,
             \A r \in Readers, k \in Keys :
                floor'[r][k] \in {floor[r][k], acked[k], Absent}
      PROVE  NumberInv'
  BY <1>0, <1>3, NumberFrame
<1>4. ASSUME NEW r \in Readers, NEW keys, NEW seen, NEW next,
             Arrive(r, keys, seen, next)
      PROVE  NumberInv'
  BY <1>3, <1>4 DEF Arrive, writers, TypeOK
<1>5. ASSUME NEW r \in Readers, ReaderStep(r) PROVE NumberInv'
  <2>1. UNCHANGED <<db, acked, change>>
    BY <1>5 DEF ReaderStep, HExists, ReadEpoch, Build, Watch, Exec, Respond,
       EpochReadFails, PublishFails, writers
  <2>2. floor' = floor \/ floor' = [floor EXCEPT ![r] = Nothing]
    BY <1>5 DEF ReaderStep, HExists, ReadEpoch, Build, Watch, Exec, Respond,
       EpochReadFails, PublishFails
  <2>3. \A q \in Readers, k \in Keys : floor'[q][k] \in {floor[q][k], Absent}
    <3>1. floor \in [Readers -> [Keys -> Row]]
      BY DEF TypeOK
    <3>2. \A q \in Readers : floor'[q] = floor[q] \/ floor'[q] = Nothing
      BY <2>2, <3>1
    <3> QED BY <3>2 DEF Nothing
  <2> QED BY <1>3, <2>1, <2>3
<1>6. CASE UNCHANGED <<db, acked, change, floor>>
  BY <1>3, <1>6
<1> QED BY <1>1, <1>2, <1>4, <1>5, <1>6
        DEF Next, vars, writers, readers, Evaluate, CacheReadFails, Ruleset, Readers,
            Expire, Restart
\* What an evaluation has read from Postgres is as new as what was acknowledged
\* when it arrived, and nothing has made it fail.
SurvivalInv ==
    \A r \in Evaluators :
        /\ rpc[r] # "failed"
        /\ rpc[r] \in {"watch", "exec", "published"} =>
              \A k \in Keys : view[r][k].n >= floor[r][k].n

LEMMA SurvivalStep ==
    TypeOK /\ NumberInv /\ SurvivalInv /\ [Next]_vars => SurvivalInv'
<1> SUFFICES ASSUME TypeOK, NumberInv, SurvivalInv, [Next]_vars PROVE SurvivalInv'
  OBVIOUS
<1> USE DEF ReaderAt
<1>1. ASSUME NEW r \in Readers, NEW keys, NEW seen, NEW next,
             Arrive(r, keys, seen, next),
             next \in {"answered", "hexists", "epoch"} \/ r \notin Evaluators
      PROVE  SurvivalInv'
  <2>1. \A q \in Readers \ {r} : /\ rpc'[q] = rpc[q] /\ view'[q] = view[q]
                                  /\ floor'[q] = floor[q]
    BY <1>1 DEF Arrive, TypeOK
  <2>2. rpc'[r] = next
    BY <1>1 DEF Arrive, TypeOK
  <2> QED BY <1>1, <2>1, <2>2 DEF SurvivalInv, Readers
<1>2. ASSUME NEW r \in Readers, ReaderStep(r) PROVE SurvivalInv'
  <2>1. \A q \in Readers \ {r} : /\ rpc'[q] = rpc[q] /\ view'[q] = view[q]
                                  /\ floor'[q] = floor[q]
    BY <1>2 DEF ReaderStep, HExists, ReadEpoch, Build, Watch, Exec, Respond,
       EpochReadFails, PublishFails, TypeOK
  <2>2. SUFFICES ASSUME r \in Evaluators
                 PROVE  /\ rpc'[r] # "failed"
                        /\ rpc'[r] \in {"watch", "exec", "published"} =>
                              \A k \in Keys : view'[r][k].n >= floor'[r][k].n
    BY <2>1, <2>2 DEF SurvivalInv, Readers
  <2>3. CASE Build(r)
    <3>1. view'[r] = db /\ floor' = floor /\ rpc'[r] \in {"watch", "exec"}
      BY <2>3 DEF Build, TypeOK
    <3>2. ASSUME NEW k \in Keys PROVE db[k].n >= floor[r][k].n
      <4>1. floor[r][k].n <= acked[k].n /\ acked[k].n <= db[k].n
        BY DEF NumberInv
      <4> QED BY <4>1, AllNumbers DEF RowNumbers
    <3> QED BY <3>1, <3>2
  <2>4. CASE HExists(r) \/ ReadEpoch(r) \/ EpochReadFails(r) \/ Respond(r)
    BY <2>2, <2>4 DEF HExists, ReadEpoch, EpochReadFails, Respond, Degrade, TypeOK
  <2>5. CASE Watch(r) \/ Exec(r) \/ PublishFails(r)
    <3>1. /\ rpc[r] \in {"watch", "exec"} /\ UNCHANGED <<view, floor>>
          /\ rpc'[r] \in {"exec", "published", "answered"}
      BY <2>2, <2>5 DEF Watch, Exec, Outcomes, PublishFails, Degrade, TypeOK
    <3> QED BY <2>2, <3>1 DEF SurvivalInv
  <2> QED BY <1>2, <2>3, <2>4, <2>5 DEF ReaderStep
<1>3. CASE UNCHANGED <<rpc, view, floor>>
  BY <1>3 DEF SurvivalInv
<1>4. ASSUME NEW r \in Evaluators, NEW k \in Keys, Evaluate(r, k) \/ CacheReadFails(r, {k})
      PROVE  SurvivalInv'
  BY <1>1, <1>4 DEF Evaluate, CacheReadFails, Degrade, Readers
<1>5. ASSUME NEW r \in Bootstraps, Ruleset(r) \/ CacheReadFails(r, Keys)
      PROVE  SurvivalInv'
  BY <1>1, <1>5, ReadersAssumption DEF Ruleset, CacheReadFails, Readers
<1> QED BY <1>2, <1>3, <1>4, <1>5
        DEF Next, vars, readers, Create, Update, Delete, Commit, WriterStep, Reread,
            RereadGone, IncrEpoch, WriteField, CheckTtl, SetTtl, Publish, NotifyFails,
            Return, Expire, Restart

\* Whatever Redis does, also to several writers of a flag, an evaluation is
\* answered, and one that went to Postgres is answered with what was in effect
\* when it arrived or something newer.
THEOREM SurvivalTheorem == Spec => []EvaluateSurvivesRedis
<1>1. Init => NumberInv /\ SurvivalInv
  BY NumberInit DEF Init, SurvivalInv, Readers
<1>2. TypeOK /\ SurvivalInv => EvaluateSurvivesRedis
  BY DEF SurvivalInv, EvaluateSurvivesRedis, TypeOK, Readers
<1> QED BY <1>1, <1>2, TypeCorrect, NumberStep, SurvivalStep, PTL DEF Spec
-----------------------------------------------------------------------------
(* A flag that is reported missing is missing.                             *)

\* What a reader has read stands for the whole ruleset, or may come to.
ReadsWhole(r) ==
    \/ rpc[r] \in {"watch", "exec", "published"}
    \/ r \in Bootstraps /\ rpc[r] = "answered"
    \/ whole[r] /\ rpc[r] \in {"hexists", "answered"}

\* What a complete hash, or a snapshot that may become one, lacks was not there
\* when the last acknowledged change was made, or is not there any more; and so
\* for what a request has been told, since it arrived.
ReaderWhole(r, k) ==
    /\ rpc[r] = "hexists" => r \in Evaluators
    /\ ReadsWhole(r) /\ ~view[r][k].live => ~StillThere(floor[r][k], db[k])
    /\ rpc[r] \in {"watch", "exec"} /\ fence[r] = epoch /\ ~view[r][k].live
         => ~StillThere(acked[k], db[k])

WholeInv(k) ==
    /\ complete /\ ~field[k].live => ~StillThere(acked[k], db[k])
    /\ \A r \in Readers : ReaderWhole(r, k)

\* A row that is gone does not come back: a new one has a new identity.
LEMMA GoneStays ==
    ASSUME TypeOK, NumberInv, NEW w \in Writers, NEW k \in Keys,
           Create(w, k) \/ Update(w, k) \/ Delete(w, k),
           NEW j \in Keys, NEW old \in Row, old.born <= db[j].n,
           ~StillThere(old, db[j])
    PROVE  ~StillThere(old, db'[j])
<1>1. PICK row \in Row, next \in {"reread", "incr"} :
         /\ row.n = db[k].n + 1
         /\ row.born = db[k].n + 1 \/ (row.born = db[k].born /\ (row.live => db[k].live))
         /\ Commit(w, k, row, next)
  BY CommitNumbers
<1>2. db'[j] = db[j] \/ (j = k /\ db'[j] = row)
  BY <1>1 DEF Commit, TypeOK
<1>3. CASE j = k /\ db'[j] = row
  <2>1. db[k].n \in Nat /\ old.born \in Nat
    BY DEF TypeOK, Row
  <2>2. CASE row.born = db[k].n + 1
    BY <1>3, <2>1, <2>2 DEF StillThere
  <2>3. CASE row.born = db[k].born /\ (row.live => db[k].live)
    BY <1>3, <2>3 DEF StillThere
  <2> QED BY <1>1, <2>2, <2>3
<1> QED BY <1>2, <1>3

LEMMA WholeCommit ==
    ASSUME TypeOK, NumberInv, NEW k \in Keys, WholeInv(k),
           NEW w \in Writers, NEW j \in Keys,
           Create(w, j) \/ Update(w, j) \/ Delete(w, j)
    PROVE  WholeInv(k)'
<1>1. UNCHANGED <<acked, field, complete, epoch, rpc, view, fence, floor, whole>>
  BY DEF Create, Update, Delete, Commit, redis, readers
<1>2. ASSUME ~StillThere(acked[k], db[k]) PROVE ~StillThere(acked[k], db'[k])
  <2>1. acked[k] \in Row /\ acked[k].born <= db[k].n
    BY DEF TypeOK, NumberInv
  <2> QED BY <1>2, <2>1, GoneStays
<1>3. ASSUME NEW r \in Readers, ~StillThere(floor[r][k], db[k])
      PROVE  ~StillThere(floor[r][k], db'[k])
  <2>1. floor[r][k] \in Row /\ floor[r][k].born <= db[k].n
    BY DEF TypeOK, NumberInv
  <2> QED BY <1>3, <2>1, GoneStays
<1>4. ASSUME NEW r \in Readers PROVE ReaderWhole(r, k)'
  BY <1>1, <1>2, <1>3 DEF WholeInv, ReaderWhole, ReadsWhole, StillThere
<1> QED BY <1>1, <1>2, <1>4 DEF WholeInv, StillThere

\* The request of a change returns: it has announced it, so nobody who may still
\* publish, and no hash, lacks the flag if it is there.
LEMMA WholeReturn ==
    ASSUME TypeOK, FenceInv, NEW k \in Keys, FlagInv(k), Apart(k), WholeInv(k),
           NEW w \in Writers, Publish(w), change[w].key = k
    PROVE  WholeInv(k)'
<1>1. UNCHANGED <<db, field, complete, epoch, rpc, view, fence, floor, whole>>
  BY DEF Publish, Return, redis, readers
<1>2. /\ complete => field[k] = Payload(db[k])
      /\ \A r \in Readers : rpc[r] \in {"watch", "exec"} /\ fence[r] = epoch
                              => view[r][k] = db[k]
  BY ReturnSettled DEF FlagInv
<1>3. complete /\ ~field[k].live => ~db[k].live
  BY <1>2 DEF Payload
<1>4. ASSUME NEW r \in Readers PROVE ReaderWhole(r, k)'
  BY <1>1, <1>2 DEF WholeInv, ReaderWhole, ReadsWhole, StillThere
<1> QED BY <1>1, <1>3, <1>4 DEF WholeInv, StillThere

LEMMA WholeWriter ==
    ASSUME TypeOK, FenceInv, FenceHolds, NEW k \in Keys, FlagInv(k), Apart(k),
           WholeInv(k), NEW w \in Writers, WriterStep(w)
    PROVE  WholeInv(k)'
<1>1. UNCHANGED <<db, complete, rpc, view, fence, floor, whole>>
  BY WriterFrame
<1>2. \A r \in Readers : rpc[r] \in {"watch", "exec"} /\ fence[r] = epoch'
                           => fence[r] = epoch
  <2>1. epoch' = epoch \/ epoch' = epoch + 1
    BY DEF WriterStep, Reread, RereadGone, IncrEpoch, WriteField, CheckTtl, SetTtl,
       Publish, NotifyFails, Return, redis
  <2> QED BY <2>1 DEF FenceInv, TypeOK, NoFence
<1>3. ASSUME acked'[k] = acked[k], complete /\ ~field'[k].live => ~field[k].live \/ ~db[k].live
      PROVE  WholeInv(k)'
  <2>1. ASSUME NEW r \in Readers PROVE ReaderWhole(r, k)'
    BY <1>1, <1>2, <1>3 DEF WholeInv, ReaderWhole, ReadsWhole, StillThere
  <2> QED BY <1>1, <1>3, <2>1 DEF WholeInv, StillThere
<1>4. CASE Publish(w) /\ change[w].key = k
  BY <1>4, WholeReturn
<1>5. CASE ~Changes(w, k)
  BY <1>3, <1>5, OtherStep
<1>6. CASE Changes(w, k) /\ ~Publish(w)
  <2>1. /\ change[w].key = k /\ change[w].row = db[k]
        /\ ~RereadGone(w) /\ ~NotifyFails(w)
    BY <1>6, OwnStep DEF Changes, FlagInv
  <2>2. UNCHANGED acked
    BY <1>6, <2>1 DEF WriterStep, Reread, IncrEpoch, WriteField, CheckTtl, SetTtl
  <2>3. UNCHANGED field \/ field' = [field EXCEPT ![k] = Payload(db[k])]
    BY <1>6, <2>1 DEF WriterStep, Reread, IncrEpoch, WriteField, CheckTtl, SetTtl, redis
  <2>4. field'[k] = field[k] \/ field'[k] = Payload(db[k])
    BY <2>3 DEF TypeOK
  <2> QED BY <1>3, <2>2, <2>4 DEF Payload
<1> QED BY <1>4, <1>5, <1>6 DEF Changes

LEMMA WholeReader ==
    ASSUME TypeOK, FenceInv, FenceHolds, NEW k \in Keys, WholeInv(k),
           NEW r \in Readers, ReaderStep(r)
    PROVE  WholeInv(k)'
<1> USE DEF ReaderAt
<1>1. /\ UNCHANGED <<db, acked, epoch>>
      /\ \A q \in Readers \ {r} : /\ rpc'[q] = rpc[q] /\ fence'[q] = fence[q]
                                  /\ view'[q] = view[q] /\ floor'[q] = floor[q]
                                  /\ whole'[q] = whole[q]
  <2>1. CASE Exec(r)
    BY <2>1 DEF TypeOK, Exec, redis
  <2>2. CASE ~Exec(r)
    BY <2>2 DEF TypeOK, ReaderStep, HExists, ReadEpoch, Build, Watch, Respond,
       EpochReadFails, PublishFails, redis
  <2> QED BY <2>1, <2>2
<1>2. SUFFICES /\ complete' /\ ~field'[k].live => ~StillThere(acked[k], db[k])
               /\ ReaderWhole(r, k)'
  <2>1. ASSUME NEW q \in Readers \ {r} PROVE ReaderWhole(q, k)'
    BY <1>1 DEF WholeInv, ReaderWhole, ReadsWhole, StillThere
  <2> QED BY <1>1, <1>2, <2>1 DEF WholeInv, StillThere
<1>3. ASSUME UNCHANGED <<field, complete>>
      PROVE  complete' /\ ~field'[k].live => ~StillThere(acked[k], db[k])
  BY <1>3 DEF WholeInv
<1>4. CASE HExists(r) \/ ReadEpoch(r) \/ Respond(r)
  <2>1. /\ UNCHANGED <<field, complete>>
        /\ rpc'[r] \in {"answered", "epoch", "build", "idle"}
        /\ rpc'[r] = "answered" => rpc[r] = "hexists"
        /\ rpc'[r] = "answered" => UNCHANGED <<view, floor, whole>>
    BY <1>4 DEF HExists, ReadEpoch, Respond, TypeOK, redis
  <2>2. r \in Evaluators => r \notin Bootstraps
    BY ReadersAssumption
  <2> QED BY <1>1, <1>3, <2>1, <2>2 DEF WholeInv, ReaderWhole, ReadsWhole, StillThere
<1>5. CASE Build(r)
  <2>1. /\ UNCHANGED <<field, complete, fence, floor>> /\ view'[r] = db
        /\ rpc'[r] \in {"watch", "exec"}
    BY <1>5 DEF Build, TypeOK, redis
  <2> QED BY <1>1, <1>3, <2>1 DEF ReaderWhole, StillThere
<1>6. CASE Watch(r) \/ PublishFails(r)
  <2>1. /\ UNCHANGED <<field, complete, fence, floor, view, whole>>
        /\ rpc[r] \in {"watch", "exec"} /\ rpc'[r] \in {"exec", "answered", "failed"}
    BY <1>6 DEF Watch, PublishFails, Degrade, TypeOK, redis
  <2> QED BY <1>1, <1>3, <2>1 DEF WholeInv, ReaderWhole, ReadsWhole, StillThere
<1>7. CASE Exec(r)
  <2>1. /\ rpc[r] = "exec" /\ rpc'[r] \in {"published", "answered", "failed"}
        /\ UNCHANGED <<view, floor, whole>>
    BY <1>7 DEF Exec, Outcomes, Degrade, TypeOK
  <2>2. ReaderWhole(r, k)'
    BY <1>1, <2>1 DEF WholeInv, ReaderWhole, ReadsWhole, StillThere
  <2>3. CASE UNCHANGED redis
    BY <1>3, <2>2, <2>3 DEF redis
  <2>4. CASE ~tripped[r]
    <3>1. field'[k] = Payload(view[r][k]) /\ fence[r] = epoch
      BY <1>7, <2>4 DEF Exec, FenceInv
    <3>2. ~field'[k].live => ~view[r][k].live
      BY <3>1 DEF Payload
    <3> QED BY <2>1, <2>2, <3>1, <3>2 DEF WholeInv, ReaderWhole
  <2>5. fence[r] # NoFence
    BY <2>1 DEF FenceInv
  <2> QED BY <1>7, <2>3, <2>4, <2>5 DEF Exec
<1>8. ~EpochReadFails(r)
  BY DEF EpochReadFails, FenceHolds
<1> QED BY <1>4, <1>5, <1>6, <1>7, <1>8 DEF ReaderStep

LEMMA WholeStep ==
    ASSUME TypeOK, FenceInv, FenceHolds, NumberInv, NEW k \in Keys, FlagInv(k),
           Apart(k), WholeInv(k), [Next]_vars
    PROVE  WholeInv(k)'
<1>1. ASSUME NEW w \in Writers, NEW j \in Keys,
             Create(w, j) \/ Update(w, j) \/ Delete(w, j)
      PROVE  WholeInv(k)'
  BY <1>1, WholeCommit
<1>2. ASSUME NEW r \in Readers, NEW keys \in SUBSET Keys, NEW seen, NEW next,
             Arrive(r, keys, seen, next),
             \/ next = "answered" /\ complete /\ keys = Keys /\ seen = field
             \/ next \in {"epoch", "failed"}
             \/ next = "hexists" /\ seen = field /\ r \in Evaluators
      PROVE  WholeInv(k)'
  <2>1. /\ UNCHANGED <<db, acked, field, complete, epoch>>
        /\ \A q \in Readers \ {r} : /\ rpc'[q] = rpc[q] /\ fence'[q] = fence[q]
                                    /\ view'[q] = view[q] /\ floor'[q] = floor[q]
                                    /\ whole'[q] = whole[q]
        /\ rpc'[r] = next /\ whole'[r] = complete
    BY <1>2 DEF Arrive, ReaderAt, TypeOK, redis
  <2>2. ASSUME next \in {"answered", "hexists"}
        PROVE  \/ view'[r][k] = field[k] /\ floor'[r][k] = acked[k]
               \/ ~floor'[r][k].live
    BY <1>2, <2>2 DEF Arrive, Absent, TypeOK
  <2>3. ReaderWhole(r, k)'
    BY <1>2, <2>1, <2>2, ReadersAssumption
    DEF WholeInv, ReaderWhole, ReadsWhole, StillThere
  <2>4. \A q \in Readers \ {r} : ReaderWhole(q, k)'
    BY <2>1 DEF WholeInv, ReaderWhole, ReadsWhole, StillThere
  <2> QED BY <2>1, <2>3, <2>4 DEF WholeInv, StillThere
<1>3. ASSUME NEW r \in Evaluators, NEW j \in Keys, Evaluate(r, j) \/ CacheReadFails(r, {j})
      PROVE  WholeInv(k)'
  BY <1>2, <1>3 DEF Evaluate, CacheReadFails, Degrade, Readers
<1>4. ASSUME NEW r \in Bootstraps, Ruleset(r) \/ CacheReadFails(r, Keys)
      PROVE  WholeInv(k)'
  BY <1>2, <1>4 DEF Ruleset, CacheReadFails, Degrade, Readers
<1>5. CASE Expire \/ UNCHANGED vars
  <2>1. /\ UNCHANGED <<db, acked, epoch, rpc, view, fence, floor, whole>>
        /\ ~complete' \/ UNCHANGED <<field, complete>>
    BY <1>5 DEF Expire, vars, redis, readers
  <2> QED BY <2>1 DEF WholeInv, ReaderWhole, ReadsWhole, StillThere
<1>6. ~Restart
  BY DEF Restart, FenceHolds
<1> QED BY <1>1, <1>3, <1>4, <1>5, <1>6, WholeWriter, WholeReader DEF Next

LEMMA WholeInit == ASSUME Init, NEW k \in Keys PROVE WholeInv(k)
BY DEF Init, WholeInv, ReaderWhole, ReadsWhole

LEMMA WholeAnswers ==
    ASSUME TypeOK, NEW k \in Keys, WholeInv(k)
    PROVE  NeverMissing(k)
BY DEF NeverMissing, WholeInv, ReaderWhole, ReadsWhole, TypeOK

\* If requests that change one flag do not overlap no bootstrap, and no evaluation
\* but a torn one, is told that a flag is missing which has been there since it
\* arrived, whatever partial hashes, rebuilds and expiries come between.
THEOREM WholeTheorem == FenceHolds /\ Spec /\ []AllApart => []RulesetIsWhole
<1> DEFINE Flags  == \A k \in Keys : FlagInv(k)
           Wholes == \A k \in Keys : WholeInv(k)
<1>1. Init => NumberInv /\ Wholes
  BY NumberInit, WholeInit
<1>2. Wholes /\ TypeOK => RulesetIsWhole
  BY WholeAnswers DEF RulesetIsWhole
<1>3. FenceHolds /\ AllApart /\ TypeOK /\ FenceInv /\ Flags /\ NumberInv /\ Wholes
        /\ [Next]_vars => Wholes'
  BY WholeStep DEF AllApart
<1>4. FenceHolds /\ Spec /\ []AllApart => [](TypeOK /\ FenceInv /\ Flags)
  BY AllFlagsInvariant
<1> HIDE DEF Flags, Wholes
<1>5. CASE FenceHolds
  BY <1>1, <1>2, <1>3, <1>4, <1>5, NumberStep, PTL DEF Spec
<1> QED BY <1>5

\* That, too, holds for each flag by itself.
THEOREM FlagIsThereTheorem ==
    ASSUME NEW k \in Keys
    PROVE  FenceHolds /\ Spec /\ []Apart(k) => []NeverMissing(k)
<1>1. Init => NumberInv /\ WholeInv(k)
  BY NumberInit, WholeInit
<1>2. WholeInv(k) /\ TypeOK => NeverMissing(k)
  BY WholeAnswers
<1>3. FenceHolds /\ Apart(k) /\ TypeOK /\ FenceInv /\ FlagInv(k) /\ NumberInv
        /\ WholeInv(k) /\ [Next]_vars => WholeInv(k)'
  BY WholeStep
<1>4. CASE FenceHolds
  BY <1>1, <1>2, <1>3, <1>4, FlagInvariant, NumberStep, PTL DEF Spec
<1> QED BY <1>4
=============================================================================
