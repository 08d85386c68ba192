------------------------- MODULE RulesetServesProofs -------------------------
(***************************************************************************)
(* The ruleset cache implements ServedFlag for every flag whose changes do *)
(* not overlap, for any number of flags, writers, evaluations, bootstraps  *)
(* and commits.                                                            *)
(***************************************************************************)
EXTENDS RulesetServes, RulesetAnswerProofs

-----------------------------------------------------------------------------
(* What the rows that anybody holds say about the log.                     *)

There(i) == i > 0 /\ log[i]

\* A row that is held has its place in the log; and if the flag of it is not
\* there any more, the log says that at some time since there was none.
Held(row) ==
    /\ row.n <= Len(log)
    /\ row.live <=> There(row.n)
    /\ ~StillThere(row, db[Flag]) => \E i \in row.n .. Len(log) : ~There(i)

LogInv ==
    /\ log \in Seq(BOOLEAN)
    /\ Len(log) = db[Flag].n
    /\ Held(db[Flag])
    /\ Held(acked[Flag])
    /\ Held(field[Flag])
    /\ \A w \in Writers : change[w].key = Flag => Held(change[w].row)
    /\ \A r \in Readers : Held(view[r][Flag]) /\ Held(floor[r][Flag])

LEMMA AbsentIsHeld == ASSUME log \in Seq(BOOLEAN) PROVE Held(Absent)
<1>1. 0 \in 0 .. Len(log) /\ ~There(0) /\ 0 <= Len(log)
  BY DEF There
<1> QED BY <1>1 DEF Held, Absent

LEMMA PayloadIsHeld ==
    ASSUME log \in Seq(BOOLEAN), NEW row, Held(row)
    PROVE  Held(Payload(row))
BY AbsentIsHeld DEF Payload

LEMMA LogInit == ASSUME HistoryInit PROVE LogInv
<1>1. log \in Seq(BOOLEAN) /\ Len(log) = db[Flag].n /\ Held(db[Flag])
  <2>1. CASE db[Flag] = Absent
    <3>1. log = <<>>
      BY <2>1 DEF HistoryInit, Absent
    <3>2. log \in Seq(BOOLEAN) /\ Len(log) = 0
      BY <3>1
    <3> QED BY <2>1, <3>2, AbsentIsHeld DEF Absent
  <2>2. CASE db[Flag] = [n |-> 1, born |-> 1, live |-> TRUE]
    <3>1. db[Flag].live
      BY <2>2
    <3>2. log = <<TRUE>>
      BY <3>1, Zenon DEF HistoryInit
    <3>3. log \in Seq(BOOLEAN) /\ Len(log) = 1 /\ There(1)
      BY <3>2 DEF There
    <3> QED BY <2>2, <3>3 DEF Held, StillThere
  <2> QED BY <2>1, <2>2, FlagAssumption DEF HistoryInit, Init
<1>2. Held(Absent)
  BY <1>1, AbsentIsHeld
<1>3. /\ acked[Flag] = db[Flag] /\ field[Flag] = Absent
      /\ \A w \in Writers : change[w].row = Absent
      /\ \A r \in Readers : view[r][Flag] = Absent /\ floor[r][Flag] = Absent
  BY FlagAssumption DEF HistoryInit, Init, Nothing, NoChange
<1> QED BY <1>1, <1>2, <1>3 DEF LogInv

\* A change of the flag makes it, keeps it or ends it.
LEMMA FlagChange ==
    ASSUME TypeOK, NEW w \in Writers, Create(w, Flag) \/ Update(w, Flag) \/ Delete(w, Flag)
    PROVE  /\ db'[Flag] \in Row
           /\ db'[Flag].n = db[Flag].n + 1
           /\ \/ ~db[Flag].live /\ db'[Flag].live
              \/ db[Flag].live /\ db'[Flag].born = db[Flag].born
<1>1. db \in [Keys -> Row] /\ Flag \in Keys /\ db[Flag] \in Row
  BY FlagAssumption DEF TypeOK
<1>2. CASE Create(w, Flag)
  <2>1. db'[Flag] = [n |-> db[Flag].n + 1, born |-> db[Flag].n + 1, live |-> TRUE]
    BY <1>1, <1>2 DEF Create, Commit
  <2> QED BY <1>1, <1>2, <2>1 DEF Create, Row
<1>3. CASE Update(w, Flag)
  <2>1. db'[Flag] = [db[Flag] EXCEPT !.n = @ + 1]
    BY <1>1, <1>3 DEF Update, Commit
  <2>2. db'[Flag].n = db[Flag].n + 1 /\ db'[Flag].born = db[Flag].born
    BY <1>1, <2>1 DEF Row
  <2> QED BY <1>1, <1>3, <2>1, <2>2, RowUpdate DEF Update
<1>4. CASE Delete(w, Flag)
  <2>1. db'[Flag] = [db[Flag] EXCEPT !.n = @ + 1, !.live = FALSE]
    BY <1>1, <1>4 DEF Delete, Commit
  <2>2. db'[Flag].n = db[Flag].n + 1 /\ db'[Flag].born = db[Flag].born
    BY <1>1, <2>1 DEF Row
  <2> QED BY <1>1, <1>4, <2>1, <2>2, RowUpdate DEF Delete
<1> QED BY <1>2, <1>3, <1>4

\* What was held before a change is held after it.
LEMMA HeldStays ==
    ASSUME TypeOK, LogInv, NEW w \in Writers,
           Create(w, Flag) \/ Update(w, Flag) \/ Delete(w, Flag),
           log' = Append(log, db'[Flag].live)
    PROVE  /\ log' \in Seq(BOOLEAN) /\ Len(log') = db'[Flag].n
           /\ \A row \in Row : Held(row) => Held(row)'
           /\ Held(db[Flag])'
<1>1. /\ db'[Flag] \in Row /\ db'[Flag].n = Len(log) + 1 /\ db'[Flag].live \in BOOLEAN
      /\ \/ ~db[Flag].live /\ db'[Flag].live
         \/ db[Flag].live /\ db'[Flag].born = db[Flag].born
  BY FlagChange DEF LogInv, Row
<1>2. PICK n \in Nat : n = Len(log)
  BY DEF LogInv
<1>3. /\ log' \in Seq(BOOLEAN) /\ Len(log') = n + 1 /\ log'[n + 1] = db'[Flag].live
      /\ \A i \in 1 .. n : log'[i] = log[i]
  BY <1>1, <1>2 DEF LogInv
<1>4. There(n + 1)' <=> db'[Flag].live
  BY <1>3 DEF There
<1>5. \A i \in 0 .. n : There(i)' <=> There(i)
  BY <1>3 DEF There
<1>6. ASSUME NEW row \in Row, Held(row) PROVE Held(row)'
  <2>1. row.n \in 0 .. n
    BY <1>2, <1>6 DEF Held, Row
  <2>2. row.n <= n + 1 /\ (row.live <=> There(row.n)')
    BY <1>5, <1>6, <2>1 DEF Held
  <2>3. CASE StillThere(row, db[Flag])
    <3>1. ~StillThere(row, db[Flag])' => ~There(n + 1)'
      BY <1>1, <1>4, <2>3 DEF StillThere
    <3>2. n + 1 \in row.n .. n + 1
      BY <2>1
    <3> QED BY <1>3, <2>2, <3>1, <3>2 DEF Held
  <2>4. CASE ~StillThere(row, db[Flag])
    <3>1. PICK i \in row.n .. n : ~There(i)
      BY <1>2, <1>6, <2>4 DEF Held
    <3>2. i \in row.n .. n + 1 /\ ~There(i)'
      BY <1>5, <2>1, <3>1
    <3> QED BY <1>3, <2>2, <3>2 DEF Held
  <2> QED BY <2>3, <2>4
<1>7. Held(db[Flag])'
  <2>1. n + 1 \in n + 1 .. n + 1
    OBVIOUS
  <2>2. ~StillThere(db[Flag], db[Flag])' => ~db'[Flag].live
    BY DEF StillThere
  <2> QED BY <1>1, <1>2, <1>3, <1>4, <2>1, <2>2 DEF Held
<1> QED BY <1>1, <1>2, <1>3, <1>6, <1>7

\* As long as the flag does not change it is enough that nobody takes hold of
\* anything but what was held.
LEMMA LogFrame ==
    ASSUME LogInv, log' = log, db'[Flag] = db[Flag],
           Held(acked'[Flag]), Held(field'[Flag]),
           \A w \in Writers : change'[w].key = Flag => Held(change'[w].row),
           \A r \in Readers : Held(view'[r][Flag]) /\ Held(floor'[r][Flag])
    PROVE  LogInv'
<1>1. ASSUME NEW row, Held(row) PROVE Held(row)'
  BY <1>1 DEF Held, There, StillThere
<1>2. Held(acked[Flag])' /\ Held(field[Flag])' /\ Held(db[Flag])'
  BY DEF LogInv, Held, There, StillThere
<1>3. ASSUME NEW w \in Writers, change'[w].key = Flag PROVE Held(change[w].row)'
  BY <1>3 DEF Held, There, StillThere
<1>4. ASSUME NEW r \in Readers PROVE Held(view[r][Flag])' /\ Held(floor[r][Flag])'
  BY DEF Held, There, StillThere
<1> QED BY <1>2, <1>3, <1>4 DEF LogInv

LEMMA LogCommit ==
    ASSUME TypeOK, LogInv, NEW w \in Writers, NEW k \in Keys,
           Create(w, k) \/ Update(w, k) \/ Delete(w, k), HistoryNext
    PROVE  LogInv'
<1>1. PICK row \in Row, next \in {"reread", "incr"} :
         row.n = db[k].n + 1 /\ Commit(w, k, row, next)
  BY CommitShape
<1>2. /\ db' = [db EXCEPT ![k] = row]
      /\ change' = [change EXCEPT ![w] = [key |-> k, row |-> row]]
      /\ UNCHANGED <<acked, field, view, floor>>
  BY <1>1 DEF Commit, redis, readers
<1>3. change'[w] = [key |-> k, row |-> row] /\ db'[k] = row
      /\ \A v \in Writers \ {w} : change'[v] = change[v]
  BY <1>2 DEF TypeOK
<1>4. CASE k # Flag
  <2>1. db'[Flag] = db[Flag] /\ log' = log
    BY <1>2, <1>4, FlagAssumption DEF TypeOK, HistoryNext
  <2> QED BY <1>2, <1>3, <1>4, <2>1, LogFrame DEF LogInv
<1>5. CASE k = Flag
  <2>1. db'[Flag] # db[Flag]
    BY <1>1, <1>3, <1>5, Numbers
  <2>2. log' = Append(log, db'[Flag].live)
    BY <2>1 DEF HistoryNext
  <2>3. /\ log' \in Seq(BOOLEAN) /\ Len(log') = db'[Flag].n
        /\ \A old \in Row : Held(old) => Held(old)'
        /\ Held(db[Flag])'
    BY <1>5, <2>2, HeldStays
  <2>4. Held(acked[Flag])' /\ Held(field[Flag])'
    BY <1>2, <2>3, FlagAssumption DEF LogInv, TypeOK, Held
  <2>5. ASSUME NEW v \in Writers, change'[v].key = Flag PROVE Held(change[v].row)'
    <3>1. CASE v = w
      BY <1>3, <1>5, <2>3, <3>1
    <3>2. CASE v # w
      <4>1. change'[v] = change[v] /\ change[v].row \in Row /\ Held(change[v].row)
        BY <1>3, <2>5, <3>2 DEF LogInv, TypeOK
      <4> QED BY <2>3, <4>1 DEF Held
    <3> QED BY <3>1, <3>2
  <2>6. ASSUME NEW r \in Readers PROVE Held(view[r][Flag])' /\ Held(floor[r][Flag])'
    <3>1. /\ view[r][Flag] \in Row /\ Held(view[r][Flag])
          /\ floor[r][Flag] \in Row /\ Held(floor[r][Flag])
      BY FlagAssumption DEF LogInv, TypeOK
    <3> QED BY <1>2, <2>3, <3>1 DEF Held
  <2> QED BY <2>3, <2>4, <2>5, <2>6 DEF LogInv
<1> QED BY <1>4, <1>5

LEMMA LogWriter ==
    ASSUME TypeOK, LogInv, NEW w \in Writers, WriterStep(w), log' = log
    PROVE  LogInv'
<1>1. UNCHANGED <<db, view, floor>>
  BY WriterFrame
<1>2. Held(Absent) /\ (Held(change[w].row) => Held(Payload(change[w].row)))
  BY AbsentIsHeld, PayloadIsHeld DEF LogInv
<1>3. Held(field'[Flag])
  <2>1. CASE UNCHANGED field
    BY <2>1 DEF LogInv
  <2>2. CASE field' = [field EXCEPT ![change[w].key] = Payload(change[w].row)]
    BY <1>2, <2>2, FlagAssumption DEF LogInv, TypeOK
  <2> QED BY <2>1, <2>2 DEF WriterStep, Reread, RereadGone, IncrEpoch, WriteField,
          CheckTtl, SetTtl, Publish, NotifyFails, Return, redis
<1>4. Held(acked'[Flag])
  <2>1. CASE UNCHANGED acked
    BY <2>1 DEF LogInv
  <2>2. CASE acked' = [acked EXCEPT ![change[w].key] = change[w].row]
    BY <2>2, FlagAssumption DEF LogInv, TypeOK
  <2> QED BY <2>1, <2>2 DEF WriterStep, Reread, RereadGone, IncrEpoch, WriteField,
          CheckTtl, SetTtl, Publish, NotifyFails, Return
<1>5. ASSUME NEW v \in Writers, change'[v].key = Flag PROVE Held(change'[v].row)
  <2>1. \/ change'[v] = change[v] \/ change'[v] = NoChange
        \/ change'[v].row = db[change'[v].key]
    <3>1. CASE UNCHANGED change \/ change' = [change EXCEPT ![w] = NoChange]
      BY <3>1 DEF TypeOK
    <3>2. CASE change' = [change EXCEPT ![w].row = db[change[w].key]]
      BY <3>2 DEF TypeOK
    <3> QED BY <3>1, <3>2 DEF WriterStep, Reread, RereadGone, IncrEpoch, WriteField,
            CheckTtl, SetTtl, Publish, NotifyFails, Return
  <2> QED BY <1>2, <1>5, <2>1 DEF LogInv, NoChange
<1> QED BY <1>1, <1>3, <1>4, <1>5, LogFrame DEF LogInv

LEMMA LogReader ==
    ASSUME TypeOK, LogInv, NEW r \in Readers, ReaderStep(r), log' = log
    PROVE  LogInv'
<1>1. UNCHANGED <<db, acked, change>>
  BY DEF ReaderStep, HExists, ReadEpoch, Build, Watch, Exec, Respond, EpochReadFails,
     PublishFails, writers
<1>2. Held(Absent) /\ \A row : Held(row) => Held(Payload(row))
  BY AbsentIsHeld, PayloadIsHeld DEF LogInv
<1>3. Held(field'[Flag])
  <2>1. CASE UNCHANGED field
    BY <2>1 DEF LogInv
  <2>2. CASE Exec(r) /\ field' = [k \in Keys |-> Payload(view[r][k])]
    BY <1>2, <2>2, FlagAssumption DEF LogInv
  <2> QED BY <2>1, <2>2 DEF ReaderStep, HExists, ReadEpoch, Build, Watch, Exec, Respond,
          EpochReadFails, PublishFails, redis
<1>4. ASSUME NEW q \in Readers PROVE Held(view'[q][Flag])
  <2>1. view' \in {view, [view EXCEPT ![r] = db], [view EXCEPT ![r] = Nothing]}
    BY DEF ReaderStep, HExists, ReadEpoch, Build, Watch, Exec, Respond, EpochReadFails,
       PublishFails
  <2>2. view'[q] \in {view[q], db, Nothing}
    BY <2>1 DEF TypeOK
  <2>3. view'[q][Flag] \in {view[q][Flag], db[Flag], Absent}
    BY <2>2, FlagAssumption DEF Nothing
  <2> QED BY <1>2, <2>3 DEF LogInv
<1>5. ASSUME NEW q \in Readers PROVE Held(floor'[q][Flag])
  <2>1. UNCHANGED floor \/ floor' = [floor EXCEPT ![r] = Nothing]
    BY DEF ReaderStep, HExists, ReadEpoch, Build, Watch, Exec, Respond, EpochReadFails,
       PublishFails
  <2>2. floor'[q][Flag] \in {floor[q][Flag], Absent}
    BY <2>1, FlagAssumption DEF TypeOK, Nothing
  <2> QED BY <1>2, <2>2 DEF LogInv
<1> QED BY <1>1, <1>3, <1>4, <1>5, LogFrame DEF LogInv

LEMMA LogStep ==
    ASSUME TypeOK, LogInv, [HistoryNext]_<<vars, log>>
    PROVE  LogInv'
<1>1. ASSUME NEW w \in Writers, NEW k \in Keys, HistoryNext,
             Create(w, k) \/ Update(w, k) \/ Delete(w, k)
      PROVE  LogInv'
  BY <1>1, LogCommit
<1>2. SUFFICES ASSUME UNCHANGED db PROVE LogInv'
  <2>1. CASE UNCHANGED <<vars, log>>
    BY <1>2, <2>1 DEF vars
  <2>2. ASSUME NEW w \in Writers, WriterStep(w) PROVE UNCHANGED db
    BY <2>2, WriterFrame
  <2>3. CASE HistoryNext
    BY <1>1, <1>2, <2>2, <2>3
    DEF HistoryNext, Next, Evaluate, CacheReadFails, Ruleset, Arrive, ReaderStep, HExists,
        ReadEpoch, Build, Watch, Exec, Respond, EpochReadFails, PublishFails, Expire,
        Restart
  <2> QED BY <2>1, <2>3
<1>3. log' = log
  BY <1>2 DEF HistoryNext
<1>4. Held(Absent)
  BY AbsentIsHeld DEF LogInv
<1>5. ASSUME NEW r \in Readers, NEW keys, NEW seen \in {field, Nothing}, NEW next,
             Arrive(r, keys, seen, next)
      PROVE  LogInv'
  <2>1. UNCHANGED <<acked, field, change>>
    BY <1>5 DEF Arrive, redis, writers
  <2>2. ASSUME NEW q \in Readers
        PROVE  /\ view'[q][Flag] \in {view[q][Flag], field[Flag], Absent}
               /\ floor'[q][Flag] \in {floor[q][Flag], acked[Flag], Absent}
    BY <1>5, FlagAssumption DEF Arrive, TypeOK, Nothing
  <2> QED BY <1>2, <1>3, <1>4, <2>1, <2>2, LogFrame DEF LogInv
<1>6. CASE Expire \/ Restart
  <2>1. UNCHANGED <<acked, change, view, floor>> /\ field'[Flag] = Absent
    BY <1>6, FlagAssumption DEF Expire, Restart, writers, readers, Nothing
  <2> QED BY <1>2, <1>3, <1>4, <2>1, LogFrame DEF LogInv
<1>7. CASE UNCHANGED vars
  BY <1>3, <1>7, LogFrame DEF vars, redis, writers, readers, LogInv
<1>8. ASSUME NEW w \in Writers, NEW k \in Keys,
             Create(w, k) \/ Update(w, k) \/ Delete(w, k)
      PROVE  LogInv'
  <2>1. PICK row \in Row, next \in {"reread", "incr"} :
           row.n = db[k].n + 1 /\ Commit(w, k, row, next)
    BY <1>8, CommitShape
  <2>2. db'[k] = row
    BY <2>1 DEF Commit, TypeOK
  <2> QED BY <1>2, <2>1, <2>2, Numbers
<1>9. ASSUME NEW r \in Evaluators, NEW k \in Keys, Evaluate(r, k) \/ CacheReadFails(r, {k})
      PROVE  LogInv'
  BY <1>5, <1>9 DEF Evaluate, CacheReadFails, Readers
<1>10. ASSUME NEW r \in Bootstraps, Ruleset(r) \/ CacheReadFails(r, Keys) PROVE LogInv'
  BY <1>5, <1>10 DEF Ruleset, CacheReadFails, Readers
<1> QED BY <1>3, <1>6, <1>7, <1>8, <1>9, <1>10, LogWriter, LogReader DEF HistoryNext, Next

-----------------------------------------------------------------------------
(* Every step is a step of ServedFlag, or none.                            *)

ServedVars == <<log, acked[Flag].n, [r \in Readers |-> ServedCall(r)]>>

\* What a request of ServedFlag is at, by the steps of its handler.
LEMMA CallIs ==
    ASSUME TypeOK, NEW r \in Readers
    PROVE  /\ rpc[r] = "idle" \/ Flag \notin want[r] => ServedCall(r) = Served!Idle
           /\ Flag \in want[r] =>
                 /\ rpc[r] = "failed" => ServedCall(r) = Served!Failed
                 /\ rpc[r] \in {"hexists", "epoch", "build", "watch", "exec"} =>
                       ServedCall(r) = Served!Call("asked", floor[r][Flag].n)
                 /\ rpc[r] \in {"answered", "published"} =>
                       ServedCall(r) =
                          IF Torn(r) THEN Served!Failed
                          ELSE Served!Call("answered", Payload(view[r][Flag]).n)
BY DEF ServedCall, Served!Idle, Served!Failed, Served!Call

LEMMA WaitsIs ==
    ASSUME NEW r \in Readers
    PROVE  /\ ServedCall(r) = Served!Idle =>
                 Served!Waits(r) /\ Served!Since(r) = acked[Flag].n
           /\ \A i : ServedCall(r) = Served!Call("asked", i) =>
                 Served!Waits(r) /\ Served!Since(r) = i
           /\ ServedCall(r) = Served!Failed => ~Served!Waits(r)
           /\ \A i : ServedCall(r) = Served!Call("answered", i) => ~Served!Waits(r)
BY DEF Served!Idle, Served!Failed, Served!Call, Served!Waits, Served!Since

\* An answer is some version of the flag since the one that was promised.
AnswersAreVersions ==
    \A r \in Readers :
        rpc[r] \in {"answered", "published"} /\ Flag \in want[r] /\ ~Torn(r)
          => \E i \in floor[r][Flag].n .. Len(log) : ServedCall(r) = Served!Found(i)

LEMMA AnswersInvariant ==
    TypeOK /\ LogInv /\ NeverStale(Flag) /\ NeverMissing(Flag) => AnswersAreVersions
<1> SUFFICES ASSUME TypeOK, LogInv, NeverStale(Flag), NeverMissing(Flag), NEW r \in Readers,
                    rpc[r] \in {"answered", "published"}, Flag \in want[r], ~Torn(r)
             PROVE  \E i \in floor[r][Flag].n .. Len(log) : ServedCall(r) = Served!Found(i)
  BY DEF AnswersAreVersions
<1>1. Held(view[r][Flag]) /\ Held(floor[r][Flag]) /\ Len(log) \in Nat
  BY DEF LogInv
<1>2. view[r][Flag].n \in Nat /\ floor[r][Flag].n \in Nat
  BY Numbers, FlagAssumption
<1>3. ServedCall(r) = Served!Call("answered", Payload(view[r][Flag]).n)
  BY CallIs
<1>4. CASE view[r][Flag].live
  <2>1. There(view[r][Flag].n) /\ view[r][Flag].n \in floor[r][Flag].n .. Len(log)
    BY <1>1, <1>2, <1>4 DEF NeverStale, Held
  <2> QED BY <1>3, <1>4, <2>1 DEF Payload, Served!Found, Served!There, There
<1>5. CASE ~view[r][Flag].live
  <2>1. ~StillThere(floor[r][Flag], db[Flag])
    BY <1>5, FlagAssumption DEF NeverMissing, Torn, Readers
  <2>2. PICK i \in floor[r][Flag].n .. Len(log) : ~There(i)
    BY <1>1, <2>1 DEF Held
  <2> QED BY <1>3, <1>5, <2>2 DEF Payload, Absent, Served!Found, Served!There, There
<1> QED BY <1>4, <1>5

\* Only one request moves.
OthersStay(r) ==
    /\ UNCHANGED <<log, acked>>
    /\ \A q \in Readers \ {r} : /\ rpc'[q] = rpc[q] /\ want'[q] = want[q]
                                /\ view'[q] = view[q] /\ floor'[q] = floor[q]
                                /\ whole'[q] = whole[q]

LEMMA OneMoves ==
    ASSUME TypeOK, NEW r \in Readers, OthersStay(r)
    PROVE  Served!Becomes(r, ServedCall(r)')
<1>1. ASSUME NEW q \in Readers \ {r} PROVE ServedCall(q)' = ServedCall(q)
  BY DEF OthersStay, ServedCall, Torn, Payload
<1> QED BY <1>1 DEF OthersStay, Served!Becomes

\* A request that is answered, or learns nothing.
LEMMA Ends ==
    ASSUME TypeOK, AnswersAreVersions', NEW r \in Readers, OthersStay(r), Flag \in want'[r],
           rpc'[r] \in {"answered", "published", "failed"},
           Served!Waits(r), Served!Since(r) = floor'[r][Flag].n
    PROVE  Served!Next
<1>1. Served!Becomes(r, ServedCall(r)')
  BY OneMoves
<1>2. CASE ServedCall(r)' = Served!Failed
  <2>1. Served!GiveUp(r)
    BY <1>1, <1>2 DEF Served!GiveUp
  <2> QED BY <2>1 DEF Served!Next
<1>3. CASE rpc'[r] \in {"answered", "published"} /\ ~Torn(r)'
  <2>1. PICK i \in floor'[r][Flag].n .. Len(log') : ServedCall(r)' = Served!Found(i)'
    BY <1>3 DEF AnswersAreVersions
  <2>2. log' = log
    BY DEF OthersStay
  <2>3. Served!Answer(r)
    BY <1>1, <2>1, <2>2
    DEF Served!Answer, Served!Latest, Served!Found, Served!Call, Served!There
  <2> QED BY <2>3 DEF Served!Next
<1>4. rpc'[r] = "failed" \/ Torn(r)' => ServedCall(r)' = Served!Failed
  BY DEF ServedCall, Torn, Served!Failed, Served!Call
<1> QED BY <1>2, <1>3, <1>4

LEMMA ReaderServes ==
    ASSUME TypeOK, FenceHolds, AnswersAreVersions', log' = log, NEW r \in Readers,
           ReaderStep(r)
    PROVE  [Served!Next]_ServedVars
<1>1. OthersStay(r) /\ r \in Readers
  BY DEF OthersStay, TypeOK, ReaderStep, HExists, ReadEpoch, Build, Watch, Exec, Respond,
     EpochReadFails, PublishFails, ReaderAt
<1>2. Served!Becomes(r, ServedCall(r)')
  BY <1>1, OneMoves
<1>3. CASE ServedCall(r)' = ServedCall(r)
  <2>1. ASSUME NEW q \in Readers PROVE ServedCall(q)' = ServedCall(q)
    BY <1>1, <1>3 DEF OthersStay, ServedCall, Torn, Payload
  <2> QED BY <1>1, <2>1 DEF OthersStay, ServedVars
<1>4. CASE Respond(r)
  <2>1. rpc'[r] = "idle" /\ rpc[r] \in {"answered", "published", "failed"}
    BY <1>4 DEF Respond, TypeOK
  <2>2. ServedCall(r)' = Served!Idle
    BY <2>1 DEF ServedCall, Torn, Served!Idle, Served!Call
  <2>3. CASE Flag \notin want[r]
    BY <1>3, <2>2, <2>3, CallIs
  <2>4. CASE Flag \in want[r]
    <3>1. ~Served!Waits(r)
      BY <2>1, <2>4, CallIs, WaitsIs
    <3>2. Served!Finish(r)
      BY <1>2, <2>2, <3>1 DEF Served!Finish
    <3> QED BY <3>2 DEF Served!Next
  <2> QED BY <2>3, <2>4
<1>5. CASE ~Respond(r)
  <2>1. /\ rpc[r] \in {"hexists", "epoch", "build", "watch", "exec"}
        /\ rpc'[r] \in {"epoch", "build", "watch", "exec"} \/
           rpc'[r] \in {"answered", "published", "failed"}
        /\ UNCHANGED <<want, floor>>
    BY <1>5 DEF TypeOK, ReaderStep, HExists, ReadEpoch, Build, Watch, Exec, Outcomes,
       EpochReadFails, PublishFails, ReaderAt, Degrade
  <2>2. CASE Flag \notin want[r]
    BY <1>3, <2>1, <2>2 DEF ServedCall, Torn, Payload
  <2>3. CASE Flag \in want[r] /\ rpc'[r] \in {"epoch", "build", "watch", "exec"}
    BY <1>3, <2>1, <2>3 DEF ServedCall, Torn, Payload
  <2>4. CASE Flag \in want[r] /\ rpc'[r] \in {"answered", "published", "failed"}
    <3>1. Served!Waits(r) /\ Served!Since(r) = floor[r][Flag].n
      BY <2>1, <2>4, CallIs, WaitsIs
    <3> QED BY <1>1, <2>1, <2>4, <3>1, Ends
  <2> QED BY <2>1, <2>2, <2>3, <2>4
<1> QED BY <1>4, <1>5

LEMMA ArrivalServes ==
    ASSUME TypeOK, AnswersAreVersions', log' = log, NEW r \in Readers,
           NEW keys \in SUBSET Keys, NEW seen,
           NEW next \in {"hexists", "epoch", "answered", "failed"},
           Arrive(r, keys, seen, next)
    PROVE  [Served!Next]_ServedVars
<1>1. /\ OthersStay(r) /\ rpc[r] = "idle"
      /\ rpc'[r] = next /\ want'[r] = keys
      /\ Flag \in keys => floor'[r][Flag] = acked[Flag]
  BY FlagAssumption DEF OthersStay, TypeOK, Arrive, ReaderAt
<1>2. Served!Becomes(r, ServedCall(r)') /\ ServedCall(r) = Served!Idle
  BY <1>1, OneMoves, CallIs
<1>3. CASE Flag \notin keys
  <2>1. ServedCall(r)' = ServedCall(r)
    BY <1>1, <1>2, <1>3 DEF ServedCall, Torn, Served!Idle, Served!Call
  <2>2. ASSUME NEW q \in Readers PROVE ServedCall(q)' = ServedCall(q)
    BY <1>1, <2>1 DEF OthersStay, ServedCall, Torn, Payload
  <2> QED BY <1>1, <2>2 DEF OthersStay, ServedVars
<1>4. CASE Flag \in keys /\ next \in {"hexists", "epoch"}
  <2>1. ServedCall(r)' = Served!Call("asked", acked[Flag].n)
    BY <1>1, <1>4 DEF ServedCall, Torn, Served!Call
  <2>2. Served!Ask(r)
    BY <1>2, <2>1 DEF Served!Ask
  <2> QED BY <2>2 DEF Served!Next
<1>5. CASE Flag \in keys /\ next \in {"answered", "failed"}
  BY <1>1, <1>2, <1>5, Ends, WaitsIs
<1> QED BY <1>3, <1>4, <1>5

\* A step that leaves the flag, its log and the requests alone is none.
LEMMA Stutter ==
    ASSUME UNCHANGED <<log, readers>>, acked'[Flag].n = acked[Flag].n
    PROVE  UNCHANGED ServedVars
<1>1. ASSUME NEW r \in Readers PROVE ServedCall(r)' = ServedCall(r)
  BY DEF readers, ServedCall, Torn, Payload
<1> QED BY <1>1 DEF ServedVars

LEMMA WriterServes ==
    ASSUME TypeOK, FenceInv, FenceHolds, FlagInv(Flag), Apart(Flag), LogInv,
           NEW w \in Writers, WriterStep(w), log' = log
    PROVE  [Served!Next]_ServedVars
<1>1. UNCHANGED <<rpc, want, view, floor, whole>>
  BY DEF WriterStep, Reread, RereadGone, IncrEpoch, WriteField, CheckTtl, SetTtl,
     Publish, NotifyFails, Return, readers
<1>2. \A r \in Readers : ServedCall(r)' = ServedCall(r)
  BY <1>1 DEF ServedCall, Torn, Payload
<1>3. acked'[Flag] = acked[Flag] \/ acked'[Flag] = db[Flag]
  <2>1. CASE ~Changes(w, Flag)
    BY <2>1, OtherStep, FlagAssumption
  <2>2. CASE Changes(w, Flag) /\ ~Publish(w)
    <3>1. ~RereadGone(w) /\ ~NotifyFails(w)
      BY <2>2, OwnStep, FlagAssumption DEF Changes, FlagInv
    <3> QED BY <2>2, <3>1 DEF WriterStep, Reread, IncrEpoch, WriteField, CheckTtl, SetTtl
  <2>3. CASE Changes(w, Flag) /\ Publish(w)
    <3>1. change[w].row = db[Flag] /\ change[w].key = Flag
      BY <2>3, ReturnSettled, FlagAssumption DEF Changes, FlagInv
    <3> QED BY <2>3, <3>1, FlagAssumption DEF Publish, Return, TypeOK
  <2> QED BY <2>1, <2>2, <2>3
<1>4. CASE acked'[Flag] = acked[Flag]
  BY <1>2, <1>4 DEF ServedVars
<1>5. CASE acked'[Flag] = db[Flag]
  <2>1. acked'[Flag].n = Len(log)
    BY <1>5 DEF LogInv
  <2>2. Served!Promise
    BY <1>2, <2>1 DEF Served!Promise, Served!Latest
  <2> QED BY <2>2 DEF Served!Next
<1> QED BY <1>3, <1>4, <1>5

LEMMA CommitServes ==
    ASSUME TypeOK, LogInv, HistoryNext, NEW w \in Writers, NEW k \in Keys,
           Create(w, k) \/ Update(w, k) \/ Delete(w, k)
    PROVE  [Served!Next]_ServedVars
<1>1. UNCHANGED <<acked, rpc, want, view, floor, whole>>
  BY DEF Create, Update, Delete, Commit, readers
<1>2. \A r \in Readers : ServedCall(r)' = ServedCall(r)
  BY <1>1 DEF ServedCall, Torn, Payload
<1>3. CASE k = Flag
  <2>1. /\ db'[Flag].n = db[Flag].n + 1 /\ db[Flag].n \in Nat
        /\ db'[Flag].live \in BOOLEAN /\ (db[Flag].live \/ db'[Flag].live)
    BY <1>3, FlagChange, Numbers, FlagAssumption DEF Row
  <2>2. log' = Append(log, db'[Flag].live)
    BY <2>1 DEF HistoryNext
  <2>3. There(Len(log)) <=> db[Flag].live
    BY DEF LogInv, Held
  <2>4. Served!Change
    BY <1>1, <1>2, <2>1, <2>2, <2>3 DEF Served!Change, Served!There, Served!Latest, There
  <2> QED BY <2>4 DEF Served!Next
<1>4. CASE k # Flag
  <2>1. db'[Flag] = db[Flag]
    BY <1>4, FlagAssumption DEF Create, Update, Delete, Commit, TypeOK
  <2> QED BY <1>1, <1>2, <2>1 DEF HistoryNext, ServedVars
<1> QED BY <1>3, <1>4

LEMMA ServedStep ==
    ASSUME TypeOK, FenceInv, FenceHolds, FlagInv(Flag), Apart(Flag), LogInv,
           AnswersAreVersions', [HistoryNext]_<<vars, log>>
    PROVE  [Served!Next]_ServedVars
<1>1. CASE UNCHANGED <<vars, log>>
  BY <1>1, Stutter DEF vars
<1>2. ASSUME NEW w \in Writers, NEW k \in Keys, HistoryNext,
             Create(w, k) \/ Update(w, k) \/ Delete(w, k)
      PROVE  [Served!Next]_ServedVars
  BY <1>2, CommitServes
<1>3. ASSUME HistoryNext, NEW w \in Writers, WriterStep(w)
      PROVE  [Served!Next]_ServedVars
  <2>1. log' = log
    BY <1>3, WriterFrame DEF HistoryNext
  <2> QED BY <1>3, <2>1, WriterServes
<1>4. ASSUME HistoryNext, NEW r \in Evaluators, NEW k \in Keys,
             Evaluate(r, k) \/ CacheReadFails(r, {k})
      PROVE  [Served!Next]_ServedVars
  <2>1. log' = log
    BY <1>4 DEF HistoryNext, Evaluate, CacheReadFails, Arrive
  <2> QED BY <1>4, <2>1, ArrivalServes DEF Evaluate, CacheReadFails, Degrade, Readers
<1>5. ASSUME HistoryNext, NEW r \in Bootstraps, Ruleset(r) \/ CacheReadFails(r, Keys)
      PROVE  [Served!Next]_ServedVars
  <2>1. log' = log
    BY <1>5 DEF HistoryNext, Ruleset, CacheReadFails, Arrive
  <2> QED BY <1>5, <2>1, ArrivalServes DEF Ruleset, CacheReadFails, Degrade, Readers
<1>6. ASSUME HistoryNext, NEW r \in Readers, ReaderStep(r)
      PROVE  [Served!Next]_ServedVars
  <2>1. log' = log
    BY <1>6 DEF HistoryNext, ReaderStep, HExists, ReadEpoch, Build, Watch, Exec, Respond,
       EpochReadFails, PublishFails
  <2> QED BY <1>6, <2>1, ReaderServes
<1>7. CASE HistoryNext /\ Expire
  BY <1>7, Stutter DEF HistoryNext, Expire
<1>8. ~Restart
  BY DEF Restart, FenceHolds
<1> QED BY <1>1, <1>2, <1>3, <1>4, <1>5, <1>6, <1>7, <1>8 DEF HistoryNext, Next

\* The inductive invariant of the refinement: of the cache, the flag and its log.
ServedInv ==
    TypeOK /\ FenceInv /\ FlagInv(Flag) /\ NumberInv /\ WholeInv(Flag) /\ LogInv

LEMMA ServedInit == HistoryInit => ServedInv /\ Served!Init
<1> SUFFICES ASSUME HistoryInit PROVE ServedInv /\ Served!Init
  OBVIOUS
<1>1. Init
  BY DEF HistoryInit
<1>2. ServedInv
  BY <1>1, TypeInit, FenceInit, FlagInit, NumberInit, WholeInit, LogInit, FlagAssumption
  DEF ServedInv
<1>3. log \in {<<>>, <<TRUE>>}
  BY DEF HistoryInit
<1>4. acked[Flag].n = Len(log)
  BY <1>1, <1>2 DEF Init, ServedInv, LogInv
<1>5. \A r \in Readers : ServedCall(r) = Served!Idle
  BY <1>1 DEF Init, ServedCall, Torn, Served!Idle, Served!Call
<1> QED BY <1>2, <1>3, <1>4, <1>5 DEF Served!Init, Served!Latest

LEMMA ServedInvStep ==
    FenceHolds /\ Apart(Flag) /\ Apart(Flag)' /\ ServedInv /\ [HistoryNext]_<<vars, log>>
      => ServedInv'
<1> SUFFICES ASSUME FenceHolds, Apart(Flag), Apart(Flag)', ServedInv,
                    [HistoryNext]_<<vars, log>>
             PROVE  ServedInv'
  OBVIOUS
<1>1. [Next]_vars
  BY DEF HistoryNext
<1>2. TypeOK /\ FenceInv /\ FlagInv(Flag) /\ NumberInv /\ WholeInv(Flag) /\ LogInv
  BY DEF ServedInv
<1>3. (TypeOK /\ FenceInv /\ FlagInv(Flag))'
  BY <1>1, <1>2, TypeStep, FenceStep, FlagStep, FlagAssumption
<1>4. (NumberInv /\ WholeInv(Flag))'
  BY <1>1, <1>2, NumberStep, WholeStep, FlagAssumption
<1>5. LogInv'
  BY <1>2, LogStep
<1> QED BY <1>3, <1>4, <1>5 DEF ServedInv

LEMMA ServedAnswers == ServedInv => AnswersAreVersions
<1> SUFFICES ASSUME ServedInv PROVE AnswersAreVersions
  OBVIOUS
<1>1. TypeOK /\ PromiseKept(Flag) /\ WholeInv(Flag) /\ LogInv
  BY DEF ServedInv, FlagInv
<1>2. NeverStale(Flag) /\ NeverMissing(Flag)
  BY <1>1, PromiseServes, WholeAnswers, FlagAssumption
<1> QED BY <1>1, <1>2, AnswersInvariant

\* The cache implements ServedFlag for each flag whose changes do not overlap,
\* unless an announcement fails, the epoch cannot be read or Redis loses it: every
\* request, however it is answered, is served as from one register.
THEOREM CacheRefinesServedFlag ==
    FenceHolds /\ HistorySpec /\ []Apart(Flag) => ServedSpec
<1>1. HistoryInit => ServedInv /\ Served!Init
  BY ServedInit
<1>2. FenceHolds /\ Apart(Flag) /\ Apart(Flag)' /\ ServedInv /\ [HistoryNext]_<<vars, log>>
        => ServedInv'
  BY ServedInvStep
<1>3. ServedInv => AnswersAreVersions
  BY ServedAnswers
<1>4. FenceHolds /\ ServedInv /\ Apart(Flag) /\ AnswersAreVersions'
        /\ [HistoryNext]_<<vars, log>> => [Served!Next]_ServedVars
  BY ServedStep DEF ServedInv
<1>5. CASE FenceHolds
  BY <1>1, <1>2, <1>3, <1>4, <1>5, PTL DEF HistorySpec, ServedSpec, Served!Spec, ServedVars
<1> QED BY <1>5
=============================================================================
