--------------------------- MODULE FlagStoreProofs --------------------------
(***************************************************************************)
(* Proofs about FlagStore, for any flags, operators, variants and bounds.  *)
(***************************************************************************)
EXTENDS FlagStore, TLAPS

USE KeysAssumption, VariantsAssumption, BoundAssumption

Inv == TypeOK /\ LoadedInv /\ FlushInv /\ AlwaysCoherent

LEMMA NoFlagType == NoFlag \in FlagType /\ NoFlag.id = 0
BY DEF NoFlag, Flag, FlagType

LEMMA InitInv == Init => Inv
<1> SUFFICES ASSUME Init PROVE Inv
  OBVIOUS
<1>1. AnyKey \in Keys
  BY DEF AnyKey
<1>2. TypeOK
  BY <1>1, NoFlagType DEF Init, TypeOK, Steps, Methods
<1>3. LoadedInv
  BY NoFlagType DEF Init, LoadedInv
<1>5. FlushInv
  BY DEF Init, FlushInv
<1>4. AlwaysCoherent
  BY DEF Init, AlwaysCoherent, IsCoherentOrBlank, IsCoherent, NoFlag, Flag
<1> QED BY <1>2, <1>3, <1>4, <1>5 DEF Inv

\* A PATCH that passes the version guard leaves the flag that validation saw.
LEMMA PatchExact ==
    ASSUME NEW f \in FlagType, NEW p \in Patch, SchemaAccepts(p),
           ServiceAccepts(f, p)
    PROVE  LET g == Patched(f, f, p) IN
           /\ g \in FlagType
           /\ g.id = f.id /\ g.ver = f.ver + 1
           /\ IsCoherentOrBlank(g.variants, g.pins, g.off)
<1> DEFINE g == Patched(f, f, p)
<1>1. /\ f.variants \in VariantSets /\ f.pins \in PinSets
      /\ f.off \in Offs \cup {NoVariant} /\ f.id \in Nat /\ f.ver + 1 \in Nat
  BY DEF FlagType
<1>2. /\ p.variants \in VariantSets \cup {Keep} /\ p.pins \in PinSets \cup {Keep}
      /\ p.off \in Offs \cup {NoVariant, Keep}
  BY DEF Patch
<1>3. /\ Given(p.variants, f.variants) \in VariantSets
      /\ Given(p.pins, f.pins) \in PinSets
      /\ Given(p.off, f.off) \in Offs \cup {NoVariant}
  BY <1>1, <1>2 DEF Given
<1>4. g = Flag(f.id, f.ver + 1, Given(p.variants, f.variants),
               Given(p.pins, f.pins), Given(p.off, f.off))
  <2>1. p.variants # Keep =>
          (f.variants \ (f.variants \ p.variants)) \cup p.variants = p.variants
    OBVIOUS
  <2> QED BY <2>1 DEF Patched, Given
<1>5. g \in FlagType /\ g.id = f.id /\ g.ver = f.ver + 1
  BY <1>1, <1>3, <1>4 DEF Flag, FlagType
<1>6. IsCoherentOrBlank(g.variants, g.pins, g.off)
  BY <1>4 DEF ServiceAccepts, Flag
<1> QED BY <1>5, <1>6

\* What each operator holds stays dated when a key's flag is replaced by one of
\* a new identity, or a later version, or none.
Supersedes(new, old, id) ==
    \/ new.id = id
    \/ new.id = old.id /\ new.ver = old.ver + 1
    \/ new.id = 0

\* The requests of the other operators, and the logs of the other keys, stay as
\* they are.
Others(o) ==
    \A v \in Operators \ {o} : /\ pc'[v] = pc[v] /\ key'[v] = key[v]
                              /\ loaded'[v] = loaded[v]
                              /\ kind'[v] = kind[v] /\ mark'[v] = mark[v]

OtherLogs(k) == \A j \in Keys \ {k} : audit'[j] = audit[j]

LEMMA WriteKeeps ==
    ASSUME Inv, NEW o \in Operators, NEW row \in FlagType,
           rows' = [rows EXCEPT ![key[o]] = row],
           nextId' \in {nextId, nextId + 1}, row.id < nextId',
           row.id = 0 => row = NoFlag,
           Supersedes(row, rows[key[o]], nextId),
           row.id = nextId => nextId' = nextId + 1,
           IsCoherentOrBlank(row.variants, row.pins, row.off),
           OtherLogs(key[o]),
           UNCHANGED copy,
           pc'[o] \in {"idle", "reread"},
           pc'[o] = "reread" => loaded'[o] = row /\ key'[o] = key[o] /\ row.id # 0,
           Others(o)
    PROVE  LoadedInv' /\ FlushInv' /\ AlwaysCoherent'
<1> USE DEF Inv, Others, OtherLogs
<1>0. /\ key[o] \in Keys /\ rows'[key[o]] = row /\ nextId \in Nat
      /\ rows[key[o]].id \in Nat /\ rows[key[o]].ver \in Nat
      /\ row.id \in Nat /\ row.ver \in Nat /\ nextId' \in Nat
      /\ nextId <= nextId' /\ nextId' # 0
  <2>1. /\ rows \in [Keys -> FlagType] /\ nextId \in Nat
        /\ key \in [Operators -> Keys]
    BY DEF TypeOK
  <2>2. key[o] \in Keys /\ rows[key[o]] \in FlagType
    BY <2>1
  <2>3. rows'[key[o]] = row
    BY <2>1, <2>2
  <2>4. /\ rows[key[o]].id \in Nat /\ rows[key[o]].ver \in Nat
        /\ row.id \in Nat /\ row.ver \in Nat
    BY <2>2 DEF FlagType
  <2>5. nextId' \in Nat /\ nextId <= nextId' /\ nextId' # 0
    BY <2>1, <2>4
  <2> QED BY <2>1, <2>2, <2>3, <2>4, <2>5
<1>1. ASSUME NEW k \in Keys PROVE (rows'[k] = row /\ k = key[o]) \/ rows'[k] = rows[k]
  BY <1>0 DEF TypeOK
<1>2. \A k \in Keys : rows'[k].id < nextId' /\ (rows'[k].id = 0 => rows'[k] = NoFlag)
  <2>1. ASSUME NEW k \in Keys PROVE rows[k].id < nextId'
    <3>1. rows[k].id < nextId /\ rows[k].id \in Nat
      BY DEF LoadedInv, TypeOK, FlagType
    <3> QED BY <1>0, <3>1
  <2> QED BY <1>0, <1>1, <2>1 DEF LoadedInv
<1>3. ASSUME NEW f \in FlagType, f.id # 0, f.id < nextId,
             f.id = rows[key[o]].id => f.ver <= rows[key[o]].ver,
             f.id = row.id
      PROVE  f.ver < row.ver
  <2>1. f.id \in Nat /\ f.ver \in Nat
    BY DEF FlagType
  <2>2. row.id # nextId
    BY <1>0, <1>3, <2>1
  <2>3. row.id = rows[key[o]].id /\ row.ver = rows[key[o]].ver + 1
    BY <1>3, <2>2 DEF Supersedes
  <2> QED BY <1>0, <1>3, <2>1, <2>3
<1>4. ASSUME NEW v \in Operators, NEW k \in Keys, copy'[v][k].id # 0
      PROVE  copy'[v][k].id < nextId' /\ Dated(copy'[v][k], rows'[k])
  <2> DEFINE f == copy[v][k]
  <2>1. copy'[v][k] = f /\ f \in FlagType /\ f.id \in Nat /\ f.ver \in Nat
    <3>1. copy \in [Operators -> [Keys -> FlagType]]
      BY DEF TypeOK
    <3>2. f \in FlagType
      BY <3>1
    <3> QED BY <3>2 DEF FlagType
  <2>2. f.id # 0 /\ f.id < nextId /\ Dated(f, rows[k])
    BY <1>4, <2>1 DEF LoadedInv
  <2>3. CASE k = key[o]
    BY <1>0, <1>3, <2>1, <2>2, <2>3 DEF Dated
  <2>4. CASE rows'[k] = rows[k]
    BY <1>0, <2>1, <2>2, <2>4
  <2> QED BY <1>1, <2>3, <2>4
<1>5. ASSUME NEW v \in Operators,
             pc'[v] \in {"rules", "variants", "decide", "flush", "reread"}
      PROVE  LET f == loaded'[v]  r == rows'[key'[v]] IN
                /\ f.id # 0 /\ f.id < nextId'
                /\ f.id = r.id => f.ver <= r.ver
                /\ f.id = r.id /\ f.ver = r.ver =>
                      /\ f.off = r.off
                      /\ pc'[v] # "rules" => f.pins = r.pins
                      /\ pc'[v] \in {"decide", "flush", "reread"} => f = r
  <2>1. CASE v = o
    BY <1>0, <1>5, <2>1
  <2>2. CASE v # o
    <3> DEFINE f == loaded[v]  r == rows[key[v]]
    <3>0. key[v] \in Keys /\ f \in FlagType
      BY DEF TypeOK
    <3>1. /\ loaded'[v] = f /\ key'[v] = key[v] /\ key[v] \in Keys
          /\ f \in FlagType /\ f.id \in Nat /\ f.ver \in Nat /\ pc'[v] = pc[v]
      BY <2>2, <3>0 DEF FlagType
    <3>2. /\ f.id # 0 /\ f.id < nextId
          /\ f.id = r.id => f.ver <= r.ver
          /\ f.id = r.id /\ f.ver = r.ver =>
                      /\ f.off = r.off
                      /\ pc[v] # "rules" => f.pins = r.pins
                      /\ pc[v] \in {"decide", "flush", "reread"} => f = r
      BY <1>5, <3>1 DEF LoadedInv
    <3>3. f.id < nextId'
      BY <1>0, <3>1, <3>2
    <3>4. CASE key[v] = key[o]
      <4>1. f.id = row.id => f.ver < row.ver
        BY <1>3, <3>1, <3>2, <3>4
      <4>2. rows'[key'[v]] = row
        BY <1>0, <3>1, <3>4
      <4> HIDE DEF f
      <4> QED BY <1>0, <3>1, <3>2, <3>3, <4>1, <4>2
    <3>5. CASE rows'[key[v]] = rows[key[v]]
      BY <3>1, <3>2, <3>3, <3>5
    <3> QED BY <1>1, <3>1, <3>4, <3>5
  <2> QED BY <2>1, <2>2
<1>6. AlwaysCoherent'
  BY <1>1 DEF AlwaysCoherent
<1>7. FlushInv'
  <2> SUFFICES ASSUME NEW v \in Operators, pc'[v] = "flush"
               PROVE  /\ kind'[v] = "PATCH" => Current(v)'
                      /\ Guard(v)' => mark'[v] = Len(audit'[key'[v]])
    BY DEF FlushInv
  <2>0. key[v] \in Keys /\ loaded[v] \in FlagType
    BY DEF TypeOK
  <2>1. /\ v # o /\ pc[v] = "flush" /\ loaded'[v] = loaded[v] /\ key'[v] = key[v]
        /\ kind'[v] = kind[v] /\ mark'[v] = mark[v] /\ key[v] \in Keys
        /\ loaded[v] \in FlagType /\ loaded[v].ver \in Nat
    BY <2>0 DEF FlagType
  <2>2. kind[v] = "PATCH" => Current(v)
    BY <2>1 DEF FlushInv
  <2>3. CASE key[v] = key[o]
    <3>1. loaded[v].id = row.id => loaded[v].ver < row.ver
      BY <1>3, <2>1, <2>3 DEF LoadedInv
    <3>2. ~ Guard(v)'
      BY <1>0, <2>1, <2>3, <3>1 DEF Guard, Stored
    <3> QED BY <2>1, <2>2, <3>2 DEF Current
  <2>4. CASE key[v] # key[o]
    <3>1. rows'[key[v]] = rows[key[v]] /\ audit'[key[v]] = audit[key[v]]
      BY <1>1, <2>1, <2>4
    <3>2. Guard(v) => mark[v] = Len(audit[key[v]])
      BY <2>1 DEF FlushInv
    <3>3. Guard(v)' => Guard(v)
      BY <2>1, <3>1 DEF Guard, Stored
    <3> QED BY <2>1, <2>2, <3>1, <3>2, <3>3 DEF Current
  <2> QED BY <2>3, <2>4
<1> QED BY <1>0, <1>2, <1>4, <1>5, <1>6, <1>7 DEF LoadedInv

\* The steps that read: nothing that is stored changes, and an operator holds
\* on to what it has or takes what a row, or its own session, holds.
LEMMA ReadKeeps ==
    ASSUME Inv, NEW o \in Operators,
           UNCHANGED <<rows, nextId, audit>>,
           Others(o), \A v \in Operators \ {o} : copy'[v] = copy[v],
           pc'[o] = "flush" =>
              /\ kind'[o] = "PATCH" => Current(o)'
              /\ mark'[o] = Len(audit[key'[o]]),
           \A k \in Keys : copy'[o][k].id # 0 =>
              copy'[o][k].id < nextId /\ Dated(copy'[o][k], rows[k]),
           LET f == loaded'[o]  r == rows[key'[o]] IN
              pc'[o] \in {"rules", "variants", "decide", "flush", "reread"} =>
                /\ f.id # 0 /\ f.id < nextId
                /\ f.id = r.id => f.ver <= r.ver
                /\ f.id = r.id /\ f.ver = r.ver =>
                      /\ f.off = r.off
                      /\ pc'[o] # "rules" => f.pins = r.pins
                      /\ pc'[o] \in {"decide", "flush", "reread"} => f = r
    PROVE  LoadedInv' /\ FlushInv' /\ AlwaysCoherent'
<1> USE DEF Others
<1>1. AlwaysCoherent'
  BY DEF Inv, AlwaysCoherent
<1>2. ASSUME NEW v \in Operators, NEW k \in Keys, copy'[v][k].id # 0
      PROVE  copy'[v][k].id < nextId /\ Dated(copy'[v][k], rows[k])
  BY <1>2 DEF Inv, LoadedInv
<1>3. ASSUME NEW v \in Operators,
             pc'[v] \in {"rules", "variants", "decide", "flush", "reread"}
      PROVE  LET f == loaded'[v]  r == rows[key'[v]] IN
                /\ f.id # 0 /\ f.id < nextId
                /\ f.id = r.id => f.ver <= r.ver
                /\ f.id = r.id /\ f.ver = r.ver =>
                      /\ f.off = r.off
                      /\ pc'[v] # "rules" => f.pins = r.pins
                      /\ pc'[v] \in {"decide", "flush", "reread"} => f = r
  <2>1. CASE v = o
    BY <1>3, <2>1
  <2>2. CASE v # o
    BY <1>3, <2>2 DEF Inv, LoadedInv
  <2> QED BY <2>1, <2>2
<1>4. nextId # 0 /\ \A k \in Keys : rows[k].id < nextId
                               /\ (rows[k].id = 0 => rows[k] = NoFlag)
  BY DEF Inv, LoadedInv
<1>5. FlushInv'
  <2> SUFFICES ASSUME NEW v \in Operators, pc'[v] = "flush"
               PROVE  /\ kind'[v] = "PATCH" => Current(v)'
                      /\ Guard(v)' => mark'[v] = Len(audit'[key'[v]])
    BY DEF FlushInv
  <2>1. CASE v = o
    BY <2>1
  <2>2. CASE v # o
    <3>1. /\ kind[v] = "PATCH" => Current(v)
          /\ Guard(v) => mark[v] = Len(audit[key[v]])
      BY <2>2 DEF Inv, FlushInv
    <3> QED BY <2>2, <3>1 DEF Current, Guard, Stored
  <2> QED BY <2>1, <2>2
<1> QED BY <1>1, <1>2, <1>3, <1>4, <1>5 DEF LoadedInv, Dated

\* An operator that keeps its copies keeps them dated.
LEMMA SameCopies ==
    ASSUME Inv, NEW o \in Operators, UNCHANGED copy
    PROVE  \A k \in Keys : copy'[o][k].id # 0 =>
              copy'[o][k].id < nextId /\ Dated(copy'[o][k], rows[k])
BY DEF Inv, LoadedInv

LEMMA SelectStep ==
    ASSUME Inv, NEW o \in Operators, NEW k \in Keys, NEW m \in Methods,
           Select(o, k, m)
    PROVE  Inv'
<1> DEFINE f == Flag(rows[k].id, rows[k].ver, {}, {}, rows[k].off)
<1>1. /\ pc' = [pc EXCEPT ![o] = "rules"] /\ key' = [key EXCEPT ![o] = k]
      /\ loaded' = [loaded EXCEPT ![o] = f] /\ kind' = [kind EXCEPT ![o] = m]
      /\ rows[k].id # 0
      /\ UNCHANGED <<rows, nextId, audit, copy, mark>>
  BY DEF Select, At
<1>2. f \in FlagType /\ f.id = rows[k].id /\ f.ver = rows[k].ver /\ f.off = rows[k].off
      /\ rows[k].ver \in Nat
  BY DEF Inv, TypeOK, FlagType, Flag
<1> HIDE DEF f
<1>3. TypeOK'
  BY <1>1, <1>2 DEF Inv, TypeOK, Steps
<1>4. pc'[o] = "rules" /\ key'[o] = k /\ loaded'[o] = f
  BY <1>1 DEF Inv, TypeOK
<1>5. Others(o) /\ \A v \in Operators \ {o} : copy'[v] = copy[v]
  BY <1>1 DEF Inv, TypeOK, Others
<1>6. rows[k].id < nextId
  BY DEF Inv, LoadedInv
<1> QED BY <1>1, <1>2, <1>3, <1>4, <1>5, <1>6, SameCopies, ReadKeeps DEF Inv

\* The second and third SELECT.
LEMMA LoadStep ==
    ASSUME Inv, NEW o \in Operators, LoadRules(o) \/ LoadVariants(o)
    PROVE  Inv'
<1> DEFINE f == loaded[o]  r == rows[key[o]]  g == loaded'[o]
<1>1. /\ r \in FlagType /\ f \in FlagType /\ {} \in VariantSets /\ {} \in PinSets
      /\ loaded \in [Operators -> FlagType]
  BY DEF Inv, TypeOK
<1>2. UNCHANGED <<rows, nextId, audit, copy, kind, key, mark>>
  BY DEF LoadRules, LoadVariants
<1>3. CASE LoadRules(o)
  <2>1. /\ pc[o] = "rules" /\ pc' = [pc EXCEPT ![o] = "variants"]
        /\ loaded' = [loaded EXCEPT ![o].pins = IF f.id = r.id THEN r.pins ELSE {}]
    BY <1>3 DEF LoadRules, At, Stored
  <2>2. /\ g \in FlagType /\ g.id = f.id /\ g.ver = f.ver /\ g.off = f.off
        /\ f.id = r.id => g.pins = r.pins
    BY <1>1, <2>1 DEF FlagType
  <2>3. pc'[o] = "variants" /\ key'[o] = key[o]
    BY <1>2, <2>1 DEF Inv, TypeOK
  <2>4. Others(o) /\ \A v \in Operators \ {o} : copy'[v] = copy[v]
    BY <1>2, <2>1 DEF Inv, TypeOK, Others
  <2>5. /\ f.id # 0 /\ f.id < nextId /\ (f.id = r.id => f.ver <= r.ver)
        /\ f.id = r.id /\ f.ver = r.ver => f.off = r.off
    BY <2>1 DEF Inv, LoadedInv
  <2>6. TypeOK'
    BY <1>1, <1>2, <2>1, <2>2 DEF Inv, TypeOK, Steps
  <2> HIDE DEF f, g
  <2> QED BY <1>2, <2>2, <2>3, <2>4, <2>5, <2>6, SameCopies, ReadKeeps
          DEF Inv, g
<1>4. CASE LoadVariants(o)
  <2>1. /\ pc[o] = "variants" /\ pc' = [pc EXCEPT ![o] = "decide"]
        /\ loaded' = [loaded EXCEPT ![o].variants =
                         IF f.id = r.id THEN r.variants ELSE {}]
    BY <1>4 DEF LoadVariants, At, Stored
  <2>2. /\ g \in FlagType /\ g.id = f.id /\ g.ver = f.ver /\ g.off = f.off
        /\ g.pins = f.pins
        /\ f.id = r.id => g.variants = r.variants
    BY <1>1, <2>1 DEF FlagType
  <2>3. pc'[o] = "decide" /\ key'[o] = key[o]
    BY <1>2, <2>1 DEF Inv, TypeOK
  <2>4. Others(o) /\ \A v \in Operators \ {o} : copy'[v] = copy[v]
    BY <1>2, <2>1 DEF Inv, TypeOK, Others
  <2>5. /\ f.id # 0 /\ f.id < nextId /\ (f.id = r.id => f.ver <= r.ver)
        /\ f.id = r.id /\ f.ver = r.ver => f.off = r.off /\ f.pins = r.pins
    BY <2>1 DEF Inv, LoadedInv
  <2>6. f.id = r.id /\ f.ver = r.ver => g = r
    BY <1>1, <2>2, <2>5 DEF FlagType
  <2>7. TypeOK'
    BY <1>1, <1>2, <2>1, <2>2 DEF Inv, TypeOK, Steps
  <2> HIDE DEF f, g
  <2> QED BY <1>2, <2>2, <2>3, <2>4, <2>5, <2>6, <2>7, SameCopies, ReadKeeps
          DEF Inv, g
<1> QED BY <1>3, <1>4
\* The end of a request, whatever it answers: nothing that is stored changes,
\* and the copies stay dated.
LEMMA AnswerKeeps ==
    ASSUME Inv, NEW o \in Operators, NEW step, Answer(o, step),
           UNCHANGED <<rows, nextId, audit>>,
           copy' \in [Operators -> [Keys -> FlagType]],
           \A v \in Operators \ {o} : copy'[v] = copy[v],
           \A k \in Keys : copy'[o][k].id # 0 =>
              copy'[o][k].id < nextId /\ Dated(copy'[o][k], rows[k])
    PROVE  Inv'
<1>1. /\ pc' = [pc EXCEPT ![o] = "idle"] /\ kind' = [kind EXCEPT ![o] = "GET"]
      /\ key' = [key EXCEPT ![o] = AnyKey]
      /\ loaded' = [loaded EXCEPT ![o] = NoFlag]
      /\ mark' = [mark EXCEPT ![o] = 0]
  BY DEF Answer, At
<1>2. AnyKey \in Keys
  BY DEF AnyKey
<1>3. TypeOK'
  BY <1>1, <1>2, NoFlagType DEF Inv, TypeOK, Steps, Methods
<1>4. pc'[o] = "idle"
  BY <1>1 DEF Inv, TypeOK
<1>5. Others(o) /\ \A v \in Operators \ {o} : copy'[v] = copy[v]
  BY <1>1 DEF Inv, TypeOK, Others
<1> QED BY <1>3, <1>4, <1>5, ReadKeeps DEF Inv

\* A refused request, whatever the reason.
LEMMA RefusalStep ==
    ASSUME Inv, NEW o \in Operators, NEW step, Answer(o, step),
           UNCHANGED <<rows, nextId, audit, copy>>
    PROVE  Inv'
<1>1. copy' \in [Operators -> [Keys -> FlagType]]
  BY DEF Inv, TypeOK
<1> QED BY <1>1, SameCopies, AnswerKeeps

\* A row is dated by itself.
LEMMA DatedRow ==
    ASSUME Inv, NEW k \in Keys
    PROVE  rows[k] \in FlagType /\ rows[k].id < nextId /\ Dated(rows[k], rows[k])
<1>1. rows[k] \in FlagType /\ rows[k].ver \in Nat
  BY DEF Inv, TypeOK, FlagType
<1> QED BY <1>1 DEF Inv, LoadedInv, Dated

\* What a request gives its operator in the end: what its session holds, when
\* the three SELECTs are done.
LEMMA DatedLoaded ==
    ASSUME Inv, NEW o \in Operators, pc[o] \in {"decide", "flush", "reread"}
    PROVE  /\ loaded[o] \in FlagType /\ loaded[o].id < nextId /\ loaded[o].id # 0
           /\ Dated(loaded[o], rows[key[o]])
BY DEF Inv, LoadedInv, TypeOK, Dated

LEMMA GetStep ==
    ASSUME Inv, NEW o \in Operators, Get(o)
    PROVE  Inv'
<1> DEFINE f == loaded[o]
<1>1. /\ pc[o] = "decide" /\ copy' = [copy EXCEPT ![o][key[o]] = f]
      /\ UNCHANGED <<rows, nextId, audit>> /\ Answer(o, "decide")
  BY DEF Get, Answer, At
<1>2. f \in FlagType /\ f.id < nextId /\ Dated(f, rows[key[o]])
  BY <1>1, DatedLoaded
<1>3. copy \in [Operators -> [Keys -> FlagType]] /\ key[o] \in Keys
  BY DEF Inv, TypeOK
<1> HIDE DEF f
<1>4. /\ copy' \in [Operators -> [Keys -> FlagType]]
      /\ \A v \in Operators \ {o} : copy'[v] = copy[v]
      /\ \A k \in Keys : copy'[o][k] = IF k = key[o] THEN f ELSE copy[o][k]
  BY <1>1, <1>2, <1>3
<1>5. \A k \in Keys : copy'[o][k].id # 0 =>
         copy'[o][k].id < nextId /\ Dated(copy'[o][k], rows[k])
  BY <1>2, <1>4 DEF Inv, LoadedInv
<1> QED BY <1>1, <1>4, <1>5, AnswerKeeps

LEMMA RereadStep ==
    ASSUME Inv, NEW o \in Operators, Reread(o)
    PROVE  Inv'
<1> DEFINE f == loaded[o]
<1>1. /\ pc[o] = "reread" /\ UNCHANGED <<rows, nextId, audit>>
      /\ Answer(o, "reread")
  BY DEF Reread, Answer, At
<1>2. CASE ~Stored(o)
  <2>1. UNCHANGED copy
    BY <1>2 DEF Reread
  <2> QED BY <1>1, <2>1, RefusalStep
<1>3. CASE Stored(o)
  <2>1. copy' = [copy EXCEPT ![o][key[o]] = f]
    BY <1>3 DEF Reread
  <2>2. copy \in [Operators -> [Keys -> FlagType]] /\ key[o] \in Keys
    BY DEF Inv, TypeOK
  <2>3. f \in FlagType /\ f.id < nextId /\ Dated(f, rows[key[o]])
    BY <1>1, DatedLoaded
  <2> HIDE DEF f
  <2>4. /\ copy' \in [Operators -> [Keys -> FlagType]]
        /\ \A v \in Operators \ {o} : copy'[v] = copy[v]
        /\ \A k \in Keys : copy'[o][k] = IF k = key[o] THEN f ELSE copy[o][k]
    BY <2>1, <2>2, <2>3
  <2>5. \A k \in Keys : copy'[o][k].id # 0 =>
           copy'[o][k].id < nextId /\ Dated(copy'[o][k], rows[k])
    BY <2>3, <2>4 DEF Inv, LoadedInv
  <2> QED BY <1>1, <2>4, <2>5, AnswerKeeps
<1> QED BY <1>2, <1>3

\* A row that the session does not know is read like any other.
LEMMA RereadNewStep ==
    ASSUME Inv, NEW o \in Operators, RereadNew(o)
    PROVE  Inv'
<1> DEFINE r == rows[key[o]]  f == Flag(r.id, r.ver, {}, {}, r.off)
<1>1. /\ pc' = [pc EXCEPT ![o] = "rules"] /\ kind' = [kind EXCEPT ![o] = "GET"]
      /\ loaded' = [loaded EXCEPT ![o] = f]
      /\ r.id # 0
      /\ UNCHANGED <<rows, nextId, audit, copy, key, mark>>
  BY DEF RereadNew, At
<1>2. key[o] \in Keys /\ r \in FlagType
  BY DEF Inv, TypeOK
<1>3. f \in FlagType /\ f.id = r.id /\ f.ver = r.ver /\ f.off = r.off /\ r.ver \in Nat
  BY <1>2 DEF FlagType, Flag
<1>4. r.id < nextId
  BY <1>2 DEF Inv, LoadedInv
<1> HIDE DEF f
<1>5. TypeOK'
  BY <1>1, <1>3 DEF Inv, TypeOK, Steps, Methods
<1>6. pc'[o] = "rules" /\ key'[o] = key[o] /\ loaded'[o] = f
  BY <1>1 DEF Inv, TypeOK
<1>7. Others(o) /\ \A v \in Operators \ {o} : copy'[v] = copy[v]
  BY <1>1 DEF Inv, TypeOK, Others
<1> QED BY <1>1, <1>2, <1>3, <1>4, <1>5, <1>6, <1>7, SameCopies, ReadKeeps DEF Inv

LEMMA PostStep ==
    ASSUME Inv, NEW o \in Operators, NEW k \in Keys, Post(o, k)
    PROVE  Inv'
<1>1. /\ pc' = [pc EXCEPT ![o] = "insert"] /\ kind' = [kind EXCEPT ![o] = "POST"]
      /\ key' = [key EXCEPT ![o] = k] /\ mark' = [mark EXCEPT ![o] = Len(audit[k])]
      /\ UNCHANGED <<rows, nextId, audit, copy, loaded>>
  BY DEF Post, At, TakeId
<1>5. Len(audit[k]) \in Nat
  BY DEF Inv, TypeOK
<1>2. TypeOK'
  BY <1>1, <1>5 DEF Inv, TypeOK, Steps, Methods
<1>3. pc'[o] = "insert"
  BY <1>1 DEF Inv, TypeOK
<1>4. Others(o) /\ \A v \in Operators \ {o} : copy'[v] = copy[v]
  BY <1>1 DEF Inv, TypeOK, Others
<1> QED BY <1>1, <1>2, <1>3, <1>4, SameCopies, ReadKeeps DEF Inv

\* The row guard, if it holds, was loaded as it is: the next transaction of this
\* request is the flag's next change.
LEMMA FlushStep ==
    ASSUME Inv, NEW o \in Operators, Flush(o)
    PROVE  Inv'
<1>1. /\ pc[o] = "decide" /\ pc' = [pc EXCEPT ![o] = "flush"]
      /\ kind[o] = "PATCH" => Current(o)
      /\ mark' = [mark EXCEPT ![o] = Len(audit[key[o]])]
      /\ UNCHANGED <<rows, nextId, audit, copy, kind, key, loaded>>
  BY DEF Flush, At, TakeId
<1>2. Len(audit[key[o]]) \in Nat
  BY DEF Inv, TypeOK
<1>3. TypeOK'
  BY <1>1, <1>2 DEF Inv, TypeOK, Steps
<1>4. /\ pc'[o] = "flush" /\ mark'[o] = Len(audit[key'[o]])
      /\ kind'[o] = "PATCH" => Current(o)'
  BY <1>1 DEF Inv, TypeOK, Current
<1>5. Others(o) /\ \A v \in Operators \ {o} : copy'[v] = copy[v]
  BY <1>1 DEF Inv, TypeOK, Others
<1>6. LET f == loaded'[o]  r == rows[key'[o]] IN
        /\ f.id # 0 /\ f.id < nextId
        /\ f.id = r.id => f.ver <= r.ver
        /\ f.id = r.id /\ f.ver = r.ver =>
              f.off = r.off /\ f.pins = r.pins /\ f = r
  BY <1>1 DEF Inv, LoadedInv
<1> QED BY <1>1, <1>3, <1>4, <1>5, <1>6, SameCopies, ReadKeeps DEF Inv

LEMMA InsertStep ==
    ASSUME Inv, NEW o \in Operators, NEW v \in VariantSets, NEW p \in PinSets,
           NEW f \in Offs \cup {NoVariant}, Insert(o, v, p, f)
    PROVE  Inv' /\ Register!Create(key[o])
<1> DEFINE k == key[o]  new == Flag(nextId, 1, v, p, f)
<1>1. /\ rows[k].id = 0 /\ IsCoherent(v, p, f)
      /\ pc' = [pc EXCEPT ![o] = "reread"]
      /\ rows' = [rows EXCEPT ![k] = new]
      /\ loaded' = [loaded EXCEPT ![o] = rows'[k]]
      /\ nextId' = nextId + 1
      /\ audit' = [audit EXCEPT ![k] = Append(@, "created")]
      /\ UNCHANGED <<copy, kind, key, mark>>
  BY DEF Insert, At, Record
<1>2. k \in Keys /\ nextId \in Nat /\ nextId # 0
  BY DEF Inv, TypeOK, LoadedInv
<1>3. new \in FlagType
  BY <1>2 DEF Flag, FlagType
<1>4. /\ new.id = nextId /\ new.variants = v /\ new.pins = p /\ new.off = f
  BY DEF Flag
<1>5. rows[k] = NoFlag
  BY <1>1, <1>2 DEF Inv, LoadedInv
<1>6. Register!Create(k)
  <2>1. DEFINE c == [variants |-> v, pins |-> p, off |-> f]
  <2>2. c \in Register!Content /\ Register!Coherent(c)
    BY <1>1 DEF Register!Content, Register!Coherent, IsCoherentOrBlank, IsCoherent
  <2>3. Register!Flag(nextId, 1, c) = new /\ Register!NoFlag = NoFlag
    BY DEF Register!Flag, Register!NoFlag, NoFlag, Flag
  <2> HIDE DEF c, new
  <2> QED BY <1>1, <1>5, <2>2, <2>3 DEF Register!Create
<1> HIDE DEF new
<1>7. rows'[k] = new
  BY <1>1, <1>2, <1>3 DEF Inv, TypeOK
<1>8. TypeOK'
  <2>1. rows' \in [Keys -> FlagType] /\ loaded' \in [Operators -> FlagType]
    BY <1>1, <1>2, <1>3, <1>7 DEF Inv, TypeOK
  <2>2. audit' \in [Keys -> Seq({"created", "updated", "deleted"})]
    BY <1>1, <1>2 DEF Inv, TypeOK
  <2>3. pc' \in [Operators -> Steps] /\ nextId' \in Nat
    BY <1>1, <1>2 DEF Inv, TypeOK, Steps
  <2> QED BY <1>1, <2>1, <2>2, <2>3 DEF Inv, TypeOK
<1>9. pc'[o] = "reread" /\ loaded'[o] = new /\ key'[o] = k
  BY <1>1, <1>7 DEF Inv, TypeOK
<1>10. Others(o)
  BY <1>1 DEF Inv, TypeOK, Others
<1>11. new.id < nextId' /\ Supersedes(new, rows[k], nextId) /\ new.id # 0
  BY <1>1, <1>2, <1>4 DEF Supersedes
<1>12. OtherLogs(k)
  BY <1>1, <1>2 DEF Inv, TypeOK, OtherLogs
<1>13. IsCoherentOrBlank(new.variants, new.pins, new.off)
  BY <1>1, <1>4 DEF IsCoherentOrBlank, IsCoherent
<1>14. LoadedInv' /\ FlushInv' /\ AlwaysCoherent'
  BY <1>1, <1>3, <1>9, <1>10, <1>11, <1>12, <1>13, WriteKeeps
<1> QED BY <1>6, <1>8, <1>14 DEF Inv

\* The guarded commit of a PATCH writes over exactly the flag that was loaded.
LEMMA UpdateStep ==
    ASSUME Inv, NEW o \in Operators, NEW p \in Patch, Update(o, p)
    PROVE  Inv' /\ Register!Update(key[o]) /\ loaded[o] = rows[key[o]]
<1> DEFINE k == key[o]  row == rows[key[o]]  new == Patched(row, row, p)
<1>1. /\ SchemaAccepts(p) /\ ServiceAccepts(loaded[o], p)
      /\ row.id = loaded[o].id /\ row.ver = loaded[o].ver
      /\ pc[o] = "flush"
      /\ pc' = [pc EXCEPT ![o] = "reread"]
      /\ rows' = [rows EXCEPT ![k] = Patched(row, loaded[o], p)]
      /\ loaded' = [loaded EXCEPT ![o] = rows'[k]]
      /\ audit' = [audit EXCEPT ![k] = Append(@, "updated")]
      /\ UNCHANGED <<nextId, copy, kind, key, mark>>
  BY DEF Update, At, Record, Guard, Stored
<1>2. k \in Keys /\ nextId \in Nat /\ row \in FlagType /\ row.id \in Nat
      /\ row.ver \in Nat
  BY DEF Inv, TypeOK, FlagType
<1>3. loaded[o] = row /\ row.id # 0 /\ row.id < nextId
  BY <1>1 DEF Inv, LoadedInv
<1>4. /\ new \in FlagType /\ new.id = row.id /\ new.ver = row.ver + 1
      /\ IsCoherentOrBlank(new.variants, new.pins, new.off)
  BY <1>1, <1>2, <1>3, PatchExact
<1>5. Register!Update(k)
  <2>1. DEFINE c == [variants |-> new.variants, pins |-> new.pins, off |-> new.off]
  <2>2. c \in Register!Content /\ Register!Coherent(c)
    <3> HIDE DEF new
    <3> QED BY <1>4 DEF Register!Content, Register!Coherent, IsCoherentOrBlank, IsCoherent, FlagType
  <2>3. Register!Flag(row.id, row.ver + 1, c) = new
    <3> HIDE DEF new, row
    <3> QED BY <1>4 DEF Register!Flag, FlagType
  <2>4. row # Register!NoFlag
    BY <1>3 DEF Register!NoFlag, Register!Flag
  <2>5. rows' = [rows EXCEPT ![k] = Register!Flag(@.id, @.ver + 1, c)]
    <3> HIDE DEF c, new
    <3> QED BY <1>1, <1>3, <2>3 DEF new
  <2> HIDE DEF c
  <2> QED BY <1>1, <2>2, <2>4, <2>5 DEF Register!Update
<1>6. rows' = [rows EXCEPT ![k] = new]
  BY <1>1, <1>3
<1> HIDE DEF new
<1>7. rows'[k] = new
  BY <1>2, <1>4, <1>6 DEF Inv, TypeOK
<1>8. TypeOK'
  <2>1. rows' \in [Keys -> FlagType] /\ loaded' \in [Operators -> FlagType]
    BY <1>1, <1>2, <1>4, <1>6, <1>7 DEF Inv, TypeOK
  <2>2. audit' \in [Keys -> Seq({"created", "updated", "deleted"})]
    BY <1>1, <1>2 DEF Inv, TypeOK
  <2>3. pc' \in [Operators -> Steps]
    BY <1>1 DEF Inv, TypeOK, Steps
  <2> QED BY <1>1, <2>1, <2>2, <2>3 DEF Inv, TypeOK
<1>9. pc'[o] = "reread" /\ loaded'[o] = new /\ key'[o] = k
  BY <1>1, <1>7 DEF Inv, TypeOK
<1>10. Others(o)
  BY <1>1 DEF Inv, TypeOK, Others
<1>11. new.id < nextId' /\ Supersedes(new, row, nextId) /\ new.id # 0
       /\ new.id # nextId
  BY <1>1, <1>2, <1>3, <1>4 DEF Supersedes
<1>12. OtherLogs(k)
  BY <1>1, <1>2 DEF Inv, TypeOK, OtherLogs
<1>13. LoadedInv' /\ FlushInv' /\ AlwaysCoherent'
  BY <1>1, <1>4, <1>6, <1>9, <1>10, <1>11, <1>12, WriteKeeps
<1> QED BY <1>3, <1>5, <1>8, <1>13 DEF Inv

LEMMA DeleteStep ==
    ASSUME Inv, NEW o \in Operators, Delete(o)
    PROVE  Inv' /\ Register!Delete(key[o])
<1> DEFINE k == key[o]
<1>1. /\ rows[k].id = loaded[o].id /\ pc[o] = "flush"
      /\ pc' = [pc EXCEPT ![o] = "idle"] /\ kind' = [kind EXCEPT ![o] = "GET"]
      /\ key' = [key EXCEPT ![o] = AnyKey]
      /\ loaded' = [loaded EXCEPT ![o] = NoFlag]
      /\ mark' = [mark EXCEPT ![o] = 0]
      /\ rows' = [rows EXCEPT ![k] = NoFlag]
      /\ audit' = [audit EXCEPT ![k] = Append(@, "deleted")]
      /\ UNCHANGED <<nextId, copy>>
  BY DEF Delete, Answer, At, Record, Guard, Stored
<1>2. k \in Keys /\ AnyKey \in Keys /\ nextId \in Nat /\ nextId # 0
  BY DEF Inv, TypeOK, LoadedInv, AnyKey
<1>3. rows[k].id # 0
  BY <1>1 DEF Inv, LoadedInv
<1>4. Register!Delete(k)
  <2>1. Register!NoFlag = NoFlag
    BY DEF Register!Flag, Register!NoFlag, NoFlag, Flag
  <2>2. rows[k] # NoFlag
    BY <1>3, NoFlagType
  <2> QED BY <1>1, <2>1, <2>2 DEF Register!Delete
<1>5. TypeOK'
  <2>1. audit' \in [Keys -> Seq({"created", "updated", "deleted"})]
    BY <1>1, <1>2 DEF Inv, TypeOK
  <2>2. pc' \in [Operators -> Steps] /\ kind' \in [Operators -> Methods]
    BY <1>1 DEF Inv, TypeOK, Steps, Methods
  <2> QED BY <1>1, <1>2, <2>1, <2>2, NoFlagType DEF Inv, TypeOK
<1>6. pc'[o] = "idle"
  BY <1>1 DEF Inv, TypeOK
<1>7. Others(o)
  BY <1>1 DEF Inv, TypeOK, Others
<1>8. /\ NoFlag.id < nextId' /\ NoFlag.id # nextId
      /\ Supersedes(NoFlag, rows[k], nextId)
  BY <1>1, <1>2, NoFlagType DEF Supersedes
<1>9. IsCoherentOrBlank(NoFlag.variants, NoFlag.pins, NoFlag.off)
  BY DEF IsCoherentOrBlank, IsCoherent, NoFlag, Flag
<1>12. OtherLogs(k)
  BY <1>1, <1>2 DEF Inv, TypeOK, OtherLogs
<1>13. LoadedInv' /\ FlushInv' /\ AlwaysCoherent'
  BY <1>1, <1>6, <1>7, <1>8, <1>9, <1>12, NoFlagType, WriteKeeps
<1> QED BY <1>4, <1>5, <1>13 DEF Inv

LEMMA StutterInv == Inv /\ UNCHANGED vars => Inv'
<1> SUFFICES ASSUME Inv, UNCHANGED vars PROVE Inv'
  OBVIOUS
<1>1. TypeOK'
  BY DEF vars, Inv, TypeOK
<1>2. \A f, r : Dated(f, r) <=> Dated(f, r)'
  BY DEF Dated
<1>3. LoadedInv' /\ FlushInv' /\ AlwaysCoherent'
  BY <1>2 DEF vars, Inv, LoadedInv, FlushInv, Current, Guard, Stored, AlwaysCoherent,
          Dated
<1> QED BY <1>1, <1>3 DEF Inv

\* Of the steps that change what is stored there are three, and each is the
\* register's; the others leave the register alone.
LEMMA NextStep ==
    ASSUME Inv, Next
    PROVE  /\ Inv'
           /\ Register!Next \/ UNCHANGED <<rows, nextId>>
<1>1. PICK o \in Operators :
        \/ \E k \in Keys, m \in Methods : Select(o, k, m)
        \/ LoadRules(o) \/ LoadVariants(o) \/ Get(o)
        \/ \E k \in Keys : Post(o, k)
        \/ \E v \in VariantSets, p \in PinSets, f \in Offs \cup {NoVariant} :
              Insert(o, v, p, f)
        \/ DuplicateKey(o) \/ VersionMismatch(o)
        \/ \E p \in Patch : Invalid(o, p) \/ Update(o, p)
        \/ Flush(o) \/ StaleUpdate(o) \/ Delete(o) \/ StaleDelete(o)
        \/ Reread(o) \/ RereadNew(o)
  BY DEF Next
<1>2. key[o] \in Keys
  BY DEF Inv, TypeOK
<1>3. CASE \E k \in Keys, m \in Methods : Select(o, k, m)
  BY <1>3, SelectStep DEF Select
<1>4. CASE LoadRules(o) \/ LoadVariants(o)
  BY <1>4, LoadStep DEF LoadRules, LoadVariants
<1>5. CASE Get(o)
  BY <1>5, GetStep DEF Get
<1>6. CASE \E k \in Keys : Post(o, k)
  BY <1>6, PostStep DEF Post
<1>7. CASE \E v \in VariantSets, p \in PinSets, f \in Offs \cup {NoVariant} :
              Insert(o, v, p, f)
  BY <1>2, <1>7, InsertStep DEF Register!Next
<1>8. CASE Flush(o)
  BY <1>8, FlushStep DEF Flush
<1>9. CASE DuplicateKey(o) \/ VersionMismatch(o) \/ StaleUpdate(o) \/ StaleDelete(o)
  <2>1. \E step \in Steps : Refuse(o, step)
    BY <1>9 DEF DuplicateKey, VersionMismatch, StaleUpdate, StaleDelete, Steps
  <2> QED BY <2>1, RefusalStep DEF Refuse
<1>10. CASE \E p \in Patch : Invalid(o, p)
  <2>1. Refuse(o, "decide")
    BY <1>10 DEF Invalid
  <2> QED BY <2>1, RefusalStep DEF Refuse
<1>11. CASE \E p \in Patch : Update(o, p)
  BY <1>2, <1>11, UpdateStep DEF Register!Next
<1>12. CASE Delete(o)
  BY <1>2, <1>12, DeleteStep DEF Register!Next
<1>13. CASE Reread(o)
  BY <1>13, RereadStep DEF Reread
<1>14. CASE RereadNew(o)
  BY <1>14, RereadNewStep DEF RereadNew
<1> QED BY <1>1, <1>3, <1>4, <1>5, <1>6, <1>7, <1>8, <1>9, <1>10, <1>11, <1>12, <1>13,
        <1>14

LEMMA InvHolds == Spec => []Inv
<1>1. Inv /\ [Next]_vars => Inv'
  BY NextStep, StutterInv
<1> QED BY <1>1, InitInv, PTL DEF Spec

\* Every variable of the store keeps its type: in particular no flag is ever
\* stored with a variant set, a pin or an off_variant outside the allowed ones.
THEOREM StoreTypes == Spec => []TypeOK
<1>1. Inv => TypeOK
  BY DEF Inv
<1> QED BY <1>1, InvHolds, PTL

\* update_flag's two-sided check and the version guard keep every stored flag
\* coherent, whatever PATCHes are checked against torn reads meanwhile.
THEOREM CoherenceTheorem == Spec => []AlwaysCoherent
<1>1. Inv => AlwaysCoherent
  BY DEF Inv
<1> QED BY <1>1, InvHolds, PTL

\* What a reader's three SELECTs have found belongs to one version of the flag,
\* if the row still is at the version the first of them saw.
THEOREM ReadTheorem == Spec => []ReadInv
<1>1. Inv => ReadInv
  BY DEF Inv, ReadInv
<1> QED BY <1>1, InvHolds, PTL

\* A transaction ends with the commit of what it was for, or is rolled back.
LEMMA FlushEnds ==
    ASSUME Inv, Next, NEW o \in Operators, pc[o] = "flush", pc'[o] # "flush"
    PROVE  \/ \E p \in Patch : Update(o, p)
           \/ Delete(o) \/ StaleUpdate(o) \/ StaleDelete(o)
<1>1. pc \in [Operators -> Steps]
  BY DEF Inv, TypeOK
<1>2. ASSUME NEW u \in Operators, NEW step, NEW next, At(u, step, next)
      PROVE  u = o /\ step = "flush"
  BY <1>1, <1>2 DEF At
<1>3. ~ \E u \in Operators : \/ LoadRules(u) \/ LoadVariants(u) \/ Get(u)
                            \/ DuplicateKey(u) \/ VersionMismatch(u) \/ Flush(u)
                            \/ Reread(u) \/ RereadNew(u)
  BY <1>2 DEF LoadRules, LoadVariants, Get, DuplicateKey, VersionMismatch, Flush,
         Reread, RereadNew, Refuse, Answer
<1>4. ~ \E u \in Operators : \/ \E k \in Keys, m \in Methods : Select(u, k, m)
                            \/ \E k \in Keys : Post(u, k)
                            \/ \E p \in Patch : Invalid(u, p)
  BY <1>2 DEF Select, Post, Invalid, Refuse, Answer
<1>5. ~ \E u \in Operators, v \in VariantSets, p \in PinSets,
            f \in Offs \cup {NoVariant} : Insert(u, v, p, f)
  BY <1>2 DEF Insert
<1>6. PICK u \in Operators : \/ \E p \in Patch : Update(u, p)
                             \/ Delete(u) \/ StaleUpdate(u) \/ StaleDelete(u)
  BY <1>3, <1>4, <1>5 DEF Next
<1>7. u = o
  BY <1>2, <1>6 DEF Update, Delete, StaleUpdate, StaleDelete, Refuse, Answer
<1> QED BY <1>6, <1>7

\* The optimistic locking of update_flag: an accepted PATCH replaces exactly the
\* flag its author was looking at.
THEOREM LockTheorem == Spec => NoLostUpdate
<1> DEFINE A == \A o \in Operators : pc[o] = "flush" /\ pc'[o] = "reread" =>
                   LET copied == copy[o][key[o]] IN
                   copied.id = rows[key[o]].id => copied = rows[key[o]]
<1>1. Inv /\ [Next]_vars => [A]_vars
  <2> SUFFICES ASSUME Inv, Next, NEW o \in Operators,
                      pc[o] = "flush", pc'[o] = "reread",
                      copy[o][key[o]].id = rows[key[o]].id
               PROVE  copy[o][key[o]] = rows[key[o]]
    OBVIOUS
  <2>1. pc \in [Operators -> Steps]
    BY DEF Inv, TypeOK
  <2>2. PICK p \in Patch : Update(o, p)
    BY <2>1, FlushEnds DEF Delete, StaleUpdate, StaleDelete, Refuse, Answer, At
  <2>3. Current(o) /\ loaded[o] = rows[key[o]]
    BY <2>2, UpdateStep DEF Update, Inv, FlushInv
  <2>4. loaded[o].id # 0
    BY DEF Inv, LoadedInv
  <2>5. key[o] \in Keys /\ copy[o][key[o]].id # 0
    BY <2>3, <2>4 DEF Inv, TypeOK
  <2>6. Dated(copy[o][key[o]], rows[key[o]])
    BY <2>5 DEF Inv, LoadedInv
  <2> QED BY <2>3, <2>6 DEF Dated, Current
<1>2. Spec => [][A]_vars
  BY <1>1, InvHolds, PTL DEF Spec
<1> QED BY <1>2 DEF NoLostUpdate

\* The version guard orders the audit ids of a flag's updates and deletions as
\* their commits, though they are taken before the row lock.
THEOREM AuditOrderTheorem == Spec => AuditInOrder
<1> DEFINE A == \A o \in Operators :
              pc[o] = "flush" /\ pc'[o] # "flush" /\ audit'[key[o]] # audit[key[o]] =>
                  mark[o] = Len(audit[key[o]])
<1>1. Inv /\ [Next]_vars => [A]_vars
  <2> SUFFICES ASSUME Inv, Next, NEW o \in Operators, pc[o] = "flush",
                      pc'[o] # "flush", audit'[key[o]] # audit[key[o]]
               PROVE  mark[o] = Len(audit[key[o]])
    OBVIOUS
  <2>1. Guard(o)
    BY FlushEnds DEF Update, Delete, StaleUpdate, StaleDelete, Refuse
  <2> QED BY <2>1 DEF Inv, FlushInv
<1>2. Spec => [][A]_vars
  BY <1>1, InvHolds, PTL DEF Spec
<1> QED BY <1>2 DEF AuditInOrder

\* Every change of a key's row comes with its entry in the key's log.
Logged(k, row, action) ==
    /\ rows' = [rows EXCEPT ![k] = row]
    /\ audit' = [audit EXCEPT ![k] = Append(@, action)]

LEMMA ChangeIsLogged ==
    ASSUME Inv, Next, ~ UNCHANGED <<rows, audit>>
    PROVE  \E k \in Keys, row \in FlagType :
              \/ rows[k].id = 0 /\ row.id # 0 /\ row.ver = 1 /\ Logged(k, row, "created")
              \/ /\ rows[k].id # 0 /\ row.id = rows[k].id /\ row.ver = rows[k].ver + 1
                 /\ Logged(k, row, "updated")
              \/ rows[k].id # 0 /\ row.id = 0 /\ Logged(k, row, "deleted")
<1>1. PICK o \in Operators :
         \/ \E v \in VariantSets, p \in PinSets, f \in Offs \cup {NoVariant} :
               Insert(o, v, p, f)
         \/ \E p \in Patch : Update(o, p)
         \/ Delete(o)
  BY DEF Next, Select, LoadRules, LoadVariants, Get, Post, DuplicateKey,
         VersionMismatch, Invalid, Flush, StaleUpdate, StaleDelete, Refuse, Reread,
         RereadNew
<1>2. key[o] \in Keys /\ rows[key[o]] \in FlagType /\ nextId \in Nat /\ nextId # 0
  BY DEF Inv, TypeOK, LoadedInv
<1>3. ASSUME NEW v \in VariantSets, NEW p \in PinSets,
             NEW f \in Offs \cup {NoVariant}, Insert(o, v, p, f)
      PROVE  /\ Flag(nextId, 1, v, p, f) \in FlagType
             /\ Flag(nextId, 1, v, p, f).id # 0 /\ Flag(nextId, 1, v, p, f).ver = 1
             /\ rows[key[o]].id = 0
             /\ Logged(key[o], Flag(nextId, 1, v, p, f), "created")
  BY <1>2, <1>3 DEF Insert, Record, Logged, Flag, FlagType
<1>4. ASSUME NEW p \in Patch, Update(o, p)
      PROVE  LET row == Patched(rows[key[o]], loaded[o], p) IN
             /\ row \in FlagType /\ row.id = rows[key[o]].id /\ row.id # 0
             /\ row.ver = rows[key[o]].ver + 1
             /\ Logged(key[o], row, "updated")
  <2>1. /\ SchemaAccepts(p) /\ ServiceAccepts(loaded[o], p) /\ pc[o] = "flush"
        /\ Logged(key[o], Patched(rows[key[o]], loaded[o], p), "updated")
    BY <1>4 DEF Update, Record, Logged, At
  <2>2. loaded[o] = rows[key[o]] /\ loaded[o].id # 0
    BY <1>4, <2>1, UpdateStep DEF Inv, LoadedInv
  <2> QED BY <1>2, <2>1, <2>2, PatchExact
<1>5. ASSUME Delete(o)
      PROVE  rows[key[o]].id # 0 /\ Logged(key[o], NoFlag, "deleted")
  BY <1>5 DEF Delete, Record, Logged, Guard, Stored, Answer, At, Inv, LoadedInv
<1> QED BY <1>1, <1>2, <1>3, <1>4, <1>5, NoFlagType

\* What an entry adds to a log that replays.
LEMMA ReplayStep ==
    ASSUME NEW log \in Seq({"created", "updated", "deleted"}),
           NEW old \in FlagType, NEW row \in FlagType, Replays(log, old),
           NEW action \in {"created", "updated", "deleted"},
           \/ old.id = 0 /\ row.id # 0 /\ row.ver = 1 /\ action = "created"
           \/ /\ old.id # 0 /\ row.id = old.id /\ row.ver = old.ver + 1
              /\ action = "updated"
           \/ old.id # 0 /\ row.id = 0 /\ action = "deleted"
    PROVE  Replays(Append(log, action), row)
<1> DEFINE n == Len(log)  new == Append(log, action)
<1>1. /\ n \in Nat /\ Len(new) = n + 1 /\ DOMAIN log = 1 .. n /\ DOMAIN new = 1 .. n + 1
      /\ new[n + 1] = action /\ \A i \in 1 .. n : new[i] = log[i]
      /\ new # <<>> /\ (log = <<>> <=> n = 0)
  OBVIOUS
<1>2. /\ old.id # 0 <=> n # 0 /\ log[n] # "deleted"
      /\ \A i \in 1 .. n : log[i] = "created" => i = 1 \/ log[i - 1] = "deleted"
  BY <1>1 DEF Replays
<1> HIDE DEF n, new
<1>3. row.id # 0 <=> new[n + 1] # "deleted"
  BY <1>1
<1>4. ASSUME row.id # 0
      PROVE  \E i \in 1 .. n + 1 : /\ new[i] = "created"
                                   /\ \A j \in i + 1 .. n + 1 : new[j] = "updated"
                                   /\ row.ver = n + 1 - i + 1
  <2>1. CASE action = "created"
    <3>1. row.ver = 1 /\ new[n + 1] = "created"
      BY <1>1, <1>4, <2>1
    <3>2. n + 1 - (n + 1) + 1 = 1 /\ (n + 1) + 1 .. n + 1 = {} /\ n + 1 \in 1 .. n + 1
      BY <1>1
    <3> QED BY <3>1, <3>2
  <2>2. CASE action = "updated"
    <3>1. PICK i \in 1 .. n : /\ log[i] = "created"
                              /\ \A j \in i + 1 .. n : log[j] = "updated"
                              /\ old.ver = n - i + 1
      BY <1>1, <2>2 DEF Replays, n
    <3>2. \A j \in i + 1 .. n + 1 : new[j] = "updated"
      BY <1>1, <2>2, <3>1
    <3>3. row.ver = n + 1 - i + 1
      BY <1>1, <2>2, <3>1
    <3> QED BY <1>1, <3>1, <3>2, <3>3
  <2> QED BY <1>4, <2>1, <2>2
<1>5. ASSUME NEW i \in 1 .. n + 1, new[i] = "created"
      PROVE  i = 1 \/ new[i - 1] = "deleted"
  <2>1. CASE i = n + 1
    BY <1>1, <1>2, <1>5, <2>1
  <2>2. CASE i # n + 1
    <3>1. i \in 1 .. n /\ log[i] = "created"
      BY <1>1, <1>5, <2>2
    <3> QED BY <1>1, <1>2, <3>1
  <2> QED BY <2>1, <2>2
<1>6. Replays(new, row)
  <2>1. Len(new) = n + 1 /\ DOMAIN new = 1 .. n + 1 /\ new # <<>>
    BY <1>1
  <2>2. ASSUME row.id # 0
        PROVE  \E i \in {m \in DOMAIN new : new[m] = "created"} :
                  /\ \A j \in i + 1 .. Len(new) : new[j] = "updated"
                  /\ row.ver = Len(new) - i + 1
    <3>1. PICK i \in 1 .. n + 1 : /\ new[i] = "created"
                                  /\ \A j \in i + 1 .. n + 1 : new[j] = "updated"
                                  /\ row.ver = n + 1 - i + 1
      BY <1>4, <2>2
    <3>2. i \in {m \in DOMAIN new : new[m] = "created"}
      BY <2>1, <3>1, Zenon
    <3>5. i + 1 .. Len(new) = i + 1 .. n + 1
      BY <2>1
    <3>3. \A j \in i + 1 .. Len(new) : new[j] = "updated"
      BY <3>1, <3>5, Zenon
    <3>4. row.ver = Len(new) - i + 1
      <4>1. n \in Nat /\ i \in Int
        BY <1>1
      <4>2. Len(new) - i + 1 = n + 1 - i + 1
        BY <2>1, <4>1
      <4> QED BY <3>1, <4>2, Zenon
    <3> QED BY <3>2, <3>3, <3>4, Zenon
  <2>3. \A i \in {m \in DOMAIN new : new[m] = "created"} : i = 1 \/ new[i - 1] = "deleted"
    BY <1>5, <2>1
  <2> QED BY <1>3, <2>1, <2>2, <2>3, Zenon DEF Replays
<1> QED BY <1>6 DEF new

\* The audit log tells what the table holds: the entry and the change it records
\* are committed together, or neither is.
THEOREM AuditTheorem == Spec => []AuditReplays
<1>1. Init => AuditReplays
  <2>1. Replays(<<>>, NoFlag)
    BY NoFlagType DEF Replays
  <2>2. ASSUME Init, NEW k \in Keys PROVE audit[k] = <<>> /\ rows[k] = NoFlag
    <3>1. audit = [j \in Keys |-> <<>>] /\ rows = [j \in Keys |-> NoFlag]
      BY <2>2, Zenon DEF Init
    <3> QED BY <3>1
  <2> QED BY <2>1, <2>2, Zenon DEF AuditReplays
<1>2. Inv /\ AuditReplays /\ [Next]_vars => AuditReplays'
  <2> SUFFICES ASSUME Inv, AuditReplays, [Next]_vars, NEW k \in Keys
               PROVE  Replays(audit'[k], rows'[k])
    BY DEF AuditReplays, Replays
  <2>1. /\ rows[k] \in FlagType /\ rows \in [Keys -> FlagType]
        /\ audit[k] \in Seq({"created", "updated", "deleted"})
        /\ audit \in [Keys -> Seq({"created", "updated", "deleted"})]
        /\ Replays(audit[k], rows[k])
    BY DEF Inv, TypeOK, AuditReplays
  <2>2. CASE UNCHANGED <<rows, audit>>
    BY <2>1, <2>2
  <2>3. CASE Next /\ ~ UNCHANGED <<rows, audit>>
    <3>1. PICK j \in Keys, row \in FlagType, action \in {"created", "updated", "deleted"} :
             /\ Logged(j, row, action)
             /\ \/ rows[j].id = 0 /\ row.id # 0 /\ row.ver = 1 /\ action = "created"
                \/ /\ rows[j].id # 0 /\ row.id = rows[j].id /\ row.ver = rows[j].ver + 1
                   /\ action = "updated"
                \/ rows[j].id # 0 /\ row.id = 0 /\ action = "deleted"
      BY <2>3, ChangeIsLogged
    <3>2. CASE j = k
      <4>1. rows'[k] = row /\ audit'[k] = Append(audit[k], action)
        BY <2>1, <3>1, <3>2 DEF Logged
      <4>2. Replays(Append(audit[k], action), row)
        BY <2>1, <3>1, <3>2, ReplayStep
      <4> QED BY <4>1, <4>2
    <3>3. CASE j # k
      BY <2>1, <3>1, <3>3 DEF Logged
    <3> QED BY <3>2, <3>3
  <2> QED BY <2>2, <2>3 DEF vars
<1> QED BY <1>1, <1>2, InvHolds, PTL DEF Spec

\* The store implements FlagRegister: requests of several SELECTs and a
\* transaction amount to one atomic change each.
THEOREM StoreRefinesRegister == Spec => RegisterSpec
<1>1. Init => Register!Init
  <2>1. Register!NoFlag = NoFlag
    BY DEF Register!Flag, Register!NoFlag, NoFlag, Flag
  <2> QED BY <2>1 DEF Init, Register!Init
<1>2. Inv /\ [Next]_vars => [Register!Next]_<<rows, nextId>>
  BY NextStep DEF vars
<1> QED BY <1>1, <1>2, InvHolds, PTL DEF Spec, RegisterSpec, Register!Spec
=============================================================================
