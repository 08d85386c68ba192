--------------------------- MODULE KeyCacheProofs ---------------------------
(***************************************************************************)
(* Proofs about KeyCache, for any keys, processes, requests, revocations,  *)
(* and any auth_cache_seconds.                                             *)
(***************************************************************************)
EXTENDS KeyCache, TLAPS

USE TimesAssumption, SomeAssumption, ScopesAssumption

Inv == TypeOK /\ SinceInv /\ EntryInv /\ LookupInv /\ QuietInv

LEMMA AnyType == AnyKey \in Keys /\ AnyProc \in Procs /\ Horizon \in Nat
                 /\ TTL <= Horizon /\ Delay <= Horizon
BY DEF AnyKey, AnyProc, Horizon

LEMMA NoReqType == NoReq \in ReqType /\ LookupOK(NoReq) /\ NoReq.pc = "idle"
<1>1. 0 \in 0 .. Delay /\ 0 \in 0 .. Horizon
  BY AnyType
<1>2. NoReq \in ReqType
  BY <1>1, AnyType DEF NoReq, ReqType
<1> QED BY <1>2 DEF NoReq, LookupOK, Inside

LEMMA InitInv == Init => Inv
<1> SUFFICES ASSUME Init PROVE Inv
  OBVIOUS
<1>1. TypeOK
  BY NoReqType, AnyType DEF Init, TypeOK
<1>2. SinceInv /\ EntryInv
  BY DEF Init, SinceInv, EntryInv
<1>3. LookupInv
  BY NoReqType DEF Init, LookupInv
<1>4. QuietInv
  BY DEF Init, QuietInv
<1> QED BY <1>1, <1>2, <1>3, <1>4 DEF Inv

-----------------------------------------------------------------------------
(* What a step keeps when keys are only minted and revoked.                *)

Onward ==
    /\ \A k \in Keys : keys[k] = "revoked" => keys'[k] = "revoked"
    /\ \A k \in Keys :
          keys[k] # "none" => keys'[k] # "none" /\ granted'[k] = granted[k]

LEMMA ReqFacts ==
    ASSUME Inv, NEW r \in Requests
    PROVE  /\ req \in [Requests -> ReqType]
           /\ req[r] \in ReqType /\ LookupOK(req[r])
           /\ req[r].pc \in {"idle", "select", "resume", "touch"} \cup Inside
           /\ req[r].key \in Keys /\ req[r].target \in Keys
           /\ req[r].proc \in Procs /\ req[r].need \in Scopes
           /\ req[r].age \in 0 .. Delay /\ req[r].late \in 0 .. Horizon
           /\ req[r].genuine \in BOOLEAN /\ req[r].bootstrap \in BOOLEAN
           /\ req[r].found \in {"none", "live", "revoked"}
<1>1. req[r] \in ReqType
  BY DEF Inv, TypeOK
<1> QED BY <1>1 DEF Inv, TypeOK, LookupInv, ReqType

\* A step of one request, which becomes q.
LEMMA ReqStep ==
    ASSUME Inv, NEW r \in Requests, NEW q \in ReqType,
           req' = [req EXCEPT ![r] = q], LookupOK(q)', Onward, UNCHANGED since,
           \A k \in Keys : keys'[k] = "none" => keys[k] = "none"
    PROVE  /\ req' \in [Requests -> ReqType] /\ SinceInv' /\ LookupInv'
           /\ req'[r] = q /\ \A u \in Requests \ {r} : req'[u] = req[u]
<1>1. /\ req' \in [Requests -> ReqType] /\ req'[r] = q
      /\ \A u \in Requests \ {r} : req'[u] = req[u]
  BY DEF Inv, TypeOK
<1>2. SinceInv'
  BY DEF Inv, SinceInv, Onward
<1>3. LookupInv'
  <2> SUFFICES ASSUME NEW u \in Requests PROVE LookupOK(req[u])'
    BY DEF LookupInv
  <2>1. CASE u = r
    BY <1>1, <2>1 DEF LookupOK
  <2>2. CASE u # r
    BY <1>1, <2>2, ReqFacts DEF LookupOK, Onward
  <2> QED BY <2>1, <2>2
<1> QED BY <1>1, <1>2, <1>3

\* It makes no other lookup pending.
LEMMA PendingStep ==
    ASSUME NEW r \in Requests, \A u \in Requests \ {r} : req'[u] = req[u],
           ~(req'[r].pc = "resume" /\ req'[r].found = "live"),
           NEW p \in Procs, NEW k \in Keys, Pending(p, k)'
    PROVE  Pending(p, k)
<1>1. PICK u \in Requests : /\ req'[u].pc = "resume" /\ req'[u].proc = p
                            /\ req'[u].key = k /\ Verified(u)'
  BY DEF Pending
<1>2. u # r
  BY <1>1 DEF Verified
<1> QED BY <1>1, <1>2 DEF Pending, Verified

\* One that leaves the caches as they are.
LEMMA QuietRequest ==
    ASSUME Inv, NEW r \in Requests, NEW q \in ReqType,
           req' = [req EXCEPT ![r] = q], LookupOK(q)', Onward,
           \A k \in Keys : keys'[k] = "none" => keys[k] = "none",
           keys' \in [Keys -> {"none", "live", "revoked"}],
           granted' \in [Keys -> SUBSET Scopes],
           UNCHANGED <<since, cache, handled>>,
           q.pc # "resume"
    PROVE  Inv'
<1>1. /\ req' \in [Requests -> ReqType] /\ SinceInv' /\ LookupInv'
      /\ req'[r] = q /\ \A u \in Requests \ {r} : req'[u] = req[u]
  BY ReqStep
<1>2. TypeOK' /\ EntryInv'
  BY <1>1 DEF Inv, TypeOK, EntryInv, Onward
<1>3. QuietInv'
  <2> SUFFICES ASSUME NEW p \in Procs, NEW k \in Keys, handled[p][k] = "quiet"
               PROVE  keys'[k] = "revoked" /\ cache[p][k] = 0 /\ ~Pending(p, k)'
    BY DEF QuietInv
  <2>1. keys[k] = "revoked" /\ cache[p][k] = 0 /\ ~Pending(p, k)
    BY DEF Inv, QuietInv
  <2> QED BY <1>1, <2>1, PendingStep DEF Onward
<1> QED BY <1>1, <1>2, <1>3 DEF Inv

\* ... and the keys too.
LEMMA SilentRequest ==
    ASSUME Inv, NEW r \in Requests, NEW q \in ReqType,
           req' = [req EXCEPT ![r] = q], LookupOK(q), q.pc # "resume",
           UNCHANGED <<keys, granted, since, cache, handled>>
    PROVE  Inv'
<1>1. /\ Onward /\ \A k \in Keys : keys'[k] = "none" => keys[k] = "none"
      /\ keys' \in [Keys -> {"none", "live", "revoked"}]
      /\ granted' \in [Keys -> SUBSET Scopes]
  BY DEF Onward, Inv, TypeOK
<1>2. LookupOK(q)'
  BY DEF LookupOK
<1> QED BY <1>1, <1>2, QuietRequest

\* Admit lets in whoever holds the scope.
LEMMA AdmitOK ==
    ASSUME NEW q \in ReqType, q.genuine, keys[q.key] # "none",
           q.late > 0 => keys[q.key] = "revoked",
           q.late < Horizon \/ q.late = 0
    PROVE  Admit(q) \in ReqType /\ LookupOK(Admit(q)) /\ Admit(q).pc # "resume"
<1> DEFINE in == [q EXCEPT !.pc = "accepted", !.found = "none"]
<1>1. CASE Admit(q) = NoReq
  BY <1>1, NoReqType
<1>2. CASE Admit(q) = in /\ q.need \in Effective(granted[q.key])
  <2>1. /\ in \in ReqType /\ in.pc = "accepted" /\ in.key = q.key
        /\ in.genuine = q.genuine /\ in.need = q.need /\ in.late = q.late
    BY DEF ReqType, Inside
  <2> HIDE DEF in
  <2>2. LookupOK(in)
    BY <1>2, <2>1 DEF LookupOK
  <2> QED BY <1>2, <2>1, <2>2
<1> QED BY <1>1, <1>2 DEF Admit

-----------------------------------------------------------------------------
(* Steps of require.                                                       *)

LEMMA ArriveStep ==
    ASSUME Inv, NEW r \in Requests, NEW p \in Procs, NEW n \in Scopes,
           NEW k \in Keys, NEW g \in BOOLEAN, Arrive(r, p, n, k, g)
    PROVE  Inv'
<1> DEFINE q == [NoReq EXCEPT !.pc = "select", !.proc = p, !.need = n, !.key = k,
                              !.genuine = g, !.late = since[k]]
<1>1. UNCHANGED <<keys, granted, since, cache, handled>>
  BY DEF Arrive
<1>2. cache[p][k] \in 0 .. TTL /\ since[k] \in 0 .. Horizon
  BY DEF Inv, TypeOK
<1>3. /\ q \in ReqType /\ q.pc = "select" /\ q.key = k /\ q.genuine = g
      /\ q.late = since[k]
  BY <1>2, NoReqType DEF NoReq, ReqType
<1>4. req' = [req EXCEPT ![r] = IF cache[p][k] = 0 THEN q
                                ELSE IF g THEN Admit(q) ELSE NoReq]
  BY DEF Arrive
<1>5. since[k] > 0 => keys[k] = "revoked"
  BY <1>2 DEF Inv, SinceInv
<1> HIDE DEF q
<1>6. CASE cache[p][k] = 0
  <2>1. req' = [req EXCEPT ![r] = q]
    BY <1>4, <1>6
  <2>2. LookupOK(q)
    BY <1>3, <1>5 DEF LookupOK, Inside
  <2> QED BY <1>1, <1>3, <2>1, <2>2, SilentRequest
<1>7. CASE cache[p][k] # 0 /\ g
  <2>1. req' = [req EXCEPT ![r] = Admit(q)]
    BY <1>4, <1>7, Zenon
  <2>2. keys[k] # "none" /\ since[k] < Horizon
    BY <1>2, <1>7, AnyType DEF Inv, EntryInv
  <2>3. Admit(q) \in ReqType /\ LookupOK(Admit(q)) /\ Admit(q).pc # "resume"
    BY <1>3, <1>5, <1>7, <2>2, AdmitOK
  <2> QED BY <1>1, <2>1, <2>3, SilentRequest
<1>8. CASE cache[p][k] # 0 /\ ~g
  <2>1. req' = [req EXCEPT ![r] = NoReq]
    BY <1>4, <1>8, Zenon
  <2> QED BY <1>1, <2>1, NoReqType, SilentRequest
<1> QED BY <1>6, <1>7, <1>8

LEMMA ArriveBootstrapStep ==
    ASSUME Inv, NEW r \in Requests, NEW p \in Procs, NEW n \in Scopes,
           ArriveBootstrap(r, p, n)
    PROVE  Inv'
<1> DEFINE q == [NoReq EXCEPT !.pc = "accepted", !.proc = p, !.need = n,
                              !.bootstrap = TRUE]
<1>1. /\ req' = [req EXCEPT ![r] = q]
      /\ UNCHANGED <<keys, granted, since, cache, handled>>
  BY DEF ArriveBootstrap
<1>2. /\ q \in ReqType /\ q.pc = "accepted" /\ q.bootstrap /\ q.late = 0
  BY NoReqType DEF NoReq, ReqType, Inside
<1> HIDE DEF q
<1>3. LookupOK(q)
  BY <1>2 DEF LookupOK
<1> QED BY <1>1, <1>2, <1>3, SilentRequest

LEMMA SelectStep ==
    ASSUME Inv, NEW r \in Requests, Select(r)
    PROVE  Inv'
<1>2. keys[req[r].key] \in {"none", "live", "revoked"}
  BY ReqFacts DEF Inv, TypeOK
<1>. PICK q \in ReqType :
        q = [req[r] EXCEPT !.pc = "resume", !.found = keys[req[r].key]]
  BY <1>2, ReqFacts DEF ReqType
<1>1. /\ req[r].pc = "select" /\ req' = [req EXCEPT ![r] = q]
      /\ UNCHANGED <<keys, granted, since, cache, handled>>
  BY ReqFacts DEF Select
<1>3. /\ q.pc = "resume" /\ q.found = keys[q.key]
      /\ q.key = req[r].key /\ q.late = req[r].late /\ q.age = req[r].age
  BY ReqFacts DEF ReqType
<1>4. q.found = "live" => since[q.key] = 0
  BY <1>3, ReqFacts DEF Inv, SinceInv
<1>5. LookupOK(q)'
  BY <1>1, <1>3, <1>4, ReqFacts DEF LookupOK, Inside
<1>6. Onward /\ \A k \in Keys : keys'[k] = "none" => keys[k] = "none"
  BY <1>1 DEF Onward
<1>7. /\ req' \in [Requests -> ReqType] /\ SinceInv' /\ LookupInv'
      /\ req'[r] = q /\ \A u \in Requests \ {r} : req'[u] = req[u]
  BY <1>1, <1>3, <1>5, <1>6, ReqStep
<1>8. TypeOK' /\ EntryInv'
  BY <1>1, <1>7 DEF Inv, TypeOK, EntryInv
<1>9. QuietInv'
  <2> SUFFICES ASSUME NEW p \in Procs, NEW k \in Keys, handled[p][k] = "quiet"
               PROVE  keys[k] = "revoked" /\ cache[p][k] = 0 /\ ~Pending(p, k)'
    BY <1>1 DEF QuietInv
  <2>1. keys[k] = "revoked" /\ cache[p][k] = 0 /\ ~Pending(p, k)
    BY DEF Inv, QuietInv
  <2>2. CASE q.found = "live"
    <3>1. q.key # k
      BY <1>3, <2>1, <2>2
    <3> QED BY <1>7, <2>1, <3>1 DEF Pending, Verified
  <2>3. CASE q.found # "live"
    BY <1>7, <2>1, <2>3, PendingStep
  <2> QED BY <2>1, <2>2, <2>3
<1> QED BY <1>7, <1>8, <1>9 DEF Inv

\* A verified lookup fills the cache of its process for TTL more ticks: within
\* the horizon, because its answer is at most Delay ticks old.
LEMMA ResumeStep ==
    ASSUME Inv, NEW r \in Requests, Resume(r)
    PROVE  Inv'
<1> DEFINE k == req[r].key  p == req[r].proc
<1>1. req[r].pc = "resume" /\ UNCHANGED <<keys, granted, since, handled>>
  BY DEF Resume
<1>2. CASE ~Verified(r)
  <2>1. req' = [req EXCEPT ![r] = NoReq] /\ UNCHANGED cache
    BY <1>2 DEF Resume
  <2> QED BY <1>1, <2>1, NoReqType, SilentRequest
<1>3. CASE Verified(r)
  <2>. PICK q \in ReqType : q = [req[r] EXCEPT !.pc = "touch", !.age = 0]
    <3>1. 0 \in 0 .. Delay
      OBVIOUS
    <3> QED BY <3>1, ReqFacts DEF ReqType
  <2>1. /\ req' = [req EXCEPT ![r] = q] /\ cache' = [cache EXCEPT ![p][k] = TTL]
        /\ Pending(p, k)
    BY <1>1, <1>3, ReqFacts DEF Resume, Pending
  <2>2. /\ q.pc = "touch" /\ q.found = "live" /\ q.genuine
        /\ q.key = k /\ q.late = req[r].late
    BY <1>3, ReqFacts DEF ReqType, Verified
  <2>3. LookupOK(q)'
    BY <1>1, <1>3, <2>2, ReqFacts DEF LookupOK, Verified, Inside
  <2>4. Onward /\ \A j \in Keys : keys'[j] = "none" => keys[j] = "none"
    BY <1>1 DEF Onward
  <2>5. /\ req' \in [Requests -> ReqType] /\ SinceInv' /\ LookupInv'
        /\ req'[r] = q /\ \A u \in Requests \ {r} : req'[u] = req[u]
    BY <1>1, <2>1, <2>2, <2>3, <2>4, ReqStep
  <2>6. /\ cache' \in [Procs -> [Keys -> 0 .. TTL]]
        /\ \A s \in Procs, j \in Keys :
              cache'[s][j] = IF s = p /\ j = k THEN TTL ELSE cache[s][j]
    <3>1. cache \in [Procs -> [Keys -> 0 .. TTL]]
      BY DEF Inv, TypeOK
    <3> QED BY <2>1, <3>1, ReqFacts
  <2>7. handled[p][k] # "quiet"
    BY <2>1, ReqFacts DEF Inv, QuietInv
  <2>8. keys[k] # "none" /\ since[k] + TTL <= Horizon
    <3>1. keys[k] # "none" /\ since[k] <= req[r].age
      BY <1>1, <1>3, ReqFacts DEF LookupOK, Verified
    <3>2. since[k] \in Nat
      BY ReqFacts, AnyType DEF Inv, TypeOK
    <3> QED BY <3>1, <3>2, ReqFacts DEF Horizon
  <2>9. TypeOK' /\ EntryInv'
    <3>1. TypeOK'
      BY <1>1, <2>5, <2>6 DEF Inv, TypeOK
    <3>2. EntryInv'
      BY <1>1, <2>6, <2>8 DEF Inv, EntryInv
    <3> QED BY <3>1, <3>2
  <2>10. QuietInv'
    <3> SUFFICES ASSUME NEW s \in Procs, NEW j \in Keys, handled[s][j] = "quiet"
                 PROVE  keys[j] = "revoked" /\ cache'[s][j] = 0 /\ ~Pending(s, j)'
      BY <1>1 DEF QuietInv
    <3>1. keys[j] = "revoked" /\ cache[s][j] = 0 /\ ~Pending(s, j)
      BY DEF Inv, QuietInv
    <3>2. ~Pending(s, j)'
      BY <2>2, <2>5, <3>1, PendingStep
    <3> QED BY <2>6, <2>7, <3>1, <3>2
  <2> QED BY <2>5, <2>9, <2>10 DEF Inv
<1> QED BY <1>2, <1>3

\* The end of a request, and of its verification.
LEMMA AnswerStep ==
    ASSUME Inv, NEW r \in Requests, Touch(r) \/ TouchFails(r) \/ Leave(r)
    PROVE  Inv'
<1>1. UNCHANGED <<keys, granted, since, cache, handled>>
  BY DEF Touch, TouchFails, Leave
<1>2. CASE Touch(r)
  <2>1. req[r].pc = "touch" /\ req' = [req EXCEPT ![r] = Admit(req[r])]
    BY <1>2, ReqFacts DEF Touch
  <2>2. req[r].genuine /\ keys[req[r].key] # "none" /\ req[r].late = 0
    BY <2>1, ReqFacts DEF LookupOK
  <2>3. /\ Admit(req[r]) \in ReqType /\ LookupOK(Admit(req[r]))
        /\ Admit(req[r]).pc # "resume"
    BY <2>2, ReqFacts, AdmitOK
  <2> QED BY <1>1, <2>1, <2>3, SilentRequest
<1>3. CASE TouchFails(r) \/ Leave(r)
  <2>1. req' = [req EXCEPT ![r] = NoReq]
    BY <1>3 DEF TouchFails, Leave
  <2> QED BY <1>1, <2>1, NoReqType, SilentRequest
<1> QED BY <1>2, <1>3

-----------------------------------------------------------------------------
(* Steps of the routes, and of time.                                       *)

LEMMA InsertFacts ==
    ASSUME Inv, NEW k \in Keys, NEW scopes \in SUBSET Scopes, Insert(k, scopes)
    PROVE  /\ Onward /\ keys' \in [Keys -> {"none", "live", "revoked"}]
           /\ granted' \in [Keys -> SUBSET Scopes]
           /\ \A j \in Keys : keys'[j] = "none" => keys[j] = "none"
           /\ \A j \in Keys : keys'[j] = "revoked" => keys[j] = "revoked"
BY DEF Insert, Onward, Inv, TypeOK

LEMMA MintStep ==
    ASSUME Inv, NEW r \in Requests, NEW k \in Keys, NEW scopes \in Grants,
           Mint(r, k, scopes)
    PROVE  Inv'
<1>1. /\ req' = [req EXCEPT ![r] = NoReq] /\ UNCHANGED <<since, cache, handled>>
      /\ Insert(k, scopes) /\ scopes \in SUBSET Scopes
  BY DEF Mint, Grantable
<1>2. LookupOK(NoReq)'
  BY DEF LookupOK, NoReq, Inside
<1> QED BY <1>1, <1>2, InsertFacts, NoReqType, QuietRequest

LEMMA CliMintStep ==
    ASSUME Inv, NEW k \in Keys, NEW scopes \in Grants, CliMint(k, scopes)
    PROVE  Inv'
<1>1. /\ UNCHANGED <<since, cache, req, handled>> /\ Insert(k, scopes)
      /\ scopes \in SUBSET Scopes
  BY DEF CliMint
<1>2. TypeOK' /\ SinceInv' /\ EntryInv'
  BY <1>1, InsertFacts DEF Inv, TypeOK, SinceInv, EntryInv, Onward
<1>3. LookupInv'
  BY <1>1, InsertFacts, ReqFacts DEF LookupInv, LookupOK, Onward
<1>4. QuietInv'
  BY <1>1, InsertFacts DEF Inv, QuietInv, Pending, Verified, Onward
<1> QED BY <1>2, <1>3, <1>4 DEF Inv

LEMMA RevokeSteps ==
    ASSUME Inv, NEW r \in Requests,
           \/ \E k \in Keys : RevokeSelect(r, k)
           \/ RevokeCommit(r) \/ CommitUnknown(r) \/ CommitFails(r)
    PROVE  Inv'
<1>1. CASE \E k \in Keys : RevokeSelect(r, k)
  <2>1. PICK k \in Keys : RevokeSelect(r, k)
    BY <1>1
  <2> DEFINE q == [req[r] EXCEPT !.pc = "commit", !.target = k]
  <2>2. /\ req' = [req EXCEPT ![r] = q] /\ InKeyRoute(r)
        /\ UNCHANGED <<keys, granted, since, cache, handled>>
    BY <2>1, ReqFacts DEF RevokeSelect
  <2>3. /\ q \in ReqType /\ q.pc = "commit" /\ q.key = req[r].key
        /\ q.genuine = req[r].genuine /\ q.need = req[r].need
        /\ q.late = req[r].late /\ q.bootstrap = req[r].bootstrap
    BY ReqFacts DEF ReqType, Inside
  <2> HIDE DEF q
  <2>4. LookupOK(q)
    BY <2>2, <2>3, ReqFacts DEF LookupOK, InKeyRoute, Inside
  <2> QED BY <2>2, <2>3, <2>4, SilentRequest
<1>2. ASSUME SetRevoked(r), UNCHANGED granted
      PROVE  /\ Onward /\ keys' \in [Keys -> {"none", "live", "revoked"}]
             /\ granted' \in [Keys -> SUBSET Scopes]
             /\ \A j \in Keys : keys'[j] = "none" => keys[j] = "none"
             /\ keys'[req[r].target] = "revoked" /\ req[r].pc = "commit"
  BY <1>2, ReqFacts DEF SetRevoked, Onward, Inv, TypeOK
<1>3. CASE RevokeCommit(r)
  <2>. PICK q \in ReqType : q = [req[r] EXCEPT !.pc = "invalidate"]
    BY ReqFacts DEF ReqType, Inside
  <2>1. /\ req' = [req EXCEPT ![r] = q] /\ SetRevoked(r)
        /\ UNCHANGED <<granted, since, cache, handled>>
    BY <1>3, ReqFacts DEF RevokeCommit
  <2>2. /\ q.pc = "invalidate" /\ q.key = req[r].key
        /\ q.genuine = req[r].genuine /\ q.need = req[r].need
        /\ q.late = req[r].late /\ q.bootstrap = req[r].bootstrap
        /\ q.target = req[r].target
    BY ReqFacts DEF ReqType, Inside
  <2>3. LookupOK(q)'
    BY <1>2, <2>1, <2>2, ReqFacts DEF LookupOK, Onward, Inside
  <2> QED BY <1>2, <2>1, <2>2, <2>3, QuietRequest
<1>4. CASE CommitUnknown(r)
  <2>1. LookupOK(NoReq)'
    BY DEF LookupOK, NoReq, Inside
  <2> QED BY <1>2, <1>4, <2>1, NoReqType, QuietRequest DEF CommitUnknown
<1>5. CASE CommitFails(r)
  BY <1>5, NoReqType, SilentRequest DEF CommitFails
<1> QED BY <1>1, <1>3, <1>4, <1>5

LEMMA InvalidateStep ==
    ASSUME Inv, NEW r \in Requests, Invalidate(r)
    PROVE  Inv'
<1> DEFINE p == req[r].proc  k == req[r].target
           h == IF Pending(p, k) THEN "busy" ELSE "quiet"
<1>1. /\ req[r].pc = "invalidate" /\ cache' = [cache EXCEPT ![p][k] = 0]
      /\ handled' = [handled EXCEPT ![p][k] = h]
      /\ req' = [req EXCEPT ![r] = NoReq] /\ UNCHANGED <<keys, granted, since>>
  BY DEF Invalidate
<1>2. p \in Procs /\ k \in Keys /\ keys[k] = "revoked"
  BY <1>1, ReqFacts DEF LookupOK
<1>3. h \in {"busy", "quiet"} /\ (h = "quiet" => ~Pending(p, k))
  OBVIOUS
<1> HIDE DEF h
<1>4. /\ cache' \in [Procs -> [Keys -> 0 .. TTL]]
      /\ \A s \in Procs, j \in Keys :
            cache'[s][j] = IF s = p /\ j = k THEN 0 ELSE cache[s][j]
  BY <1>1, <1>2 DEF Inv, TypeOK
<1>5. /\ handled' \in [Procs -> [Keys -> {"no", "busy", "quiet"}]]
      /\ \A s \in Procs, j \in Keys :
            handled'[s][j] = IF s = p /\ j = k THEN h ELSE handled[s][j]
  BY <1>1, <1>2, <1>3 DEF Inv, TypeOK
<1>6. /\ req' \in [Requests -> ReqType] /\ SinceInv' /\ LookupInv'
      /\ req'[r] = NoReq /\ \A u \in Requests \ {r} : req'[u] = req[u]
  <2>1. LookupOK(NoReq)'
    BY DEF LookupOK, NoReq, Inside
  <2>2. Onward /\ \A j \in Keys : keys'[j] = "none" => keys[j] = "none"
    BY <1>1 DEF Onward
  <2> QED BY <1>1, <2>1, <2>2, NoReqType, ReqStep
<1>7. TypeOK' /\ EntryInv'
  BY <1>1, <1>4, <1>5, <1>6 DEF Inv, TypeOK, EntryInv
<1>8. QuietInv'
  <2> SUFFICES ASSUME NEW s \in Procs, NEW j \in Keys, handled'[s][j] = "quiet"
               PROVE  keys[j] = "revoked" /\ cache'[s][j] = 0 /\ ~Pending(s, j)'
    BY <1>1 DEF QuietInv
  <2>1. Pending(s, j)' => Pending(s, j)
    BY <1>6, NoReqType, PendingStep
  <2>2. CASE s = p /\ j = k
    BY <1>2, <1>3, <1>4, <1>5, <2>1, <2>2
  <2>3. CASE ~(s = p /\ j = k)
    <3>1. handled[s][j] = "quiet" /\ cache'[s][j] = cache[s][j]
      BY <1>4, <1>5, <2>3
    <3> QED BY <2>1, <3>1 DEF Inv, QuietInv
  <2> QED BY <2>2, <2>3
<1> QED BY <1>6, <1>7, <1>8 DEF Inv

\* A tick brings every entry nearer to its end by as much as it brings the
\* revocation of its key further into the past.
LEMMA TickStep ==
    ASSUME Inv, Tick
    PROVE  Inv'
<1>1. /\ \A r \in Requests : req[r].pc = "resume" => req[r].age < Delay
      /\ cache' = [p \in Procs |-> [k \in Keys |-> IF cache[p][k] = 0 THEN 0
                                                   ELSE cache[p][k] - 1]]
      /\ since' = [k \in Keys |-> IF keys[k] = "revoked" /\ since[k] < Horizon
                                  THEN since[k] + 1 ELSE since[k]]
      /\ req' = [r \in Requests |-> IF req[r].pc = "resume"
                                    THEN [req[r] EXCEPT !.age = @ + 1] ELSE req[r]]
      /\ UNCHANGED <<keys, granted, handled>>
  BY DEF Tick
<1>2. ASSUME NEW p \in Procs, NEW k \in Keys
      PROVE  /\ cache[p][k] \in 0 .. TTL /\ cache'[p][k] \in 0 .. TTL
             /\ cache[p][k] = 0 => cache'[p][k] = 0
             /\ cache'[p][k] > 0 => cache'[p][k] + 1 = cache[p][k]
  <2>1. cache[p][k] \in 0 .. TTL
    BY DEF Inv, TypeOK
  <2>2. cache'[p][k] = IF cache[p][k] = 0 THEN 0 ELSE cache[p][k] - 1
    BY <1>1
  <2> QED BY <2>1, <2>2
<1>3. ASSUME NEW k \in Keys
      PROVE  /\ since[k] \in 0 .. Horizon /\ since'[k] \in 0 .. Horizon
             /\ since'[k] \in {since[k], since[k] + 1}
             /\ keys[k] # "revoked" => since'[k] = since[k]
  <2>1. since[k] \in 0 .. Horizon
    BY DEF Inv, TypeOK
  <2> QED BY <1>1, <2>1, AnyType
<1>4. ASSUME NEW r \in Requests
      PROVE  /\ req'[r] \in ReqType /\ req'[r].pc = req[r].pc
             /\ req'[r].key = req[r].key /\ req'[r].proc = req[r].proc
             /\ req'[r].genuine = req[r].genuine /\ req'[r].found = req[r].found
             /\ req'[r].late = req[r].late /\ req'[r].need = req[r].need
             /\ req'[r].bootstrap = req[r].bootstrap
             /\ req'[r].target = req[r].target
             /\ req[r].pc = "resume" => req'[r].age = req[r].age + 1
  <2>1. req[r].pc = "resume" => req[r].age + 1 \in 0 .. Delay
    BY <1>1, ReqFacts
  <2> QED BY <1>1, <2>1, ReqFacts DEF ReqType
<1>5. TypeOK'
  <2>1. cache' \in [Procs -> [Keys -> 0 .. TTL]]
    BY <1>1, <1>2
  <2>2. since' \in [Keys -> 0 .. Horizon]
    BY <1>1, <1>3
  <2>3. req' \in [Requests -> ReqType]
    BY <1>1, <1>4
  <2> QED BY <1>1, <2>1, <2>2, <2>3 DEF Inv, TypeOK
<1>6. SinceInv'
  BY <1>1, <1>3 DEF Inv, SinceInv
<1>7. EntryInv'
  <2> SUFFICES ASSUME NEW p \in Procs, NEW k \in Keys, cache'[p][k] > 0
               PROVE  keys[k] # "none" /\ since'[k] + cache'[p][k] <= Horizon
    BY <1>1 DEF EntryInv
  <2>1. keys[k] # "none" /\ since[k] + cache[p][k] <= Horizon
    BY <1>2 DEF Inv, EntryInv
  <2> QED BY <1>2, <1>3, <2>1, AnyType
<1>8. LookupInv'
  <2> SUFFICES ASSUME NEW r \in Requests PROVE LookupOK(req[r])'
    BY DEF LookupInv
  <2>1. req[r].pc = "resume" /\ req[r].found = "live" =>
           since'[req[r].key] <= req'[r].age
    BY <1>3, <1>4, ReqFacts DEF LookupOK
  <2> QED BY <1>1, <1>4, <2>1, ReqFacts DEF LookupOK
<1>9. QuietInv'
  <2> SUFFICES ASSUME NEW p \in Procs, NEW k \in Keys, handled[p][k] = "quiet"
               PROVE  keys[k] = "revoked" /\ cache'[p][k] = 0 /\ ~Pending(p, k)'
    BY <1>1 DEF QuietInv
  <2>1. Pending(p, k)' => Pending(p, k)
    BY <1>4 DEF Pending, Verified
  <2> QED BY <1>2, <2>1 DEF Inv, QuietInv
<1> QED BY <1>5, <1>6, <1>7, <1>8, <1>9 DEF Inv

LEMMA RestartStep ==
    ASSUME Inv, NEW p \in Procs, Restart(p)
    PROVE  Inv'
<1>1. /\ cache' = [cache EXCEPT ![p] = [k \in Keys |-> 0]]
      /\ req' = [r \in Requests |-> IF req[r].proc = p THEN NoReq ELSE req[r]]
      /\ UNCHANGED <<keys, granted, since, handled>>
  BY DEF Restart
<1>2. /\ cache' \in [Procs -> [Keys -> 0 .. TTL]]
      /\ \A s \in Procs, k \in Keys : cache'[s][k] \in {0, cache[s][k]}
  BY <1>1 DEF Inv, TypeOK
<1>3. \A r \in Requests : req'[r] \in {NoReq, req[r]}
  BY <1>1
<1>4. TypeOK'
  BY <1>1, <1>2, NoReqType DEF Inv, TypeOK
<1>5. SinceInv' /\ EntryInv'
  BY <1>1, <1>2 DEF Inv, SinceInv, EntryInv
<1>6. LookupInv'
  <2> SUFFICES ASSUME NEW r \in Requests PROVE LookupOK(req[r])'
    BY DEF LookupInv
  <2>1. CASE req'[r] = req[r]
    BY <1>1, <2>1, ReqFacts DEF LookupOK
  <2>2. CASE req'[r] = NoReq
    BY <2>2 DEF LookupOK, NoReq, Inside
  <2> QED BY <1>3, <2>1, <2>2
<1>7. QuietInv'
  <2> SUFFICES ASSUME NEW s \in Procs, NEW k \in Keys, handled[s][k] = "quiet"
               PROVE  keys[k] = "revoked" /\ cache'[s][k] = 0 /\ ~Pending(s, k)'
    BY <1>1 DEF QuietInv
  <2>1. keys[k] = "revoked" /\ cache[s][k] = 0 /\ ~Pending(s, k)
    BY DEF Inv, QuietInv
  <2>2. Pending(s, k)' => Pending(s, k)
    BY <1>3 DEF Pending, Verified, NoReq
  <2> QED BY <1>2, <2>1, <2>2
<1> QED BY <1>4, <1>5, <1>6, <1>7 DEF Inv

-----------------------------------------------------------------------------

LEMMA StepInv == Inv /\ [Next]_vars => Inv'
<1> SUFFICES ASSUME Inv, [Next]_vars PROVE Inv'
  OBVIOUS
<1>1. CASE UNCHANGED vars
  BY <1>1 DEF vars, Inv, TypeOK, SinceInv, EntryInv, LookupInv, LookupOK,
              QuietInv, Pending, Verified
<1>2. ASSUME NEW r \in Requests, NEW p \in Procs, NEW n \in Scopes,
             \/ ArriveBootstrap(r, p, n)
             \/ \E k \in Keys, g \in BOOLEAN : Arrive(r, p, n, k, g)
      PROVE  Inv'
  BY <1>2, ArriveBootstrapStep, ArriveStep
<1>3. ASSUME NEW r \in Requests,
             \/ Select(r) \/ Resume(r) \/ Touch(r) \/ TouchFails(r) \/ Leave(r)
             \/ \E k \in Keys, scopes \in Grants : Mint(r, k, scopes)
      PROVE  Inv'
  BY <1>3, SelectStep, ResumeStep, AnswerStep, MintStep
<1>4. ASSUME NEW r \in Requests,
             \/ \E k \in Keys : RevokeSelect(r, k)
             \/ RevokeCommit(r) \/ CommitUnknown(r) \/ CommitFails(r)
             \/ Invalidate(r)
      PROVE  Inv'
  BY <1>4, RevokeSteps, InvalidateStep
<1>5. CASE \E k \in Keys, scopes \in Grants : CliMint(k, scopes)
  BY <1>5, CliMintStep
<1>6. CASE Tick
  BY <1>6, TickStep
<1>7. CASE \E p \in Procs : Restart(p)
  BY <1>7, RestartStep
<1> QED BY <1>1, <1>2, <1>3, <1>4, <1>5, <1>6, <1>7 DEF Next

LEMMA InvHolds == Spec => []Inv
BY InitInv, StepInv, PTL DEF Spec

\* Every variable keeps its type: in particular an entry never has more than TTL
\* ticks left, and no age or delay leaves its range.
THEOREM KeyTypes == Spec => []TypeOK
<1>1. Inv => TypeOK
  BY DEF Inv
<1> QED BY <1>1, InvHolds, PTL

\* For any auth_cache_seconds, and any number of processes, lookups and
\* revocations: nothing that arrives a TTL and a lookup's delay after a
\* revocation is accepted.
THEOREM RevocationBound == Spec => []LateRefused
<1>1. Inv => LateRefused
  BY DEF Inv, LookupInv, LookupOK, LateRefused
<1> QED BY <1>1, InvHolds, PTL

\* A request is accepted only with the secret of a key that has been minted, for
\* what that key was minted for, or with the bootstrap key.
THEOREM VerifiedTheorem == Spec => []OnlyVerified
<1>1. Inv => OnlyVerified
  BY DEF Inv, LookupInv, LookupOK, OnlyVerified
<1> QED BY <1>1, InvHolds, PTL

\* invalidate_key_cache empties the cache of its process for good, unless a
\* lookup was under way there.
THEOREM QuietTheorem == Spec => []QuietRevocation
<1>1. Inv => QuietRevocation
  BY DEF Inv, QuietInv, QuietRevocation
<1> QED BY <1>1, InvHolds, PTL

\* A step that changes no key.
Keyless ==
    \/ \E r \in Requests, p \in Procs, n \in Scopes :
          \/ ArriveBootstrap(r, p, n)
          \/ \E k \in Keys, g \in BOOLEAN : Arrive(r, p, n, k, g)
    \/ \E r \in Requests :
          \/ Select(r) \/ Resume(r) \/ Touch(r) \/ TouchFails(r) \/ Leave(r)
          \/ \E k \in Keys : RevokeSelect(r, k)
          \/ CommitFails(r) \/ Invalidate(r)
    \/ Tick \/ \E p \in Procs : Restart(p)

LEMMA KeylessKeeps == Keyless => UNCHANGED keys
<1>1. ASSUME NEW r \in Requests, NEW p \in Procs, NEW n \in Scopes, NEW k \in Keys,
             NEW g \in BOOLEAN, ArriveBootstrap(r, p, n) \/ Arrive(r, p, n, k, g)
      PROVE  UNCHANGED keys
  BY <1>1, Zenon DEF ArriveBootstrap, Arrive
<1>2. ASSUME NEW r \in Requests,
             \/ Select(r) \/ Resume(r) \/ Touch(r) \/ TouchFails(r) \/ Leave(r)
             \/ CommitFails(r) \/ Invalidate(r)
      PROVE  UNCHANGED keys
  BY <1>2, Zenon DEF Select, Resume, Touch, TouchFails, Leave, CommitFails, Invalidate
<1>3. ASSUME NEW r \in Requests, NEW k \in Keys, RevokeSelect(r, k)
      PROVE  UNCHANGED keys
  BY <1>3, Zenon DEF RevokeSelect
<1>4. ASSUME Tick \/ \E p \in Procs : Restart(p) PROVE UNCHANGED keys
  BY <1>4, Zenon DEF Tick, Restart
<1> QED BY <1>1, <1>2, <1>3, <1>4, SomeAssumption DEF Keyless

LEMMA KeyfulSteps ==
    Next => \/ Keyless
            \/ \E k \in Keys, scopes \in Grants : CliMint(k, scopes)
            \/ \E r \in Requests : \/ RevokeCommit(r) \/ CommitUnknown(r)
                                   \/ \E k \in Keys, scopes \in Grants :
                                         Mint(r, k, scopes)
BY DEF Next, Keyless

\* No request, failure or second revocation brings a revoked key back.
THEOREM RevokedForGood == Spec => RevocationStays
<1> DEFINE A == \A k \in Keys : keys[k] = "revoked" => keys'[k] = "revoked"
<1>1. Inv /\ [Next]_vars => [A]_vars
  <2> SUFFICES ASSUME Inv, Next, NEW k \in Keys, keys[k] = "revoked"
               PROVE  keys'[k] = "revoked"
    OBVIOUS
  <2>1. CASE UNCHANGED keys
    BY <2>1
  <2>2. CASE \E j \in Keys, scopes \in Grants : Insert(j, scopes)
    BY <2>2 DEF Insert, Inv, TypeOK
  <2>3. CASE \E r \in Requests : SetRevoked(r)
    BY <2>3 DEF SetRevoked, Inv, TypeOK
  <2> QED BY <2>1, <2>2, <2>3, KeyfulSteps, KeylessKeeps
          DEF Mint, CliMint, RevokeCommit, CommitUnknown
<1>2. Spec => [][A]_vars
  BY <1>1, InvHolds, PTL DEF Spec
<1> QED BY <1>2 DEF RevocationStays

\* Whoever is in a route that requires admin is an admin, and not one of long ago.
LEMMA AdminInside ==
    ASSUME Inv, NEW r \in Requests, req[r].pc \in Inside, req[r].need = Admin
    PROVE  IsAdmin(r)
BY ReqFacts DEF LookupOK, Effective, IsAdmin

\* For any number of keys, processes and requests: only admins, not revoked longer
\* than Horizon ago when they asked, and the command line mint or revoke keys.
THEOREM ManageTheorem == Spec => OnlyAdminsManage
<1> DEFINE A == \A k \in Keys :
                   keys'[k] # keys[k] =>
                      \/ keys[k] = "none" /\ UNCHANGED req
                      \/ \E r \in Requests :
                            /\ req[r].pc \in Inside /\ req'[r] # req[r] /\ IsAdmin(r)
<1>1. Inv /\ [Next]_vars => [A]_vars
  <2> DEFINE ByAdmin == \E r \in Requests :
                /\ req[r].pc \in Inside /\ req'[r] # req[r] /\ IsAdmin(r)
  <2> SUFFICES ASSUME Inv, Next, NEW k \in Keys, keys'[k] # keys[k]
               PROVE  (keys[k] = "none" /\ UNCHANGED req) \/ ByAdmin
    OBVIOUS
  <2>1. CASE \E j \in Keys, scopes \in Grants : CliMint(j, scopes)
    BY <2>1 DEF CliMint, Insert, Inv, TypeOK
  <2>2. ASSUME NEW r \in Requests, req[r].pc \in Inside, req[r].need = Admin,
               req'[r].pc # req[r].pc
        PROVE  ByAdmin
    BY <2>2, AdminInside
  <2>3. CASE \E r \in Requests, j \in Keys, scopes \in Grants : Mint(r, j, scopes)
    <3>1. PICK r \in Requests, j \in Keys, scopes \in Grants : Mint(r, j, scopes)
      BY <2>3
    <3>2. req[r].pc = "accepted" /\ req[r].need = Admin /\ req'[r] = NoReq
      BY <3>1, ReqFacts DEF Mint, InKeyRoute
    <3> QED BY <2>2, <3>2, NoReqType DEF Inside
  <2>4. CASE \E r \in Requests : RevokeCommit(r) \/ CommitUnknown(r)
    <3>1. PICK r \in Requests : RevokeCommit(r) \/ CommitUnknown(r)
      BY <2>4
    <3>2. req[r].pc = "commit" /\ req'[r].pc \in {"invalidate", "idle"}
      BY <3>1, ReqFacts, NoReqType DEF RevokeCommit, CommitUnknown, SetRevoked, ReqType
    <3>3. req[r].need = Admin
      BY <3>2, ReqFacts DEF LookupOK
    <3> QED BY <2>2, <3>2, <3>3 DEF Inside
  <2> QED BY <2>1, <2>3, <2>4, KeyfulSteps, KeylessKeeps
<1>2. Spec => [][A]_vars
  BY <1>1, InvHolds, PTL DEF Spec
<1> QED BY <1>2 DEF OnlyAdminsManage
=============================================================================
