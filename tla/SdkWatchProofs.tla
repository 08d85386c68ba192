--------------------------- MODULE SdkWatchProofs ---------------------------
(* The safety properties of SdkWatch, for any number of coroutines, watch   *)
(* tasks and changes.                                                       *)
EXTENDS SdkWatch, SequenceTheorems, TLAPS

USE ClientsAssumption, ChangesAssumption DEF ClientsAssumption, ChangesAssumption

-----------------------------------------------------------------------------
(* Types                                                                    *)

LEMMA NoGetType == NoGet \in GetType
BY DEF NoGet, GetType

LEMMA TypeInit == Init => TypeOK
<1> SUFFICES ASSUME Init PROVE TypeOK
  OBVIOUS
<1>1. get \in [Clients -> GetType]
  BY NoGetType DEF Init
<1>2. copy \in Versions /\ known \in Versions
  BY DEF Init, Versions
<1>3. wire \in [Watches -> Seq(Nat)]
  BY DEF Init
<1>4. /\ wpc \in [Watches -> {"none", "loop", "connect", "read", "refresh", "done"}]
      /\ stream \in [Watches -> {"none", "open", "broken"}]
      /\ app \in [Callers -> {"idle", "start", "refresh", "over"}]
  BY DEF Init
<1>5. version \in Nat /\ announced \in Nat /\ announced <= version
  BY DEF Init
<1>6. stopped \in BOOLEAN /\ overlapped \in BOOLEAN /\ task \in Watches \cup {NoTask}
  BY DEF Init
<1> QED BY <1>1, <1>2, <1>3, <1>4, <1>5, <1>6 DEF TypeOK

\* What refresh does to the copy and to its GET.
LEMMA SendType ==
    ASSUME TypeOK, NEW x \in Clients, Send(x)
    PROVE  get' \in [Clients -> GetType] /\ overlapped' \in BOOLEAN
BY DEF TypeOK, Send, GetType, NoGet, InFlight

LEMMA RefreshedType ==
    ASSUME TypeOK, NEW x \in Clients, Refreshed(x)
    PROVE  get' \in [Clients -> GetType] /\ copy' \in Versions /\ known' \in Versions
<1>1. /\ get[x] \in GetType
      /\ NoGet \in GetType /\ Lost(x) \in GetType
  BY DEF TypeOK, NoGet, GetType, Lost
<1>2. get' \in [Clients -> GetType]
  BY <1>1 DEF TypeOK, Refreshed, Received, Failed
<1>3. get[x].ver \in Nat /\ get[x].floor \in Nat
  BY <1>1 DEF GetType
<1>4. copy' \in Versions /\ known' \in Versions
  BY <1>3 DEF TypeOK, Refreshed, Received, Failed, Versions
<1> QED BY <1>2, <1>4

LEMMA PrefixType ==
    ASSUME NEW S, NEW s \in Seq(S), NEW n \in 0 .. Len(s)
    PROVE  SubSeq(s, 1, n) \in Seq(S)
BY SubSeqProperties

LEMMA TypeServer ==
    ASSUME TypeOK, \/ Change \/ Announce \/ \E x \in Clients : Serve(x)
                   \/ \E w \in Watches : Break(w)
    PROVE  TypeOK'
<1>1. CASE Change
  BY <1>1 DEF Change, TypeOK
<1>2. CASE Announce
  <2>1. wire' \in [Watches -> Seq(Nat)]
    BY <1>2 DEF Announce, TypeOK
  <2> QED BY <1>2, <2>1 DEF Announce, TypeOK
<1>3. ASSUME NEW x \in Clients, Serve(x) PROVE TypeOK'
  <2>1. PICK v \in get[x].floor .. version :
            get' = [get EXCEPT ![x].pc = "served", ![x].ver = v]
    BY <1>3 DEF Serve
  <2>2. get[x] \in GetType /\ version \in Nat
    BY DEF TypeOK
  <2>3. v \in Nat
    BY <2>1, <2>2 DEF GetType
  <2>4. get' \in [Clients -> GetType]
    BY <2>1, <2>2, <2>3 DEF TypeOK, GetType
  <2> QED BY <1>3, <2>4 DEF Serve, TypeOK, server
<1>4. ASSUME NEW w \in Watches, Break(w) PROVE TypeOK'
  <2>1. PICK n \in 0 .. Len(wire[w]) :
            wire' = [wire EXCEPT ![w] = SubSeq(wire[w], 1, n)]
    BY <1>4 DEF Break
  <2>2. SubSeq(wire[w], 1, n) \in Seq(Nat)
    BY PrefixType DEF TypeOK
  <2>3. wire' \in [Watches -> Seq(Nat)]
    BY <2>1, <2>2 DEF TypeOK
  <2> QED BY <1>4, <2>3 DEF Break, TypeOK, server
<1> QED BY <1>1, <1>2, <1>3, <1>4

LEMMA TypeCaller ==
    ASSUME TypeOK, NEW c \in Callers,
           Start(c) \/ StartReturns(c) \/ Refresh(c) \/ RefreshReturns(c) \/ Close(c)
    PROVE  TypeOK'
<1>0. c \in Clients
  BY DEF Clients
<1>1. CASE Start(c) \/ Refresh(c)
  BY <1>0, <1>1, SendType DEF Start, Refresh, Call, TypeOK, server
<1>2. CASE RefreshReturns(c)
  BY <1>0, <1>2, RefreshedType DEF RefreshReturns, TypeOK, server
<1>3. CASE StartReturns(c)
  <2>1. task' \in Watches
    BY <1>3 DEF StartReturns, Unstarted
  <2> QED BY <1>0, <1>3, <2>1, RefreshedType DEF StartReturns, TypeOK, server
<1>4. CASE Close(c)
  <2>1. CASE task = NoTask
    BY <1>4, <2>1 DEF Close, Call, TypeOK, server
  <2>2. CASE task \in Watches
    <3>1. /\ wpc' = [wpc EXCEPT ![task] = "done"]
          /\ stream' = [stream EXCEPT ![task] = "none"]
          /\ wire' = [wire EXCEPT ![task] = <<>>]
          /\ get' = [get EXCEPT ![task] = NoGet]
      BY <1>4, <2>2 DEF Close
    <3>2. get' \in [Clients -> GetType]
      BY <3>1, NoGetType DEF TypeOK
    <3>3. wire' \in [Watches -> Seq(Nat)]
      <4>1. <<>> \in Seq(Nat)
        OBVIOUS
      <4>2. wire \in [Watches -> Seq(Nat)]
        BY DEF TypeOK
      <4> QED BY <3>1, <4>1, <4>2, Zenon
    <3>4. /\ wpc' \in [Watches -> {"none", "loop", "connect", "read", "refresh", "done"}]
          /\ stream' \in [Watches -> {"none", "open", "broken"}]
      BY <3>1 DEF TypeOK
    <3>5. /\ UNCHANGED <<version, announced, copy, task, known, overlapped>>
          /\ stopped' = TRUE
          /\ app' = [app EXCEPT ![c] = "over"]
      BY <1>4 DEF Close, Call, server
    <3> QED BY <3>2, <3>3, <3>4, <3>5 DEF TypeOK
  <2> QED BY <2>1, <2>2 DEF TypeOK
<1> QED BY <1>1, <1>2, <1>3, <1>4

LEMMA TypeWatch ==
    ASSUME TypeOK, NEW w \in Watches, Connect(w) \/ ConnectFails(w) \/ WatchStep(w)
    PROVE  TypeOK'
<1>0. w \in Clients
  BY DEF Clients
<1>1. CASE Loop(w) \/ Connect(w) \/ ConnectFails(w) \/ StreamEnds(w)
  BY <1>1 DEF Loop, Connect, ConnectFails, StreamEnds, WatchAt, TypeOK, server
<1>2. CASE ReadEvent(w)
  <2>1. wire' \in [Watches -> Seq(Nat)]
    BY <1>2 DEF ReadEvent, TypeOK
  <2> QED BY <1>0, <1>2, <2>1, SendType DEF ReadEvent, WatchAt, TypeOK, server
<1>3. CASE EventHandled(w)
  BY <1>0, <1>3, RefreshedType DEF EventHandled, WatchAt, TypeOK, server
<1> QED BY <1>1, <1>2, <1>3 DEF WatchStep

LEMMA TypeNext == TypeOK /\ [Next]_vars => TypeOK'
<1> SUFFICES ASSUME TypeOK, [Next]_vars PROVE TypeOK'
  OBVIOUS
<1>1. CASE UNCHANGED vars
  BY <1>1 DEF vars, server, TypeOK
<1>2. CASE Next
  BY <1>2, TypeServer, TypeCaller, TypeWatch DEF Next
<1> QED BY <1>1, <1>2

\* Every reachable state has the declared types (client.py, realtime.py).
THEOREM SdkTypes == Spec => []TypeOK
BY TypeInit, TypeNext, PTL DEF Spec

-----------------------------------------------------------------------------
(* The copy never steps back                                                *)

\* As long as no two GETs have been under way at once, the one that is was asked
\* when everything known had been announced.
InOrder ==
    /\ known <= announced
    /\ ~overlapped =>
         /\ copy >= known
         /\ \A x \in Clients : InFlight(x) =>
               /\ get[x].floor >= known
               /\ get[x].pc = "served" => get[x].ver >= get[x].floor
               /\ \A y \in Clients : InFlight(y) => y = x
    /\ \A x \in Clients : InFlight(x) => get[x].floor <= announced

LEMMA OrderInit == Init => InOrder
BY DEF Init, InOrder, InFlight, NoGet, NotLoaded

\* A GET is sent, and nothing else that matters here.
LEMMA OrderSend ==
    ASSUME TypeOK, InOrder, NEW x \in Clients, Send(x),
           UNCHANGED <<announced, copy, known>>
    PROVE  InOrder'
<1>1. /\ get'[x].pc = "sent" /\ get'[x].floor = announced
      /\ \A y \in Clients \ {x} : get'[y] = get[y]
  BY DEF Send, TypeOK, NoGet
<1>2. ~overlapped' => ~overlapped /\ \A y \in Clients : ~InFlight(y)
  BY DEF Send
<1>3. known \in Int /\ announced \in Int
  BY DEF TypeOK, Versions, NotLoaded
<1>4. \A y \in Clients : InFlight(y)' => get'[y].floor <= announced
  BY <1>1, <1>3 DEF InOrder, InFlight
<1>5. ASSUME ~overlapped', NEW y \in Clients, InFlight(y)'
      PROVE  /\ y = x
             /\ get'[y].floor >= known
             /\ get'[y].pc # "served"
  BY <1>1, <1>2, <1>3, <1>5 DEF InOrder, InFlight
<1> QED BY <1>2, <1>4, <1>5 DEF InOrder

\* An answer arrives, or fails to.
LEMMA OrderRefreshed ==
    ASSUME TypeOK, InOrder, NEW x \in Clients, Refreshed(x),
           UNCHANGED <<announced, overlapped>>
    PROVE  InOrder'
<1>1. /\ get'[x].pc \in {"idle", "failed"}
      /\ \A y \in Clients \ {x} : get'[y] = get[y]
  BY DEF Refreshed, Received, Failed, Lost, TypeOK, NoGet
<1>2. ~InFlight(x)' /\ InFlight(x)
  BY <1>1 DEF Refreshed, Received, Failed, InFlight
<1>3. \A y \in Clients \ {x} : InFlight(y)' <=> InFlight(y)
  BY <1>1 DEF InFlight
<1>4. /\ known \in Int /\ copy \in Int /\ announced \in Int
      /\ get[x].floor \in Nat /\ get[x].ver \in Nat
  BY DEF TypeOK, Versions, NotLoaded, GetType
<1>5. known' <= announced'
  BY <1>2, <1>4 DEF Refreshed, Received, Failed, InOrder
<1>6. ASSUME ~overlapped
      PROVE  copy' >= known' /\ \A y \in Clients : ~InFlight(y)'
  <2>1. \A y \in Clients : ~InFlight(y)'
    BY <1>2, <1>3, <1>6 DEF InOrder
  <2>2. CASE Failed(x)
    BY <1>6, <2>1, <2>2 DEF Failed, InOrder
  <2>3. CASE Received(x)
    <3>1. get[x].ver >= get[x].floor /\ get[x].floor >= known
      BY <1>2, <1>6, <2>3 DEF Received, InOrder
    <3> QED BY <1>4, <2>1, <2>3, <3>1 DEF Received
  <2> QED BY <2>2, <2>3 DEF Refreshed
<1>7. \A y \in Clients : InFlight(y)' => get'[y].floor <= announced'
  BY <1>1, <1>2, <1>3 DEF InOrder
<1> QED BY <1>5, <1>6, <1>7 DEF InOrder

\* A coroutine's GET is dropped with it.
LEMMA OrderDropped ==
    ASSUME TypeOK, InOrder, UNCHANGED <<announced, copy, known, overlapped>>,
           \A x \in Clients : get'[x] = get[x] \/ get'[x] = NoGet
    PROVE  InOrder'
<1>1. \A x \in Clients : InFlight(x)' => get'[x] = get[x] /\ InFlight(x)
  BY DEF InFlight, NoGet
<1> QED BY <1>1 DEF InOrder

LEMMA OrderNext == TypeOK /\ InOrder /\ [Next]_vars => InOrder'
<1> SUFFICES ASSUME TypeOK, InOrder, [Next]_vars PROVE InOrder'
  OBVIOUS
<1>1. CASE UNCHANGED vars
  BY <1>1, OrderDropped DEF vars, server
<1>2. CASE Change
  BY <1>2, OrderDropped DEF Change
<1>3. CASE Announce
  <2>1. announced <= announced' /\ announced \in Int /\ announced' \in Int
        /\ known \in Int /\ \A x \in Clients : get[x].floor \in Int
    BY <1>3 DEF Announce, TypeOK, Versions, NotLoaded, GetType
  <2>2. UNCHANGED <<get, copy, known, overlapped>>
    BY <1>3 DEF Announce
  <2>3. \A x \in Clients : InFlight(x)' <=> InFlight(x)
    BY <2>2 DEF InFlight
  <2>4. known <= announced'
    BY <2>1 DEF InOrder
  <2>5. ASSUME NEW x \in Clients, InFlight(x) PROVE get[x].floor <= announced'
    BY <2>1, <2>5 DEF InOrder
  <2> QED BY <2>2, <2>3, <2>4, <2>5 DEF InOrder
<1>4. ASSUME NEW x \in Clients, Serve(x) PROVE InOrder'
  <2>1. PICK v \in get[x].floor .. version :
            get' = [get EXCEPT ![x].pc = "served", ![x].ver = v]
    BY <1>4 DEF Serve
  <2>2. UNCHANGED <<announced, copy, known, overlapped>>
    BY <1>4 DEF Serve, server
  <2>3. get[x] \in GetType /\ version \in Nat
    BY DEF TypeOK
  <2>4. /\ get'[x].pc = "served" /\ get'[x].ver = v
        /\ get'[x].floor = get[x].floor
        /\ \A y \in Clients \ {x} : get'[y] = get[y]
    BY <2>1, <2>3 DEF TypeOK, GetType
  <2>5. v >= get[x].floor
    BY <2>1, <2>3 DEF GetType
  <2>6. InFlight(x) /\ \A y \in Clients : InFlight(y)' => InFlight(y)
    BY <1>4, <2>4 DEF Serve, InFlight
  <2>7. \A y \in Clients : get'[y].floor = get[y].floor
    BY <2>4
  <2>8. ASSUME ~overlapped, NEW y \in Clients, InFlight(y)', get'[y].pc = "served"
        PROVE  get'[y].ver >= get'[y].floor
    BY <2>4, <2>5, <2>6, <2>8 DEF InOrder
  <2> QED BY <2>2, <2>6, <2>7, <2>8 DEF InOrder
<1>5. ASSUME NEW w \in Watches,
             Break(w) \/ Connect(w) \/ ConnectFails(w) \/ Loop(w) \/ StreamEnds(w)
      PROVE  InOrder'
  BY <1>5, OrderDropped DEF Break, Connect, ConnectFails, Loop, StreamEnds, server
<1>6. ASSUME NEW w \in Watches, ReadEvent(w) PROVE InOrder'
  BY <1>6, OrderSend DEF ReadEvent, Clients, server
<1>7. ASSUME NEW w \in Watches, EventHandled(w) PROVE InOrder'
  BY <1>7, OrderRefreshed DEF EventHandled, Clients, server
<1>8. ASSUME NEW c \in Callers, Start(c) \/ Refresh(c) PROVE InOrder'
  BY <1>8, OrderSend DEF Start, Refresh, Clients, server
<1>9. ASSUME NEW c \in Callers, StartReturns(c) \/ RefreshReturns(c) PROVE InOrder'
  BY <1>9, OrderRefreshed DEF StartReturns, RefreshReturns, Clients, server
<1>10. ASSUME NEW c \in Callers, Close(c) PROVE InOrder'
  <2>1. UNCHANGED <<announced, copy, known, overlapped>>
    BY <1>10 DEF Close, server
  <2>2. get' = get \/ get' = [get EXCEPT ![task] = NoGet]
    BY <1>10 DEF Close
  <2>3. \A x \in Clients : get'[x] = get[x] \/ get'[x] = NoGet
    BY <2>2 DEF TypeOK
  <2> QED BY <2>1, <2>3, OrderDropped
<1> QED BY <1>1, <1>2, <1>3, <1>4, <1>5, <1>6, <1>7, <1>8, <1>9, <1>10
        DEF Next, WatchStep

\* refresh and _watch: unless the application itself has two refreshes under
\* way at once, the copy never shows less than an earlier answer had to.
THEOREM CopyTheorem == Spec => []NoStepBack
<1>1. InOrder => NoStepBack
  BY DEF InOrder, NoStepBack
<1> QED BY <1>1, TypeInit, TypeNext, OrderInit, OrderNext, PTL DEF Spec

-----------------------------------------------------------------------------
(* close() ends the watching                                                *)

LEMMA ClosedNext == TypeOK /\ ClosedIsQuiet /\ [Next]_vars => ClosedIsQuiet'
<1> SUFFICES ASSUME TypeOK, ClosedIsQuiet, [Next]_vars PROVE ClosedIsQuiet'
  OBVIOUS
<1>1. CASE UNCHANGED vars
  BY <1>1 DEF vars, ClosedIsQuiet
<1>2. CASE Change \/ Announce \/ \E x \in Clients : Serve(x)
  BY <1>2 DEF Change, Announce, Serve, ClosedIsQuiet
<1>3. ASSUME NEW w \in Watches, Break(w) PROVE ClosedIsQuiet'
  BY <1>3 DEF Break, ClosedIsQuiet
<1>4. ASSUME NEW w \in Watches, Connect(w) \/ ConnectFails(w) \/ WatchStep(w)
      PROVE  ClosedIsQuiet'
  <2>1. UNCHANGED <<task, stopped>>
    BY <1>4 DEF Connect, ConnectFails, WatchStep, Loop, ReadEvent, EventHandled,
                StreamEnds
  <2>2. \A u \in Watches \ {w} : wpc'[u] = wpc[u]
    BY <1>4 DEF TypeOK, Connect, ConnectFails, WatchStep, Loop, ReadEvent,
                EventHandled, StreamEnds, WatchAt
  <2>3. stopped /\ w = task => wpc'[w] \notin {"connect", "read", "refresh"}
    BY <1>4 DEF TypeOK, ClosedIsQuiet, Connect, ConnectFails, WatchStep, Loop,
                ReadEvent, EventHandled, StreamEnds, WatchAt
  <2> QED BY <2>1, <2>2, <2>3 DEF ClosedIsQuiet
<1>5. ASSUME NEW c \in Callers, Start(c) \/ Refresh(c) \/ RefreshReturns(c)
      PROVE  ClosedIsQuiet'
  BY <1>5 DEF Start, Refresh, RefreshReturns, ClosedIsQuiet
<1>6. ASSUME NEW c \in Callers, StartReturns(c) PROVE ClosedIsQuiet'
  <2>1. task' \in Watches /\ wpc' = [wpc EXCEPT ![task'] = "loop"]
    BY <1>6 DEF StartReturns, Unstarted
  <2>2. wpc'[task'] = "loop"
    BY <2>1 DEF TypeOK
  <2> QED BY <2>2 DEF ClosedIsQuiet
<1>7. ASSUME NEW c \in Callers, Close(c) PROVE ClosedIsQuiet'
  <2>1. task' = task
    BY <1>7 DEF Close
  <2>2. task \in Watches => wpc'[task] = "done"
    BY <1>7 DEF Close, TypeOK
  <2> QED BY <2>1, <2>2 DEF ClosedIsQuiet
<1> QED BY <1>1, <1>2, <1>3, <1>4, <1>5, <1>6, <1>7 DEF Next

\* close: once it has been called, the watch task it has the handle of neither
\* connects nor reads nor fetches, also if a start() was still under way then.
THEOREM CloseTheorem == Spec => []ClosedIsQuiet
<1>1. Init => ClosedIsQuiet
  BY DEF Init, ClosedIsQuiet
<1> QED BY <1>1, ClosedNext, TypeInit, TypeNext, PTL DEF Spec
-----------------------------------------------------------------------------
(* The copy follows the server                                              *)

\* A GET under way belongs to a coroutine that awaits it, and what the server
\* answered lies between what it had announced and what it has.
Awaited ==
    /\ \A w \in Watches : InFlight(w) => wpc[w] = "refresh"
    /\ \A c \in Callers : InFlight(c) => app[c] \in {"start", "refresh"}
    /\ \A x \in Clients : get[x].pc = "served" => get[x].ver \in get[x].floor .. version

\* What the steps of the GETs leave in place.
LEMMA SentSince ==
    ASSUME TypeOK, NEW x \in Clients, Send(x)
    PROVE  /\ get'[x].pc = "sent" /\ get'[x].floor = announced
           /\ \A y \in Clients \ {x} : get'[y] = get[y]
BY DEF Send, TypeOK, NoGet

LEMMA RefreshedSince ==
    ASSUME TypeOK, NEW x \in Clients, Refreshed(x)
    PROVE  /\ InFlight(x) /\ get'[x].pc \in {"idle", "failed"}
           /\ \A y \in Clients \ {x} : get'[y] = get[y]
BY DEF Refreshed, Received, Failed, Lost, InFlight, TypeOK, NoGet

\* Only x and its GET move; the GET is awaited where it then is.
LEMMA AwaitedMove ==
    ASSUME TypeOK, Awaited, NEW x \in Clients,
           version' = version,
           \A y \in Clients \ {x} : get'[y] = get[y],
           \A w \in Watches \ {x} : wpc'[w] = wpc[w],
           \A c \in Callers \ {x} : app'[c] = app[c],
           get'[x].pc # "served",
           get'[x].pc = "sent" =>
              /\ x \in Watches => wpc'[x] = "refresh"
              /\ x \in Callers => app'[x] \in {"start", "refresh"}
    PROVE  Awaited'
<1>1. \A y \in Clients \ {x} : InFlight(y)' <=> InFlight(y)
  BY DEF InFlight
<1>2. InFlight(x)' => get'[x].pc = "sent"
  BY DEF InFlight
<1>3. ASSUME NEW w \in Watches, InFlight(w)' PROVE wpc'[w] = "refresh"
  BY <1>1, <1>2, <1>3 DEF Awaited, Clients
<1>4. ASSUME NEW c \in Callers, InFlight(c)' PROVE app'[c] \in {"start", "refresh"}
  BY <1>1, <1>2, <1>4 DEF Awaited, Clients
<1>5. ASSUME NEW y \in Clients, get'[y].pc = "served"
      PROVE  get'[y].ver \in get'[y].floor .. version'
  BY <1>5 DEF Awaited
<1> QED BY <1>3, <1>4, <1>5 DEF Awaited

LEMMA AwaitedServer ==
    ASSUME TypeOK, Awaited,
           \/ Change \/ Announce \/ \E x \in Clients : Serve(x)
           \/ \E w \in Watches : Break(w)
    PROVE  Awaited'
<1>1. CASE Announce \/ \E w \in Watches : Break(w)
  BY <1>1 DEF Announce, Break, Awaited, InFlight, server
<1>2. CASE Change
  <2>1. version' = version + 1 /\ version \in Nat /\ UNCHANGED <<get, wpc, app>>
    BY <1>2 DEF Change, TypeOK
  <2>2. \A x \in Clients : get[x].floor \in Nat /\ get[x].ver \in Nat
    BY DEF TypeOK, GetType
  <2>3. ASSUME NEW x \in Clients, get[x].pc = "served"
        PROVE  get[x].ver \in get[x].floor .. version'
    BY <2>1, <2>2, <2>3 DEF Awaited
  <2> QED BY <2>1, <2>3 DEF Awaited, InFlight
<1>3. ASSUME NEW x \in Clients, Serve(x) PROVE Awaited'
  <2>1. PICK v \in get[x].floor .. version :
            get' = [get EXCEPT ![x].pc = "served", ![x].ver = v]
    BY <1>3 DEF Serve
  <2>2. /\ get'[x].pc = "served" /\ get'[x].ver = v
        /\ get'[x].floor = get[x].floor
        /\ \A y \in Clients \ {x} : get'[y] = get[y]
    BY <2>1 DEF TypeOK, GetType
  <2>3. UNCHANGED <<version, wpc, app>>
    BY <1>3 DEF Serve, server
  <2>4. \A y \in Clients : InFlight(y)' => InFlight(y)
    BY <1>3, <2>2 DEF Serve, InFlight
  <2> QED BY <2>1, <2>2, <2>3, <2>4 DEF Awaited, Clients
<1> QED BY <1>1, <1>2, <1>3

LEMMA AwaitedCaller ==
    ASSUME TypeOK, Awaited, NEW c \in Callers,
           Start(c) \/ StartReturns(c) \/ Refresh(c) \/ RefreshReturns(c) \/ Close(c)
    PROVE  Awaited'
<1>0. c \in Clients /\ c \notin Watches
  BY DEF Clients
<1>1. \A d \in Callers \ {c} : app'[d] = app[d]
  BY DEF Start, StartReturns, Refresh, RefreshReturns, Close, Call, TypeOK
<1>2. version' = version
  BY DEF Start, StartReturns, Refresh, RefreshReturns, Close, server
<1>3. CASE Start(c) \/ Refresh(c)
  <2>1. app'[c] \in {"start", "refresh"} /\ wpc' = wpc
    BY <1>3 DEF Start, Refresh, Call, TypeOK
  <2>2. Send(c)
    BY <1>3 DEF Start, Refresh
  <2> QED BY <1>0, <1>1, <1>2, <2>1, <2>2, SentSince, AwaitedMove
<1>4. CASE RefreshReturns(c)
  BY <1>0, <1>1, <1>2, <1>4, RefreshedSince, AwaitedMove DEF RefreshReturns
<1>5. CASE StartReturns(c)
  <2>1. task' \in Watches /\ wpc[task'] = "none" /\ wpc' = [wpc EXCEPT ![task'] = "loop"]
    BY <1>5 DEF StartReturns, Unstarted
  <2>2. /\ get'[c].pc \in {"idle", "failed"}
        /\ \A y \in Clients \ {c} : get'[y] = get[y]
    BY <1>0, <1>5, RefreshedSince DEF StartReturns
  <2>3. ~InFlight(c)' /\ \A y \in Clients \ {c} : InFlight(y)' <=> InFlight(y)
    BY <2>2 DEF InFlight
  <2>4. ASSUME NEW w \in Watches, InFlight(w)' PROVE wpc'[w] = "refresh"
    BY <1>0, <2>1, <2>3, <2>4 DEF Awaited, Clients, TypeOK
  <2>5. ASSUME NEW d \in Callers, InFlight(d)' PROVE app'[d] \in {"start", "refresh"}
    BY <1>1, <2>3, <2>5 DEF Awaited, Clients
  <2> QED BY <1>2, <2>2, <2>4, <2>5 DEF Awaited
<1>6. CASE Close(c)
  <2>1. app[c] = "idle" /\ ~InFlight(c)
    BY <1>6 DEF Close, Call, Awaited
  <2>2. CASE task = NoTask
    <3>1. UNCHANGED <<wpc, get>>
      BY <1>6, <2>2 DEF Close
    <3> QED BY <1>0, <1>1, <1>2, <2>1, <3>1, AwaitedMove DEF InFlight
  <2>3. ASSUME NEW t \in Watches, t = task PROVE Awaited'
    <3>1. /\ wpc' = [wpc EXCEPT ![t] = "done"]
          /\ get' = [get EXCEPT ![t] = NoGet]
      BY <1>6, <2>3 DEF Close
    <3>2. /\ get'[t] = NoGet
          /\ \A y \in Clients \ {t} : get'[y] = get[y]
          /\ \A w \in Watches \ {t} : wpc'[w] = wpc[w]
      BY <2>3, <3>1 DEF TypeOK, Clients
    <3>3. ~InFlight(t)' /\ \A y \in Clients \ {t} : InFlight(y)' <=> InFlight(y)
      BY <3>2 DEF InFlight, NoGet
    <3>4. ASSUME NEW d \in Callers, InFlight(d)' PROVE app'[d] \in {"start", "refresh"}
      BY <1>1, <2>1, <3>3, <3>4 DEF Awaited, Clients
    <3>5. ASSUME NEW w \in Watches, InFlight(w)' PROVE wpc'[w] = "refresh"
      BY <3>2, <3>3, <3>5 DEF Awaited, Clients
    <3>6. ASSUME NEW y \in Clients, get'[y].pc = "served"
          PROVE  get'[y].ver \in get'[y].floor .. version'
      BY <1>2, <3>2, <3>6 DEF Awaited, NoGet
    <3> QED BY <3>4, <3>5, <3>6 DEF Awaited
  <2> QED BY <2>2, <2>3 DEF TypeOK
<1> QED BY <1>3, <1>4, <1>5, <1>6

LEMMA AwaitedWatch ==
    ASSUME TypeOK, Awaited, NEW w \in Watches,
           Connect(w) \/ ConnectFails(w) \/ WatchStep(w)
    PROVE  Awaited'
<1>0. w \in Clients /\ w \notin Callers
  BY DEF Clients
<1>1. \A u \in Watches \ {w} : wpc'[u] = wpc[u]
  BY DEF Connect, ConnectFails, WatchStep, Loop, ReadEvent, EventHandled, StreamEnds,
         WatchAt, TypeOK
<1>2. version' = version /\ app' = app
  BY DEF Connect, ConnectFails, WatchStep, Loop, ReadEvent, EventHandled, StreamEnds, server
<1>3. CASE ReadEvent(w)
  <2>1. Send(w) /\ wpc'[w] = "refresh"
    BY <1>3 DEF ReadEvent, WatchAt, TypeOK
  <2> QED BY <1>0, <1>1, <1>2, <2>1, SentSince, AwaitedMove
<1>4. CASE EventHandled(w)
  <2>1. Refreshed(w)
    BY <1>4 DEF EventHandled
  <2> QED BY <1>0, <1>1, <1>2, <2>1, RefreshedSince, AwaitedMove
<1>5. CASE Connect(w) \/ ConnectFails(w) \/ Loop(w) \/ StreamEnds(w)
  <2>1. get' = get /\ wpc[w] # "refresh"
    BY <1>5 DEF Connect, ConnectFails, Loop, StreamEnds, WatchAt
  <2>2. ~InFlight(w)
    BY <2>1 DEF Awaited
  <2> QED BY <1>0, <1>1, <1>2, <2>1, <2>2, AwaitedMove DEF InFlight
<1> QED BY <1>3, <1>4, <1>5 DEF WatchStep

LEMMA AwaitedNext == TypeOK /\ Awaited /\ [Next]_vars => Awaited'
<1> SUFFICES ASSUME TypeOK, Awaited, [Next]_vars PROVE Awaited'
  OBVIOUS
<1>1. CASE UNCHANGED vars
  BY <1>1 DEF vars, server, Awaited, InFlight
<1>2. CASE Next
  BY <1>2, AwaitedServer, AwaitedCaller, AwaitedWatch DEF Next
<1> QED BY <1>1, <1>2

FollowedVars == <<version, announced, copy, [x \in Clients |-> Since(x)]>>

\* A step that neither changes the ruleset or the copy nor sends, takes up or
\* drops a GET.
LEMMA Unfollowed ==
    ASSUME UNCHANGED <<version, announced, copy>>,
           \A x \in Clients : Since(x)' = Since(x)
    PROVE  UNCHANGED FollowedVars
BY DEF FollowedVars

\* One coroutine's GET changes what it is to FollowedRuleset.
LEMMA SinceMoves ==
    ASSUME NEW x \in Clients, \A y \in Clients \ {x} : get'[y] = get[y]
    PROVE  [y \in Clients |-> Since(y)]'
              = [[y \in Clients |-> Since(y)] EXCEPT ![x] = Since(x)']
<1>1. \A y \in Clients \ {x} : Since(y)' = Since(y)
  BY DEF Since, InFlight
<1> QED BY <1>1

LEMMA SendFollows ==
    ASSUME TypeOK, NEW x \in Clients, Send(x), ~InFlight(x),
           UNCHANGED <<version, announced, copy>>
    PROVE  Followed!Ask(x)
<1>1. Since(x) = NotLoaded /\ Since(x)' = announced
  BY SentSince DEF Since, InFlight
<1>2. [y \in Clients |-> Since(y)]'
         = [[y \in Clients |-> Since(y)] EXCEPT ![x] = announced]
  BY <1>1, SentSince, SinceMoves
<1> QED BY <1>1, <1>2 DEF Followed!Ask

LEMMA RefreshFollows ==
    ASSUME TypeOK, Awaited, NEW x \in Clients, Refreshed(x),
           UNCHANGED <<version, announced>>
    PROVE  Followed!Adopt(x) \/ Followed!GiveUp(x)
<1>1. InFlight(x) /\ ~InFlight(x)'
  BY RefreshedSince DEF InFlight
<1>2. Since(x) = get[x].floor /\ Since(x)' = NotLoaded /\ Since(x) # NotLoaded
  BY <1>1 DEF Since, NotLoaded, TypeOK, GetType
<1>3. [y \in Clients |-> Since(y)]'
         = [[y \in Clients |-> Since(y)] EXCEPT ![x] = NotLoaded]
  BY <1>2, RefreshedSince, SinceMoves
<1>4. CASE Failed(x)
  BY <1>2, <1>3, <1>4 DEF Failed, Followed!GiveUp
<1>5. CASE Received(x)
  <2>1. copy' = get[x].ver /\ get[x].ver \in get[x].floor .. version
    BY <1>5 DEF Received, Awaited
  <2> QED BY <1>2, <1>3, <2>1 DEF Followed!Adopt
<1> QED BY <1>4, <1>5 DEF Refreshed

\* close() gives up the GET of the task it cancels, if there is one.
LEMMA CloseFollows ==
    ASSUME TypeOK, NEW c \in Callers, Close(c)
    PROVE  [Followed!Next]_FollowedVars
<1>1. UNCHANGED <<version, announced, copy>>
  BY DEF Close, server
<1>2. CASE task = NoTask
  <2>1. get' = get
    BY <1>2 DEF Close
  <2> QED BY <1>1, <2>1, Unfollowed DEF Since, InFlight
<1>3. ASSUME NEW t \in Watches, t = task PROVE [Followed!Next]_FollowedVars
  <2>0. t \in Clients
    BY DEF Clients
  <2>1. get' = [get EXCEPT ![t] = NoGet]
    BY <1>3 DEF Close
  <2>2. get'[t].pc = "idle" /\ \A y \in Clients \ {t} : get'[y] = get[y]
    BY <2>0, <2>1 DEF TypeOK, NoGet
  <2>3. Since(t)' = NotLoaded
    BY <2>2 DEF Since, InFlight
  <2>4. CASE Since(t) = NotLoaded
    <3>1. \A y \in Clients : Since(y)' = Since(y)
      BY <2>2, <2>3, <2>4 DEF Since, InFlight
    <3> QED BY <1>1, <3>1, Unfollowed
  <2>5. CASE Since(t) # NotLoaded
    <3>1. [y \in Clients |-> Since(y)]'
             = [[y \in Clients |-> Since(y)] EXCEPT ![t] = NotLoaded]
      BY <2>0, <2>2, <2>3, SinceMoves
    <3>2. Followed!GiveUp(t)
      BY <1>1, <2>0, <2>5, <3>1 DEF Followed!GiveUp
    <3> QED BY <2>0, <3>2 DEF Followed!Next
  <2> QED BY <2>4, <2>5
<1> QED BY <1>2, <1>3 DEF TypeOK

LEMMA ServerFollows ==
    ASSUME TypeOK, \/ Change \/ Announce \/ \E x \in Clients : Serve(x)
                   \/ \E w \in Watches : Break(w)
    PROVE  [Followed!Next]_FollowedVars
<1>1. ASSUME Change \/ Announce
      PROVE  \/ version' = version + 1 /\ announced' = announced
             \/ announced' = version /\ version' = version
  BY <1>1 DEF Change, Announce
<1>2. ASSUME Change \/ Announce
      PROVE  copy' = copy /\ [y \in Clients |-> Since(y)]' = [y \in Clients |-> Since(y)]
  BY <1>2 DEF Change, Announce, Since, InFlight
<1>3. CASE Change \/ Announce
  BY <1>1, <1>2, <1>3 DEF Followed!Next, Followed!Change, Followed!Promise
<1>4. ASSUME NEW x \in Clients, Serve(x) PROVE UNCHANGED FollowedVars
  <2>1. PICK v \in get[x].floor .. version :
            get' = [get EXCEPT ![x].pc = "served", ![x].ver = v]
    BY <1>4 DEF Serve
  <2>2. /\ get[x].pc = "sent" /\ get'[x].pc = "served" /\ get'[x].floor = get[x].floor
        /\ \A y \in Clients \ {x} : get'[y] = get[y]
    BY <1>4, <2>1 DEF TypeOK, GetType, Serve
  <2>3. \A y \in Clients : Since(y)' = Since(y)
    BY <2>2 DEF Since, InFlight
  <2> QED BY <1>4, <2>3, Unfollowed DEF Serve, server
<1>5. CASE \E w \in Watches : Break(w)
  BY <1>5, Unfollowed DEF Break, server, Since, InFlight
<1> QED BY <1>3, <1>4, <1>5

LEMMA FollowedStep ==
    TypeOK /\ Awaited /\ [Next]_vars => [Followed!Next]_FollowedVars
<1> SUFFICES ASSUME TypeOK, Awaited, [Next]_vars
             PROVE  [Followed!Next]_FollowedVars
  OBVIOUS
<1>1. CASE UNCHANGED vars
  BY <1>1, Unfollowed DEF vars, server, Since, InFlight
<1>2. CASE \/ Change \/ Announce \/ \E x \in Clients : Serve(x)
           \/ \E w \in Watches : Break(w)
  BY <1>2, ServerFollows
<1>3. ASSUME NEW w \in Watches,
             Connect(w) \/ ConnectFails(w) \/ Loop(w) \/ StreamEnds(w)
      PROVE  [Followed!Next]_FollowedVars
  BY <1>3, Unfollowed
  DEF Connect, ConnectFails, Loop, StreamEnds, server, Since, InFlight
<1>4. ASSUME NEW w \in Watches, ReadEvent(w) PROVE [Followed!Next]_FollowedVars
  <2>1. w \in Clients /\ Send(w) /\ UNCHANGED <<version, announced, copy>>
    BY <1>4 DEF ReadEvent, Clients, server
  <2>2. ~InFlight(w)
    BY <1>4 DEF ReadEvent, WatchAt, Awaited
  <2> QED BY <2>1, <2>2, SendFollows DEF Followed!Next
<1>5. ASSUME NEW w \in Watches, EventHandled(w) PROVE [Followed!Next]_FollowedVars
  <2>1. w \in Clients /\ Refreshed(w) /\ UNCHANGED <<version, announced>>
    BY <1>5 DEF EventHandled, Clients, server
  <2> QED BY <2>1, RefreshFollows DEF Followed!Next
<1>6. ASSUME NEW c \in Callers, Start(c) \/ Refresh(c)
      PROVE  [Followed!Next]_FollowedVars
  <2>1. c \in Clients /\ Send(c) /\ UNCHANGED <<version, announced, copy>>
    BY <1>6 DEF Start, Refresh, Clients, server
  <2>2. ~InFlight(c)
    BY <1>6 DEF Start, Refresh, Call, Awaited
  <2> QED BY <2>1, <2>2, SendFollows DEF Followed!Next
<1>7. ASSUME NEW c \in Callers, StartReturns(c) \/ RefreshReturns(c)
      PROVE  [Followed!Next]_FollowedVars
  <2>1. c \in Clients /\ Refreshed(c) /\ UNCHANGED <<version, announced>>
    BY <1>7 DEF StartReturns, RefreshReturns, Clients, server
  <2> QED BY <2>1, RefreshFollows DEF Followed!Next
<1>8. ASSUME NEW c \in Callers, Close(c) PROVE [Followed!Next]_FollowedVars
  BY <1>8, CloseFollows
<1> QED BY <1>1, <1>2, <1>3, <1>4, <1>5, <1>6, <1>7, <1>8 DEF Next, WatchStep

\* The client implements FollowedRuleset, for any number of calls, watch tasks and
\* changes: its copy is replaced by nothing but the answer to a GET, with a ruleset
\* that is as new as what had been announced when that GET was sent.
THEOREM CopyFollowsServer == Spec => FollowsServer
<1>1. Init => Awaited
  BY DEF Init, Awaited, InFlight, NoGet, Clients
<1>2. Init => Followed!Init
  <2>1. ASSUME Init PROVE [x \in Clients |-> Since(x)] = [x \in Clients |-> NotLoaded]
    BY <2>1 DEF Init, Since, InFlight, NoGet
  <2> QED BY <2>1 DEF Init, Followed!Init
<1> QED BY <1>1, <1>2, TypeInit, TypeNext, AwaitedNext, FollowedStep, PTL
        DEF Spec, FollowsServer, Followed!Spec, FollowedVars
=============================================================================
