------------------------------ MODULE SdkWatch ------------------------------
(***************************************************************************)
(* ripcord/sdk/client.py with the server's /stream and /ruleset            *)
(* (ripcord/api/realtime.py): the copy of the ruleset an application        *)
(* evaluates against, the coroutines that refresh it, and the watch task    *)
(* that holds an SSE connection open.                                       *)
(*                                                                          *)
(* The ruleset is its version. A step of the client ends at an await: the   *)
(* request has been sent, and what comes back arrives in a later step.      *)
(***************************************************************************)
EXTENDS Integers, Sequences, FiniteSets

CONSTANTS
    Callers,     \* coroutines of the application, each making one call
    MayCall,     \* ... of these: "start", "refresh", "close"
    Watches,     \* the watch tasks start() may create; bounds its calls
    NoTask,      \* the handle before there is a task: None
    MaxChanges   \* bounds the changes of the ruleset

ASSUME ClientsAssumption ==
    /\ Callers \cap Watches = {}
    /\ NoTask \notin Watches
    /\ IsFiniteSet(Watches)

ASSUME ChangesAssumption == MaxChanges \in Nat

Clients == Callers \cup Watches
NotLoaded == -1   \* the empty _flags before the first answer

VARIABLES
    version,     \* the ruleset as of the last commit
    announced,   \* ... and as of the last notify_flag_change
    copy,        \* _flags
    stopped,     \* _stopped
    task,        \* _watch_task
    app,         \* what each caller is doing
    wpc,         \* where each watch task is
    stream,      \* its connection to /stream: "none", "open" or "broken"
    wire,        \* flag-change events on their way to it
    get,         \* the GET /ruleset of each coroutine
    known,       \* for the properties: what the answers so far had to show,
    overlapped   \* and whether two GETs have ever been under way at once

server == <<version, announced>>
vars   == <<server, copy, stopped, task, app, wpc, stream, wire, get, known,
            overlapped>>

Versions == Nat \cup {NotLoaded}
GetType  == [pc : {"idle", "sent", "served", "failed"},
             floor : Nat, ver : Nat]
NoGet    == [pc |-> "idle", floor |-> 0, ver |-> 0]

TypeOK ==
    /\ version \in Nat
    /\ announced \in Nat /\ announced <= version
    /\ copy \in Versions
    /\ stopped \in BOOLEAN
    /\ task \in Watches \cup {NoTask}
    /\ app \in [Callers -> {"idle", "start", "refresh", "over"}]
    /\ wpc \in [Watches -> {"none", "loop", "connect", "read", "refresh", "done"}]
    /\ stream \in [Watches -> {"none", "open", "broken"}]
    /\ wire \in [Watches -> Seq(Nat)]
    /\ get \in [Clients -> GetType]
    /\ known \in Versions
    /\ overlapped \in BOOLEAN

Init ==
    /\ version = 0
    /\ announced = 0
    /\ copy = NotLoaded
    /\ stopped = FALSE
    /\ task = NoTask
    /\ app = [c \in Callers |-> "idle"]
    /\ wpc = [w \in Watches |-> "none"]
    /\ stream = [w \in Watches |-> "none"]
    /\ wire = [w \in Watches |-> <<>>]
    /\ get = [x \in Clients |-> NoGet]
    /\ known = NotLoaded
    /\ overlapped = FALSE

-----------------------------------------------------------------------------
(* The server. RulesetCache models how it keeps the promise that Serve      *)
(* states: an answer is as new as what had been announced when it was asked.*)

\* One operator at a time: the next commit follows the announcement.
Change ==
    /\ announced = version
    /\ version < MaxChanges
    /\ version' = version + 1
    /\ UNCHANGED <<announced, copy, stopped, task, app, wpc, stream, wire, get,
                   known, overlapped>>

\* Mutant: the change is announced before it is committed.
AnnounceEarly ==
    /\ announced <= version
    /\ version < MaxChanges
    /\ announced' = version + 1
    /\ wire' = [w \in Watches |-> IF stream[w] = "open"
                                  THEN Append(wire[w], version + 1) ELSE wire[w]]
    /\ UNCHANGED <<version, copy, stopped, task, app, wpc, stream, get, known,
                   overlapped>>

\* PUBLISH reaches whoever is subscribed at that moment, and no one else.
Announce ==
    /\ announced < version
    /\ announced' = version
    /\ wire' = [w \in Watches |-> IF stream[w] = "open"
                                  THEN Append(wire[w], version) ELSE wire[w]]
    /\ UNCHANGED <<version, copy, stopped, task, app, wpc, stream, get, known,
                   overlapped>>

Serve(x) ==
    /\ get[x].pc = "sent"
    /\ \E v \in get[x].floor .. version :
           get' = [get EXCEPT ![x].pc = "served", ![x].ver = v]
    /\ UNCHANGED <<server, copy, stopped, task, app, wpc, stream, wire, known,
                   overlapped>>

\* The connection, Redis or the server's process is lost. Events that were on
\* their way are lost too, from some point on.
Break(w) ==
    /\ stream[w] = "open"
    /\ stream' = [stream EXCEPT ![w] = "broken"]
    /\ \E n \in 0 .. Len(wire[w]) : wire' = [wire EXCEPT ![w] = SubSeq(@, 1, n)]
    /\ UNCHANGED <<server, copy, stopped, task, app, wpc, get, known, overlapped>>

-----------------------------------------------------------------------------
(* refresh                                                                  *)

InFlight(x) == get[x].pc \in {"sent", "served"}

Send(x) ==
    /\ get' = [get EXCEPT ![x] = [NoGet EXCEPT !.pc = "sent",
                                               !.floor = announced]]
    /\ overlapped' = (overlapped \/ \E y \in Clients : InFlight(y))

\* The answer replaces the copy as a whole, whatever it was.
Received(x) ==
    /\ get[x].pc = "served"
    /\ get' = [get EXCEPT ![x] = NoGet]
    /\ copy' = get[x].ver
    /\ known' = IF get[x].floor > known THEN get[x].floor ELSE known

\* A failure is told to nobody; of a watch the properties know of it.
Lost(x) == IF x \in Watches THEN [NoGet EXCEPT !.pc = "failed"] ELSE NoGet

\* Mutant: a failed refresh clears the copy.
FailedEmpties(x) ==
    /\ InFlight(x)
    /\ get' = [get EXCEPT ![x] = Lost(x)]
    /\ copy' = NotLoaded
    /\ UNCHANGED known

\* No connection, a timeout, a 5xx, a rejected key, a body that does not parse:
\* last-known-good.
Failed(x) ==
    /\ InFlight(x)
    /\ get' = [get EXCEPT ![x] = Lost(x)]
    /\ UNCHANGED <<copy, known>>

Refreshed(x) == Received(x) \/ Failed(x)
-----------------------------------------------------------------------------
(* The application                                                          *)

Call(c, what, pc) ==
    /\ what \in MayCall[c]
    /\ app[c] = "idle"
    /\ app' = [app EXCEPT ![c] = pc]

Unstarted == {w \in Watches : wpc[w] = "none"}
Starting  == {c \in Callers : app[c] = "start"}

\* start(watch=True), until its refresh() awaits the answer
Start(c) ==
    /\ Cardinality(Starting) < Cardinality(Unstarted)
    /\ Call(c, "start", "start")
    /\ Send(c)
    /\ UNCHANGED <<server, copy, stopped, task, wpc, stream, wire, known>>

\* refresh(), or start(watch=False)
Refresh(c) ==
    /\ Call(c, "refresh", "refresh")
    /\ Send(c)
    /\ UNCHANGED <<server, copy, stopped, task, wpc, stream, wire, known>>

RefreshReturns(c) ==
    /\ app[c] = "refresh"
    /\ Refreshed(c)
    /\ app' = [app EXCEPT ![c] = "over"]
    /\ UNCHANGED <<server, stopped, task, wpc, stream, wire, overlapped>>

\* The refresh of start() is over, well or not: create_task(self._watch()). Which
\* of the tasks it is makes no difference.
StartReturns(c) ==
    /\ app[c] = "start"
    /\ Refreshed(c)
    /\ app' = [app EXCEPT ![c] = "over"]
    /\ Unstarted # {}
    /\ task' = CHOOSE w \in Unstarted : TRUE
    /\ wpc' = [wpc EXCEPT ![task'] = "loop"]
    /\ UNCHANGED <<server, stopped, stream, wire, overlapped>>

\* The cancelled task ends at the await it is at: nothing in _watch or refresh
\* catches CancelledError. Its connection and its GET go with it.
Close(c) ==
    /\ Call(c, "close", "over")
    /\ stopped' = TRUE
    /\ IF task = NoTask
       THEN UNCHANGED <<wpc, stream, wire, get>>
       ELSE /\ wpc' = [wpc EXCEPT ![task] = "done"]
            /\ stream' = [stream EXCEPT ![task] = "none"]
            /\ wire' = [wire EXCEPT ![task] = <<>>]
            /\ get' = [get EXCEPT ![task] = NoGet]
    /\ UNCHANGED <<server, copy, task, known, overlapped>>

-----------------------------------------------------------------------------
(* _watch                                                                   *)

WatchAt(w, step, next) ==
    /\ wpc[w] = step
    /\ wpc' = [wpc EXCEPT ![w] = next]

\* Mutant: `while True`.
LoopForever(w) ==
    /\ WatchAt(w, "loop", "connect")
    /\ UNCHANGED <<server, copy, stopped, task, app, stream, wire, get, known,
                   overlapped>>

\* The top of the loop, after the back-off or when the task first runs.
Loop(w) ==
    /\ WatchAt(w, "loop", IF stopped THEN "done" ELSE "connect")
    /\ UNCHANGED <<server, copy, stopped, task, app, stream, wire, get, known,
                   overlapped>>

\* The server has subscribed to the channel, and answers.
Connect(w) ==
    /\ WatchAt(w, "connect", "read")
    /\ stream' = [stream EXCEPT ![w] = "open"]
    /\ UNCHANGED <<server, copy, stopped, task, app, wire, get, known, overlapped>>

\* No connection, or an answer that is not a stream: back off, then try again.
ConnectFails(w) ==
    /\ WatchAt(w, "connect", "loop")
    /\ UNCHANGED <<server, copy, stopped, task, app, stream, wire, get, known,
                   overlapped>>

\* Mutant: an event is taken off the wire, and the refresh left out while
\* another coroutine's is under way.
ReadEventSharing(w) ==
    /\ wire[w] # <<>>
    /\ wire' = [wire EXCEPT ![w] = Tail(@)]
    /\ IF \E y \in Clients : InFlight(y)
       THEN WatchAt(w, "read", "read") /\ UNCHANGED <<get, overlapped>>
       ELSE WatchAt(w, "read", "refresh") /\ Send(w)
    /\ UNCHANGED <<server, copy, stopped, task, app, stream, known>>

\* The data line of a flag-change event.
ReadEvent(w) ==
    /\ wire[w] # <<>>
    /\ WatchAt(w, "read", "refresh")
    /\ wire' = [wire EXCEPT ![w] = Tail(@)]
    /\ Send(w)
    /\ UNCHANGED <<server, copy, stopped, task, app, stream, known>>

\* Meanwhile further events wait on the wire: the loop awaits the refresh.
EventHandled(w) ==
    /\ WatchAt(w, "refresh", "read")
    /\ Refreshed(w)
    /\ UNCHANGED <<server, stopped, task, app, stream, wire, overlapped>>

\* Mutant: a stream that ends without an error ends the task.
StreamEndsWatch(w) ==
    /\ stream[w] = "broken"
    /\ wire[w] = <<>>
    /\ WatchAt(w, "read", "done")
    /\ stream' = [stream EXCEPT ![w] = "none"]
    /\ UNCHANGED <<server, copy, stopped, task, app, wire, get, known, overlapped>>

\* The stream ends or raises, after what had arrived has been read.
StreamEnds(w) ==
    /\ stream[w] = "broken"
    /\ wire[w] = <<>>
    /\ WatchAt(w, "read", IF stopped THEN "done" ELSE "loop")
    /\ stream' = [stream EXCEPT ![w] = "none"]
    /\ UNCHANGED <<server, copy, stopped, task, app, wire, get, known, overlapped>>

WatchStep(w) == Loop(w) \/ ReadEvent(w) \/ EventHandled(w) \/ StreamEnds(w)

Next ==
    \/ Change \/ Announce
    \/ \E x \in Clients : Serve(x)
    \/ \E w \in Watches : Break(w) \/ Connect(w) \/ ConnectFails(w) \/ WatchStep(w)
    \/ \E c \in Callers : \/ Start(c) \/ StartReturns(c) \/ Refresh(c)
                          \/ RefreshReturns(c) \/ Close(c)

\* The event loop resumes a task whose await is over, and every await of a
\* watch is over at some time: /ruleset is answered or times out, a broken
\* stream is noticed, the back-off ends, and a server that is tried again and
\* again lets the client connect at last.
Fairness == \A w \in Watches : WF_vars(WatchStep(w)) /\ SF_vars(Connect(w))

Spec == Init /\ [][Next]_vars /\ Fairness

-----------------------------------------------------------------------------
(* Properties                                                               *)

\* Fail open and in order (refresh, _watch): a failed refresh never costs what
\* was known, and the copy never shows less than an earlier answer had to:
\* the watch awaits each refresh before it reads the next event. Only an
\* application that calls refresh() meanwhile can get the answers reordered.
NoStepBack == ~overlapped => copy >= known

\* What a coroutine's GET is to FollowedRuleset.
Since(x) == IF InFlight(x) THEN get[x].floor ELSE NotLoaded

Followed == INSTANCE FollowedRuleset WITH
    Fetchers <- Clients,
    Nothing  <- NotLoaded,
    latest   <- version,
    promised <- announced,
    since    <- [x \in Clients |-> Since(x)]

\* Whatever calls, watch tasks and lost streams come together, the copy follows
\* the server (refresh, _watch, close): a coroutine has one GET at a time, its
\* answer replaces the copy, and nothing else does, neither a failure nor close().
FollowsServer == Followed!Spec

\* close() ends the watching, also when start() is still awaiting its refresh
\* and creates the task afterwards. A task that a second start() left without a
\* handle goes on.
ClosedIsQuiet ==
    stopped => \A w \in Watches :
                  wpc[w] \in {"connect", "read", "refresh"} => w # task

OnWire(w, n) == \E i \in DOMAIN wire[w] : wire[w][i] = n

\* An event that has reached the client leads to a copy at least as new as what
\* it announced, unless the stream breaks, a refresh fails, or close() is called.
EventsAreHeeded ==
    \A w \in Watches, n \in 1 .. MaxChanges :
        OnWire(w, n) ~> \/ known >= n \/ stream[w] # "open" \/ stopped
                        \/ get[w].pc = "failed" /\ ~OnWire(w, n)

\* A watch whose stream breaks, or cannot be opened, is connected again.
WatchResumes ==
    \A w \in Watches : (stream[w] = "broken" \/ wpc[w] \in {"loop", "connect"})
                          ~> (stream[w] = "open" \/ stopped)

\* A task that close() could not cancel, because a later start() took its handle,
\* ends too: when its connection is lost, or could not be made, it sees that the
\* client is closed.
LeakedEnds ==
    \A w \in Watches :
        stopped /\ (stream[w] = "broken" \/ wpc[w] = "loop") ~> wpc[w] = "done"

\* "Clients refresh on their next reconnect" (cache.py, notify_flag_change): a
\* watch that is connected gets to show also what was announced while it was not.
ReconnectRefreshes ==
    \A w \in Watches, n \in 1 .. MaxChanges :
        (stream[w] = "open" /\ announced >= n)
            ~> (known >= n \/ stream[w] # "open" \/ stopped \/ get[w].pc = "failed")
=============================================================================
