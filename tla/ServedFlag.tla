----------------------------- MODULE ServedFlag -----------------------------
(***************************************************************************)
(* What the ruleset cache promises about one flag: a regular register. A   *)
(* request is answered with a version of the flag that is no older than    *)
(* the one promised when it asked, and that there is or was: not one that  *)
(* was never committed, and "no such flag" only if at some time there was  *)
(* none.                                                                   *)
(***************************************************************************)
EXTENDS Naturals, Sequences

CONSTANT Requests   \* requests that ask for the flag

VARIABLES
    log,        \* after each change of the flag: is it there
    promised,   \* the newest change whose request has returned
    call        \* what each request is at

\* Version i is what change i left behind. Before the first there is no flag.
There(i) == i > 0 /\ log[i]
Latest   == Len(log)

\* An asking request carries the version it was promised, an answered one the
\* version it was given, 0 if it was told that there is no flag.
Call(phase, version) == [phase |-> phase, version |-> version]
Idle     == Call("idle", 0)
Found(i) == Call("answered", IF There(i) THEN i ELSE 0)
Failed   == Call("failed", 0)

Init ==
    /\ log \in {<<>>, <<TRUE>>}
    /\ promised = Latest
    /\ call = [r \in Requests |-> Idle]

\* The flag is changed or deleted; if there is none, it is created.
Change ==
    /\ \E there \in BOOLEAN : /\ There(Latest) \/ there
                              /\ log' = Append(log, there)
    /\ UNCHANGED <<promised, call>>

\* A request that changed the flag returns.
Promise ==
    /\ promised' = Latest
    /\ UNCHANGED <<log, call>>

Becomes(r, next) ==
    /\ call' = [call EXCEPT ![r] = next]
    /\ UNCHANGED <<log, promised>>

Ask(r) == call[r] = Idle /\ Becomes(r, Call("asked", promised))

\* A request may be answered as soon as it asks.
Waits(r) == call[r].phase \in {"idle", "asked"}
Since(r) == IF call[r] = Idle THEN promised ELSE call[r].version

Answer(r) == Waits(r) /\ \E i \in Since(r) .. Latest : Becomes(r, Found(i))

\* It may also be given up, and then learns nothing.
GiveUp(r) == Waits(r) /\ Becomes(r, Failed)

Finish(r) == ~Waits(r) /\ Becomes(r, Idle)

Next ==
    \/ Change
    \/ Promise
    \/ \E r \in Requests : Ask(r) \/ Answer(r) \/ GiveUp(r) \/ Finish(r)

Spec == Init /\ [][Next]_<<log, promised, call>>
=============================================================================
