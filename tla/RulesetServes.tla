---------------------------- MODULE RulesetServes ----------------------------
(***************************************************************************)
(* The ruleset cache, with a history of one flag, serves that flag as      *)
(* ServedFlag promises it.                                                 *)
(***************************************************************************)
EXTENDS RulesetCache, Sequences

CONSTANT Flag

ASSUME FlagAssumption == Flag \in Keys

VARIABLE log    \* history: after each commit to the flag, was it there

HistoryInit ==
    /\ Init
    /\ log = IF db[Flag].live THEN <<TRUE>> ELSE <<>>

HistoryNext ==
    /\ Next
    /\ log' = IF db'[Flag] = db[Flag] THEN log ELSE Append(log, db'[Flag].live)

HistorySpec ==
    HistoryInit /\ [][HistoryNext]_<<vars, log>> /\ Fairness

\* A torn evaluation is not told what there was (see RulesetCache!NeverMissing).
Torn(r) == r \in Evaluators /\ ~whole[r] /\ ~view[r][Flag].live

\* A handler's program counter and variables as a call of ServedFlag.
ServedCall(r) ==
    LET call(phase, version) == [phase |-> phase, version |-> version] IN
    CASE rpc[r] = "idle" \/ Flag \notin want[r] -> call("idle", 0)
      [] rpc[r] \in {"answered", "published"} /\ Flag \in want[r] ->
            IF Torn(r) THEN call("failed", 0)
            ELSE call("answered", Payload(view[r][Flag]).n)
      [] rpc[r] = "failed" /\ Flag \in want[r] -> call("failed", 0)
      [] OTHER -> call("asked", floor[r][Flag].n)

Served == INSTANCE ServedFlag WITH
    Requests <- Readers,
    promised <- acked[Flag].n,
    call     <- [r \in Readers |-> ServedCall(r)]

\* Whatever evaluations, bootstraps, rebuilds and expiries of the hash come
\* between, each request is served as from one register: the abstract
\* specification of ServedFlag.
ServedSpec == Served!Spec
=============================================================================
