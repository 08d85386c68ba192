-------------------------- MODULE FollowedRuleset --------------------------
(***************************************************************************)
(* What an SDK's copy of the ruleset promises: it follows the server. It   *)
(* is replaced as a whole, by nothing but the answer to a fetch, with a    *)
(* ruleset the server has come to have since the change that was promised  *)
(* when that fetch was sent. A fetch may be given up; the copy stays.      *)
(***************************************************************************)
EXTENDS Naturals

CONSTANTS
    Fetchers,    \* those that may fetch, each one thing at a time
    Nothing      \* no copy yet, and no fetch under way

VARIABLES
    latest,      \* the server's ruleset
    promised,    \* the newest change that it has told of
    copy,        \* the client's copy
    since        \* for each fetch under way, what was promised when it was sent

Init ==
    /\ latest = 0
    /\ promised = 0
    /\ copy = Nothing
    /\ since = [x \in Fetchers |-> Nothing]

Change ==
    /\ latest' = latest + 1
    /\ UNCHANGED <<promised, copy, since>>

Promise ==
    /\ promised' = latest
    /\ UNCHANGED <<latest, copy, since>>

Ask(x) ==
    /\ since[x] = Nothing
    /\ since' = [since EXCEPT ![x] = promised]
    /\ UNCHANGED <<latest, promised, copy>>

Adopt(x) ==
    /\ since[x] # Nothing
    /\ copy' \in since[x] .. latest
    /\ since' = [since EXCEPT ![x] = Nothing]
    /\ UNCHANGED <<latest, promised>>

GiveUp(x) ==
    /\ since[x] # Nothing
    /\ since' = [since EXCEPT ![x] = Nothing]
    /\ UNCHANGED <<latest, promised, copy>>

Next ==
    \/ Change
    \/ Promise
    \/ \E x \in Fetchers : Ask(x) \/ Adopt(x) \/ GiveUp(x)

Spec == Init /\ [][Next]_<<latest, promised, copy, since>>
=============================================================================
