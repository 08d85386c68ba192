----------------------------- MODULE MCSdkWatch -----------------------------
(* Instances of SdkWatch for TLC.                                          *)
EXTENDS SdkWatch, TLC

CONSTANTS c1, c2, c3, t1, t2, none

\* start, start and close, or start, refresh and close, in any order.
MCMayCall == c1 :> {"start"} @@ c2 :> {"start", "refresh"} @@ c3 :> {"close"}
=============================================================================
