--------------------------- MODULE MCWatchDebounce ---------------------------
(* Instances of WatchDebounce. *)
EXTENDS WatchDebounce, TLC

CONSTANTS ann, bob

\* Ann and Bob take turns, each with soft lines and messages to Maxwell.
Lines == 1..5
AuthorOf == 1 :> ann @@ 2 :> bob @@ 3 :> ann @@ 4 :> bob @@ 5 :> ann
Addressed == {3, 5}
===============================================================================
