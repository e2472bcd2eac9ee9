------------------------------ MODULE MCTaskJobs ------------------------------
(* Instances of TaskJobs. *)
EXTENDS TaskJobs, TLC

CONSTANTS s1, ann, j1, j2

\* One id, or two, drawn for one message of ann, which delegates two tasks.
OneJob == j1 :> s1
OneMessage == [j \in {j1, j2} |-> s1]
OneOwner == s1 :> ann
OneSize == s1 :> 2

\* Both ids of OneMessage are alike.
Alike == Permutations({j1, j2})

\* Shutdown and withdrawn permission are explored apart when there are two ids.
Apart == closed.at = "open" \/ eligible = Users
===============================================================================
