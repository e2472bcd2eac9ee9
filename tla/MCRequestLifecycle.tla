-------------------------- MODULE MCRequestLifecycle --------------------------
(* Instances of RequestLifecycle: two messages of one author. *)
EXTENDS RequestLifecycle, TLC

CONSTANT alice

OneAuthor == 1 :> alice @@ 2 :> alice

\* The gateway delivers each message once, or the first one twice.
Once == 1 :> 1 @@ 2 :> 1
Redelivered == 1 :> 2 @@ 2 :> 1

\* The tasks of the gateway are alike.
Symmetry == Permutations(Handlers)
===============================================================================
