------------------------- MODULE MCPluginLifecycle -------------------------
(* Instances of PluginLifecycle. *)
EXTENDS PluginLifecycle, TLC

CONSTANTS base, addon, solo

\* The addon needs the base, whose setup is asynchronous.
Needs == base :> {} @@ addon :> {base} @@ solo :> {}
Order == base :> 1 @@ solo :> 2 @@ addon :> 3
===============================================================================
