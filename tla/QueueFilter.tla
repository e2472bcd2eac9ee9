----------------------------- MODULE QueueFilter -----------------------------
(* A queue from which some entries are removed, the others keeping their     *)
(* order: `kept = [entry for entry in queue if ...]` (message_pipeline.py).  *)
EXTENDS Integers, FiniteSets, Sequences

\* The order-preserving injections that list the index set K.
Listings(K) == {f \in [1 .. Cardinality(K) -> K] : \A i, j \in DOMAIN f : i < j => f[i] < f[j]}

\* The entries of q at the indices K, in their order.  There is exactly one
\* such queue, for K within the indices of q.
Kept(q, K) == {[n \in DOMAIN f |-> q[f[n]]] : f \in Listings(K)}
===============================================================================
