---------------------------- MODULE RequestJournal ----------------------------
(***************************************************************************)
(* The durable row of a request (message_pipeline.py, class                *)
(* RequestJournal) and the transactions the bot runs on it (requests.py).  *)
(*                                                                         *)
(* One worker runs the submitted transactions in order, so a transaction   *)
(* is a function from a row to a row.  Reasons, times and response ids are *)
(* left out.  The pruning of old terminal rows is left out: 10,000 of them *)
(* are kept.                                                               *)
(***************************************************************************)
EXTENDS Naturals

Pending == {"received", "queued", "deferred", "running"}

Terminal == {"delivered", "suppressed", "failed", "superseded"}

\* effects is effects_started.  A message without a row is "absent".
Row == [status : Pending \cup Terminal \cup {"absent"}, effects : BOOLEAN, attempts : Nat]

NoRow == [status |-> "absent", effects |-> FALSE, attempts |-> 0]

Closed(r) == r.status \in Terminal

\* Unfinished and effect-free: what pending() lists and begin() accepts.
Retryable(r) == r.status \in Pending /\ ~r.effects

\* accept: a row is inserted once and never reset.
Accepted(r) == IF r.status = "absent" THEN [r EXCEPT !.status = "received"] ELSE r

\* update: whatever the row says now.
Updated(r, status) == [r EXCEPT !.status = status]

\* begin, which raises ValueError unless Retryable(r).
Begun(r) == [r EXCEPT !.status = "running", !.attempts = @ + 1]

\* _record_request_outcome: a terminal row keeps its outcome.
Recorded(r, status) ==
  IF r.status = "absent" \/ Closed(r) THEN r ELSE Updated(r, status)

\* Mutant: the checkpoint is not committed before the effect.
CheckpointedLate(r) == r

\* _mark_request_effect, which raises CancelledError on a superseded row.
Checkpointed(r) == IF r.status = "absent" THEN r ELSE [r EXCEPT !.effects = TRUE]

\* _record_delivery.
Answered(r) ==
  IF r.status = "absent" \/ Closed(r) THEN r
  ELSE [r EXCEPT !.status = "delivered", !.effects = TRUE]

\* recover() and then suppress_stale() over everything the last process left.
Restarted(r) ==
  IF r.status \notin Pending THEN r
  ELSE Updated(r, IF r.effects THEN "failed" ELSE "suppressed")
===============================================================================
