----------------------------- MODULE MCSchedules -----------------------------
(* Instances of Schedules. *)
EXTENDS Schedules, TLC

CONSTANTS a, b, c

\* Many commands, late commands and many schedules are explored apart.  Schedules are
\* added in the order of their names: two share the faults, the third comes without.
Apart ==
  /\ now = Horizon => edits <= 2
  /\ table[b] # Absent => table[a] # Absent /\ now <= 3 /\ (edits <= 2 \/ table[c] # Absent)
  /\ table[c] # Absent => table[b] # Absent /\ now <= 2 /\ faults = 0
===============================================================================
