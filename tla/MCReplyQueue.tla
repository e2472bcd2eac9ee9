---------------------------- MODULE MCReplyQueue ----------------------------
(* Small instances of ReplyQueue for TLC.                                  *)
EXTENDS ReplyQueue

CONSTANTS c1, c2, m1, m2, m3, n1, ann, bob

\* Three messages share a channel, the fourth has one of its own and takes
\* part in the process-wide limit only.
TwoRooms == {c1, c2}
FourMessages == {m1, m2, m3, n1}
RoomOf == [m \in Messages |-> IF m = n1 THEN c2 ELSE c1]
AuthorOf == [m \in Messages |-> IF m = m1 THEN ann ELSE bob]
NoBurst == [m \in Messages |-> {}]
=============================================================================
