------------------------------ MODULE TurnQueue ------------------------------
(***************************************************************************)
(* What the reply queue promises for directed messages, as the docstring   *)
(* of ReplyQueue (message_pipeline.py) puts it: "your turn comes after the *)
(* one in front of you".  Soft chatter is visible only while it is served. *)
(*                                                                         *)
(* A directed message is accepted once, keeps its place among the others   *)
(* of its channel, and leaves by being served or withdrawn.  A channel     *)
(* serves one message at a time, and none that another is ahead of.        *)
(***************************************************************************)
EXTENDS Naturals

CONSTANTS Channels, Messages, Chan, None

VARIABLES
  held,     \* the directed messages that wait for their turn
  ahead,    \* <<a, b>>: a and b wait in one channel, and a is in front of b
  serving,  \* the message whose reply is being made in each channel, or None
  open      \* turns may begin and messages may be accepted

vars == <<held, ahead, serving, open>>

Init ==
  /\ held = {}
  /\ ahead = {}
  /\ serving = [c \in Channels |-> None]
  /\ open = TRUE

Among(S, R) == {p \in R : p[1] \in S /\ p[2] \in S}

\* The place of the new message is not promised; the order of the others is.
Accept(m) ==
  /\ open
  /\ m \notin held
  /\ held' = held \cup {m}
  /\ Among(held, ahead') = ahead
  /\ UNCHANGED <<serving, open>>

Call(c, m) ==
  /\ open
  /\ serving[c] = None
  /\ Chan[m] = c
  /\ ~\E a \in held : <<a, m>> \in ahead
  /\ serving' = [serving EXCEPT ![c] = m]
  /\ held' = held \ {m}
  /\ ahead' = Among(held', ahead)
  /\ UNCHANGED open

Finish(c) ==
  /\ serving[c] # None
  /\ serving' = [serving EXCEPT ![c] = None]
  /\ UNCHANGED <<held, ahead, open>>

\* By a cleared channel, a same-user interrupt, or the shutdown.
Withdraw(S) ==
  /\ held' = held \ S
  /\ ahead' = Among(held', ahead)
  /\ UNCHANGED <<serving, open>>

Shut ==
  /\ open' = FALSE
  /\ UNCHANGED <<held, ahead, serving>>

Next ==
  \/ \E m \in Messages : Accept(m)
  \/ \E c \in Channels, m \in Messages : Call(c, m)
  \/ \E c \in Channels : Finish(c)
  \/ \E S \in SUBSET held : Withdraw(S)
  \/ Shut

Spec == Init /\ [][Next]_vars
=============================================================================
