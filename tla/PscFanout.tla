------------------------------ MODULE PscFanout ------------------------------
(***************************************************************************)
(* What psc_send promises to its clients, without threads, sockets or      *)
(* slots: broadcasts happen one at a time, and every client that is        *)
(* connected gets each of them before the next begins.                     *)
(***************************************************************************)
EXTENDS Naturals

CONSTANTS Conns, MaxSends

VARIABLES
  sent,         \* number of broadcasts begun
  stage,        \* of each client: not yet joined, joined, left
  last          \* the latest broadcast a joined client has, or joined after

vars == <<sent, stage, last>>

Init ==
  /\ sent = 0
  /\ stage = [c \in Conns |-> "no"]
  /\ last = [c \in Conns |-> 0]

Joined == {c \in Conns : stage[c] = "yes"}

\* A broadcast begins when every client has the one before.
Publish ==
  /\ sent < MaxSends
  /\ \A c \in Joined : last[c] = sent
  /\ sent' = sent + 1
  /\ UNCHANGED <<stage, last>>

Deliver(c) ==
  /\ c \in Joined
  /\ last[c] + 1 = sent
  /\ last' = [last EXCEPT ![c] = sent]
  /\ UNCHANGED <<sent, stage>>

\* A client that joins gets every broadcast that begins later.
Join(c) ==
  /\ stage[c] = "no"
  /\ stage' = [stage EXCEPT ![c] = "yes"]
  /\ last' = [last EXCEPT ![c] = sent]
  /\ UNCHANGED sent

\* A client may be turned away, and gets nothing.
Refuse(c) ==
  /\ stage[c] = "no"
  /\ stage' = [stage EXCEPT ![c] = "left"]
  /\ UNCHANGED <<sent, last>>

Leave(c) ==
  /\ c \in Joined
  /\ stage' = [stage EXCEPT ![c] = "left"]
  /\ last' = [last EXCEPT ![c] = 0]
  /\ UNCHANGED sent

Next == Publish \/ \E c \in Conns : Deliver(c) \/ Join(c) \/ Refuse(c) \/ Leave(c)

Spec == Init /\ [][Next]_vars

=============================================================================
