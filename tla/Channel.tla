------------------------------- MODULE Channel -------------------------------
(***************************************************************************)
(* What the way from a sink to the controller promises: messages reach the *)
(* queue in the order they were sent; once the controller observes its     *)
(* adapter none is lost; none is made up or kept twice; and the queue      *)
(* stays within its capacity.                                              *)
(***************************************************************************)
EXTENDS Integers, Sequences

CONSTANTS Messages, Backlog

VARIABLES onTheWay, bQ, observed

vars == <<onTheWay, bQ, observed>>

Init == onTheWay = <<>> /\ bQ = <<>> /\ observed = FALSE

Observe == ~observed /\ observed' = TRUE /\ UNCHANGED <<onTheWay, bQ>>

Send ==
  /\ UNCHANGED <<bQ, observed>>
  /\ Len(onTheWay') > Len(onTheWay)
  /\ LET u == onTheWay'[Len(onTheWay')]
     IN  u \in Messages /\ onTheWay' = Append(onTheWay, u)

Lose ==
  /\ ~observed /\ onTheWay # <<>>
  /\ onTheWay' = Tail(onTheWay)
  /\ UNCHANGED <<bQ, observed>>

Deliver ==
  /\ onTheWay # <<>> /\ Len(bQ) < Backlog
  /\ bQ' = Append(bQ, Head(onTheWay))
  /\ onTheWay' = Tail(onTheWay)
  /\ UNCHANGED observed

Take == bQ # <<>> /\ bQ' = Tail(bQ) /\ UNCHANGED <<onTheWay, observed>>

Next == Observe \/ Send \/ Lose \/ Deliver \/ Take

Spec == Init /\ [][Next]_vars

==============================================================================
