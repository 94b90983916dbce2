------------------------------ MODULE LossyFifo ------------------------------
(***************************************************************************)
(* What the tunnel promises to the two programs at its ends: the receiver  *)
(* gets messages the sender sent, in the order in which they were sent,    *)
(* each at most once.  Any of them may be missing.                         *)
(***************************************************************************)
EXTENDS Naturals, Sequences

CONSTANT Message

VARIABLES sent,      \* what the sender sent, oldest first
          received   \* what the receiver got: [at, msg], at the place in sent

vars == <<sent, received>>

Init == sent = <<>> /\ received = <<>>

Send(m) == sent' = Append(sent, m) /\ UNCHANGED received

LastAt == IF received = <<>> THEN 0 ELSE received[Len(received)].at

\* Some messages behind the last one received come in; those between are lost.
Receive ==
    /\ UNCHANGED sent
    /\ \E n \in 0..(Len(sent) - LastAt) :
         \E ats \in [1..n -> (LastAt + 1)..Len(sent)] :
           /\ \A i, j \in 1..n : i < j => ats[i] < ats[j]
           /\ received' = received \o [i \in 1..n |->
                                         [at |-> ats[i], msg |-> sent[ats[i]]]]

Next == Receive \/ \E m \in Message : Send(m)

Spec == Init /\ [][Next]_vars
=============================================================================
