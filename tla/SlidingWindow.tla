--------------------------- MODULE SlidingWindow ---------------------------
(***************************************************************************)
(* What a sliding de-duplicator promises: a number is refused exactly when *)
(* it is among the last Size numbers that were passed.  The number 0 is    *)
(* special in the code modelled here: once passed it is never forgotten.   *)
(***************************************************************************)
EXTENDS Naturals, Sequences

CONSTANTS Number, Size

VARIABLES passed,  \* the numbers passed, in order
          answer   \* the number asked last, and whether it was passed

vars == <<passed, answer>>

Known(n) ==
    \E k \in DOMAIN passed : passed[k] = n /\ (k > Len(passed) - Size \/ n = 0)

Init == passed = <<>> /\ answer = <<>>

Pass(n) ==
    /\ ~ Known(n)
    /\ passed' = Append(passed, n)
    /\ answer' = <<n, TRUE>>

Refuse(n) ==
    /\ Known(n)
    /\ answer' = <<n, FALSE>>
    /\ UNCHANGED passed

Next == \E n \in Number : Pass(n) \/ Refuse(n)

Spec == Init /\ [][Next]_vars
=============================================================================
