---------------------------- MODULE DeDuplicator ----------------------------
(***************************************************************************)
(* The redundancy of the Rust data plane (redundancy/mod.rs):              *)
(* AdaptiveDuplicator decides by the class of a packet and the loss of its *)
(* path whether a second copy is sent over another one;                    *)
(* SlidingDeDuplicator lets one copy through.  It keeps the last           *)
(* max_history numbers in a ring, of which a 0 is an empty place, and in a *)
(* set.  The network between loses and reorders.                           *)
(*                                                                         *)
(* The mutex is held for the whole of register.  Loss is in permille.      *)
(***************************************************************************)
EXTENDS Naturals, Sequences, FiniteSets

CONSTANTS max_history,
          loss_threshold,  \* 30
          Loss,            \* the loss rates of the primary path
          MaxSeq           \* bound: numbers sent

ASSUME DeDuplicatorAssumption ==
    max_history \in Nat \ {0} /\ loss_threshold \in Nat /\ Loss \subseteq Nat
    /\ MaxSeq \in Nat

Number == 0..MaxSeq
Place == 0..(max_history - 1)

VARIABLES history,   \* the ring
          set,
          write_idx,
          next_seq,  \* the sender's next number
          copies,    \* number -> copies on the way
          passed,    \* history: the numbers register returned true for, in order
          answer     \* its last call: the number, and what it returned

ringVars == <<history, set, write_idx>>
netVars == <<next_seq, copies>>
vars == <<ringVars, netVars, passed, answer>>

Init ==
    /\ history = [i \in Place |-> 0]
    /\ set = {}
    /\ write_idx = 0
    /\ next_seq = 0
    /\ copies = [n \in Number |-> 0]
    /\ passed = <<>>
    /\ answer = <<>>

----------------------------------------------------------------------------
should_duplicate(qos_class, loss) ==
    \/ qos_class = 1 /\ loss > 5
    \/ qos_class = 0 /\ loss >= loss_threshold

\* The sender of a packet.
Send(qos_class, loss) ==
    /\ next_seq <= MaxSeq
    /\ next_seq' = next_seq + 1
    /\ copies' = [copies EXCEPT ![next_seq] =
                    IF should_duplicate(qos_class, loss) THEN 2 ELSE 1]
    /\ UNCHANGED <<ringVars, passed, answer>>

Lose(n) ==
    /\ copies[n] > 0
    /\ copies' = [copies EXCEPT ![n] = @ - 1]
    /\ UNCHANGED <<ringVars, next_seq, passed, answer>>

\* Mutant: an evicted number stays in the set.
EvictNothing(s) == s

\* The number in the place to be written leaves the set, unless it is a 0.
Evict(s) == s \ ({history[write_idx]} \ {0})

\* Mutant: one place of the ring is never used.
AdvanceShort == (write_idx + 1) % (IF max_history > 1 THEN max_history - 1 ELSE 1)

Advance == (write_idx + 1) % max_history

\* register(n).
register(n) ==
    IF n \in set
    THEN /\ answer' = <<n, FALSE>>
         /\ UNCHANGED <<ringVars, passed>>
    ELSE /\ set' = Evict(set) \cup {n}
         /\ history' = [history EXCEPT ![write_idx] = n]
         /\ write_idx' = Advance
         /\ passed' = Append(passed, n)
         /\ answer' = <<n, TRUE>>

Arrives(n) ==
    /\ copies[n] > 0
    /\ copies' = [copies EXCEPT ![n] = @ - 1]
    /\ register(n)
    /\ UNCHANGED next_seq

Next ==
    \/ \E qos_class \in 0..3, loss \in Loss : Send(qos_class, loss)
    \/ \E n \in Number : Lose(n) \/ Arrives(n)

Spec == Init /\ [][Next]_vars

----------------------------------------------------------------------------
TypeOK ==
    /\ history \in [Place -> Number]
    /\ set \subseteq Number
    /\ write_idx \in Place
    /\ next_seq \in 0..(MaxSeq + 1)
    /\ copies \in [Number -> 0..2]
    /\ passed \in Seq(Number)

(* The set holds at most max_history numbers and a 0 that got through, however
   long the de-duplicator runs. *)
SizeBounded == Cardinality(set \ {0}) <= max_history

(* The de-duplicator is a sliding window of exactly max_history numbers: while a
   number is one of the last max_history that passed, its copies are refused,
   and no new number is. *)
Window == INSTANCE SlidingWindow WITH Size <- max_history

ImplementsSlidingWindow == Window!Spec
=============================================================================
