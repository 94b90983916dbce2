------------------------- MODULE DeDuplicatorProofs -------------------------
(***************************************************************************)
(* Proofs about DeDuplicator, for every history, every range of numbers    *)
(* and every network: the ring, its index and the set always agree, so     *)
(* that the set is bounded and the whole is a sliding window.              *)
(***************************************************************************)
EXTENDS DeDuplicator, TLAPS, FiniteSetTheorems

----------------------------------------------------------------------------
(* The place of the ring that was written j registrations ago. *)
Slot(w, j) == IF j <= w THEN w - j ELSE w - j + max_history

(* Read backwards from write_idx, the ring holds the numbers that passed last;
   the places not yet used hold 0. *)
RingIsTail ==
    \A j \in 1..max_history :
      history[Slot(write_idx, j)] =
        IF j <= Len(passed) THEN passed[Len(passed) - j + 1] ELSE 0

(* The numbers of the window are different from one another. *)
WindowDistinct ==
    \A i, j \in DOMAIN passed :
      i < j /\ i > Len(passed) - max_history => passed[i] # passed[j]

(* The set holds the numbers of the window, and a 0 that has passed. *)
SetIsWindow == \A n \in Number : n \in set <=> Window!Known(n)

IInv == TypeOK /\ RingIsTail /\ WindowDistinct /\ SetIsWindow

----------------------------------------------------------------------------
(* The next index, without the remainder. *)
LEMMA AdvanceWraps ==
    ASSUME write_idx \in Place
    PROVE  /\ Advance \in Place
           /\ Advance = IF write_idx + 1 = max_history THEN 0 ELSE write_idx + 1
<1>. USE DeDuplicatorAssumption DEF Place, Advance
<1>1. CASE write_idx + 1 = max_history
  <2>1. max_history % max_history = 0
    OBVIOUS
  <2>. QED  BY <1>1, <2>1
<1>2. CASE write_idx + 1 < max_history
  <2>1. (write_idx + 1) % max_history = write_idx + 1
    BY <1>2
  <2>. QED  BY <1>2, <2>1
<1>. QED  BY <1>1, <1>2

(* The inductive invariant holds at first. *)
LEMMA InitIInv == Init => IInv
<1>. SUFFICES ASSUME Init PROVE IInv
  OBVIOUS
<1>. USE DeDuplicatorAssumption DEF Init, Number, Place
<1>1. TypeOK
  BY DEF TypeOK
<1>2. RingIsTail
  BY DEF RingIsTail, Slot
<1>3. WindowDistinct
  BY DEF WindowDistinct
<1>4. SetIsWindow
  BY DEF SetIsWindow, Window!Known
<1>. QED  BY <1>1, <1>2, <1>3, <1>4 DEF IInv

----------------------------------------------------------------------------
(* A number that passes pushes the oldest one out of the window: it is the one
   in the place to be written, and it leaves the set unless it is 0. *)
LEMMA PassKeepsIInv ==
    ASSUME IInv, NEW n \in Number, n \notin set, register(n),
           next_seq' \in 0..(MaxSeq + 1), copies' \in [Number -> 0..2]
    PROVE  IInv'
<1>. USE DeDuplicatorAssumption
<1>. DEFINE L == Len(passed)
            old == history[write_idx]
<1>1. /\ history \in [Place -> Number] /\ set \subseteq Number
      /\ write_idx \in Place /\ passed \in Seq(Number) /\ L \in Nat
      /\ DOMAIN passed = 1..L /\ max_history \in Nat \ {0}
  BY DEF IInv, TypeOK
<1>2. /\ set' = (set \ ({old} \ {0})) \cup {n}
      /\ history' = [history EXCEPT ![write_idx] = n]
      /\ write_idx' = Advance
      /\ passed' = Append(passed, n)
  BY DEF register, Evict
<1>3. /\ passed' \in Seq(Number) /\ Len(passed') = L + 1 /\ DOMAIN passed' = 1..(L + 1)
      /\ passed'[L + 1] = n
      /\ \A k \in 1..L : passed'[k] = passed[k]
  BY <1>1, <1>2
<1>4. TypeOK'
  <2>1. history' \in [Place -> Number] /\ set' \subseteq Number
    BY <1>1, <1>2
  <2>. QED  BY <1>1, <1>2, <1>3, <2>1, AdvanceWraps DEF TypeOK
<1>5. old = IF max_history <= L THEN passed[L - max_history + 1] ELSE 0
  <2>1. Slot(write_idx, max_history) = write_idx
    BY <1>1 DEF Slot, Place
  <2>. QED  BY <1>1, <2>1 DEF IInv, RingIsTail
<1>6. \A k \in 1..L : k > L - max_history => passed[k] # n
  <2>1. ~ Window!Known(n)
    BY DEF IInv, SetIsWindow
  <2>. QED  BY <1>1, <2>1 DEF Window!Known
<1>7. RingIsTail'
  <2>. SUFFICES ASSUME NEW j \in 1..max_history
                PROVE  history'[Slot(write_idx', j)] =
                         IF j <= L + 1 THEN passed'[L + 1 - j + 1] ELSE 0
    BY <1>3 DEF RingIsTail, Slot
  <2>1. CASE j = 1
    <3>1. Slot(write_idx', 1) = write_idx
      BY <1>1, <1>2, AdvanceWraps DEF Slot, Place
    <3>2. history'[write_idx] = n
      BY <1>1, <1>2
    <3>. QED  BY <1>1, <1>3, <2>1, <3>1, <3>2
  <2>2. CASE j > 1
    <3>1. /\ j - 1 \in 1..max_history
          /\ Slot(write_idx', j) = Slot(write_idx, j - 1)
          /\ Slot(write_idx, j - 1) \in Place
          /\ Slot(write_idx, j - 1) # write_idx
      BY <1>1, <1>2, <2>2, AdvanceWraps DEF Slot, Place
    <3>2. history'[Slot(write_idx, j - 1)] = history[Slot(write_idx, j - 1)]
      BY <1>1, <1>2, <3>1
    <3>3. history[Slot(write_idx, j - 1)] =
            IF j - 1 <= L THEN passed[L - (j - 1) + 1] ELSE 0
      BY <3>1 DEF IInv, RingIsTail
    <3>4. j - 1 <= L => /\ L - (j - 1) + 1 \in 1..L
                        /\ L - (j - 1) + 1 = L + 1 - j + 1
      BY <1>1, <2>2
    <3>. QED  BY <1>1, <1>3, <2>2, <3>1, <3>2, <3>3, <3>4
  <2>. QED  BY <2>1, <2>2
<1>8. WindowDistinct'
  <2>. SUFFICES ASSUME NEW i \in 1..(L + 1), NEW j \in 1..(L + 1),
                       i < j, i > L + 1 - max_history
                PROVE  passed'[i] # passed'[j]
    BY <1>3 DEF WindowDistinct
  <2>1. CASE j = L + 1
    BY <1>1, <1>3, <1>6, <2>1
  <2>2. CASE j \in 1..L
    BY <1>1, <1>3, <2>2 DEF IInv, WindowDistinct
  <2>. QED  BY <1>1, <2>1, <2>2
<1>9. SetIsWindow'
  <2>. SUFFICES ASSUME NEW m \in Number
                PROVE  m \in set' <=>
                         \E k \in 1..(L + 1) :
                            passed'[k] = m /\ (k > L + 1 - max_history \/ m = 0)
    BY <1>3 DEF SetIsWindow, Window!Known
  <2>1. m \in set <=>
          \E k \in 1..L : passed[k] = m /\ (k > L - max_history \/ m = 0)
    BY <1>1 DEF IInv, SetIsWindow, Window!Known
  <2>2. ASSUME m \in set'
        PROVE  \E k \in 1..(L + 1) :
                 passed'[k] = m /\ (k > L + 1 - max_history \/ m = 0)
    <3>1. CASE m = n
      BY <1>1, <1>3, <3>1
    <3>2. CASE m # n
      <4>1. m \in set /\ (m # old \/ m = 0)
        BY <1>2, <2>2, <3>2
      <4>2. PICK k \in 1..L : passed[k] = m /\ (k > L - max_history \/ m = 0)
        BY <2>1, <4>1
      <4>3. k = L - max_history + 1 => m = 0
        BY <1>1, <1>5, <4>1, <4>2
      <4>. QED  BY <1>1, <1>3, <4>2, <4>3
    <3>. QED  BY <3>1, <3>2
  <2>3. ASSUME NEW k \in 1..(L + 1),
               passed'[k] = m, k > L + 1 - max_history \/ m = 0
        PROVE  m \in set'
    <3>1. CASE k = L + 1
      BY <1>2, <1>3, <2>3, <3>1
    <3>2. CASE k \in 1..L
      <4>1. m \in set
        BY <1>1, <1>3, <2>1, <2>3, <3>2
      <4>2. m = 0 \/ m # old
        <5>1. CASE max_history <= L /\ m # 0
          <6>1. /\ L - max_history + 1 \in 1..L /\ L - max_history + 1 < k
                /\ L - max_history + 1 > L - max_history
            BY <1>1, <2>3, <3>2, <5>1
          <6>2. passed[L - max_history + 1] # passed[k]
            BY <1>1, <3>2, <6>1 DEF IInv, WindowDistinct
          <6>. QED  BY <1>3, <1>5, <2>3, <3>2, <5>1, <6>2
        <5>2. CASE ~ (max_history <= L)
          BY <1>5, <5>2
        <5>. QED  BY <5>1, <5>2
      <4>. QED  BY <1>2, <4>1, <4>2
    <3>. QED  BY <1>1, <3>1, <3>2
  <2>. QED  BY <2>2, <2>3
<1>. QED  BY <1>4, <1>7, <1>8, <1>9 DEF IInv

(* Every step keeps it. *)
LEMMA NextIInv == IInv /\ [Next]_vars => IInv'
<1>. SUFFICES ASSUME IInv, [Next]_vars PROVE IInv'
  OBVIOUS
<1>. USE DeDuplicatorAssumption
<1>same. ASSUME UNCHANGED <<ringVars, passed>>,
                next_seq' \in 0..(MaxSeq + 1), copies' \in [Number -> 0..2]
         PROVE  IInv'
  <2>1. TypeOK'
    BY <1>same DEF IInv, TypeOK, ringVars
  <2>2. RingIsTail' /\ WindowDistinct' /\ SetIsWindow'
    BY <1>same DEF IInv, RingIsTail, WindowDistinct, SetIsWindow, Slot,
                   Window!Known, ringVars
  <2>. QED  BY <2>1, <2>2 DEF IInv
<1>1. ASSUME NEW qos_class \in 0..3, NEW loss \in Loss, Send(qos_class, loss)
      PROVE  IInv'
  <2>1. next_seq' \in 0..(MaxSeq + 1)
    BY <1>1 DEF Send, IInv, TypeOK
  <2>2. copies' \in [Number -> 0..2]
    <3>. DEFINE sent == IF should_duplicate(qos_class, loss) THEN 2 ELSE 1
    <3>1. sent \in 0..2
      OBVIOUS
    <3>2. copies' = [copies EXCEPT ![next_seq] = sent]
      BY <1>1 DEF Send
    <3>. HIDE DEF sent
    <3>. QED  BY <3>1, <3>2 DEF IInv, TypeOK
  <2>. QED  BY <1>1, <1>same, <2>1, <2>2 DEF Send
<1>2. ASSUME NEW n \in Number, Lose(n)
      PROVE  IInv'
  <2>1. copies' \in [Number -> 0..2]
    BY <1>2 DEF Lose, IInv, TypeOK
  <2>. QED  BY <1>2, <1>same, <2>1 DEF Lose, IInv, TypeOK
<1>3. ASSUME NEW n \in Number, Arrives(n)
      PROVE  IInv'
  <2>1. copies' \in [Number -> 0..2] /\ next_seq' \in 0..(MaxSeq + 1)
    BY <1>3 DEF Arrives, IInv, TypeOK
  <2>2. CASE n \in set
    BY <1>3, <1>same, <2>1, <2>2 DEF Arrives, register
  <2>3. CASE n \notin set
    BY <1>3, <2>1, <2>3, PassKeepsIInv DEF Arrives
  <2>. QED  BY <2>2, <2>3
<1>4. CASE UNCHANGED vars
  BY <1>4, <1>same DEF vars, netVars, IInv, TypeOK
<1>. QED  BY <1>1, <1>2, <1>3, <1>4 DEF Next

(* The ring, its index and the set agree in every reachable state. *)
THEOREM Invariant == Spec => []IInv
<1>. QED  BY InitIInv, NextIInv, PTL DEF Spec

(* The variables keep their types. *)
THEOREM TypeCorrect == Spec => []TypeOK
<1>1. IInv => TypeOK
  BY DEF IInv
<1>. QED  BY <1>1, Invariant, PTL

----------------------------------------------------------------------------
(* Every number of the set but 0 is in the ring, which has max_history places. *)
LEMMA IInvBounded == IInv => SizeBounded
<1>. SUFFICES ASSUME IInv PROVE SizeBounded
  OBVIOUS
<1>. USE DeDuplicatorAssumption
<1>. DEFINE R == {history[i] : i \in Place}
<1>1. set \ {0} \subseteq R
  <2>. SUFFICES ASSUME NEW n \in set, n # 0 PROVE n \in R
    OBVIOUS
  <2>1. /\ passed \in Seq(Number) /\ DOMAIN passed = 1..Len(passed)
        /\ Len(passed) \in Nat /\ write_idx \in Place /\ n \in Number
    BY DEF IInv, TypeOK
  <2>2. PICK k \in 1..Len(passed) : passed[k] = n /\ k > Len(passed) - max_history
    BY <2>1 DEF IInv, SetIsWindow, Window!Known
  <2>3. /\ Len(passed) - k + 1 \in 1..max_history
        /\ Len(passed) - k + 1 <= Len(passed)
        /\ Len(passed) - (Len(passed) - k + 1) + 1 = k
    BY <2>1, <2>2
  <2>4. history[Slot(write_idx, Len(passed) - k + 1)] = n
    BY <2>2, <2>3 DEF IInv, RingIsTail
  <2>5. Slot(write_idx, Len(passed) - k + 1) \in Place
    BY <2>1, <2>3 DEF Slot, Place
  <2>. QED  BY <2>4, <2>5
<1>2. history \in Surjection(Place, R)
  BY DEF IInv, TypeOK, Surjection
<1>3. IsFiniteSet(Place) /\ Cardinality(Place) = max_history
  <2>1. 0 \in Int /\ max_history - 1 \in Int
    OBVIOUS
  <2>. QED  BY <2>1, FS_Interval DEF Place
<1>4. IsFiniteSet(R) /\ Cardinality(R) <= max_history
  BY <1>2, <1>3, FS_Surjection
<1>5. Cardinality(set \ {0}) <= Cardinality(R)
  BY <1>1, <1>4, FS_Subset
<1>6. Cardinality(set \ {0}) \in Nat /\ Cardinality(R) \in Nat
  BY <1>1, <1>4, FS_Subset, FS_CardinalityType
<1>. QED  BY <1>4, <1>5, <1>6 DEF SizeBounded

(* SizeBounded: the set of redundancy/mod.rs never outgrows its history, apart
   from a 0. *)
THEOREM SizeTheorem == Spec => []SizeBounded
<1>. QED  BY Invariant, IInvBounded, PTL

(* Every step is one of the sliding window, or leaves it as it is. *)
LEMMA StepRefines == IInv /\ [Next]_vars => [Window!Next]_(Window!vars)
<1>. SUFFICES ASSUME IInv, [Next]_vars PROVE [Window!Next]_(Window!vars)
  OBVIOUS
<1>1. ASSUME NEW qos_class \in 0..3, NEW loss \in Loss, Send(qos_class, loss)
      PROVE  UNCHANGED Window!vars
  BY <1>1 DEF Send, Window!vars
<1>2. ASSUME NEW n \in Number, Lose(n)
      PROVE  UNCHANGED Window!vars
  BY <1>2 DEF Lose, Window!vars
<1>3. ASSUME NEW n \in Number, Arrives(n)
      PROVE  Window!Next
  <2>1. CASE n \in set
    <3>1. Window!Refuse(n)
      BY <1>3, <2>1 DEF Arrives, register, Window!Refuse, IInv, SetIsWindow
    <3>. QED  BY <3>1 DEF Window!Next
  <2>2. CASE n \notin set
    <3>1. Window!Pass(n)
      BY <1>3, <2>2 DEF Arrives, register, Window!Pass, IInv, SetIsWindow
    <3>. QED  BY <3>1 DEF Window!Next
  <2>. QED  BY <2>1, <2>2
<1>4. CASE UNCHANGED vars
  BY <1>4 DEF vars, Window!vars
<1>. QED  BY <1>1, <1>2, <1>3, <1>4 DEF Next

(* ImplementsSlidingWindow: register refuses exactly the last max_history
   numbers it let through, and a 0 it ever let through. *)
THEOREM Refinement == Spec => ImplementsSlidingWindow
<1>1. Init => Window!Init
  BY DEF Init, Window!Init
<1>. QED  BY <1>1, StepRefines, Invariant, PTL
          DEF Spec, ImplementsSlidingWindow, Window!Spec
=============================================================================
