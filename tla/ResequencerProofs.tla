------------------------- MODULE ResequencerProofs -------------------------
(***************************************************************************)
(* Proofs about Resequencer, for every MaxSeq, Payload and FlushTimeout.   *)
(***************************************************************************)
EXTENDS Resequencer, TLAPS, SequenceTheorems, FiniteSetTheorems

----------------------------------------------------------------------------
(* R hands over the packets of H numbered e..n-1, one by one. *)
RunOf(R, H, e, n) ==
    /\ R \in Seq(Packet)
    /\ Len(R) = n - e
    /\ \A i \in 1..(n - e) : R[i].seq = e + i - 1
    /\ \A i \in 1..(n - e) : \E p \in H : R[i] = AsPacket(p)

(* What the release loop hands over is the run of the numbers it popped. *)
LEMMA RunProperties ==
    ASSUME NEW H \in SUBSET Entry, NEW e \in Nat, NEW n \in Nat, e <= n,
           PopRun(H, e, n)
    PROVE  RunOf(Run(H, e, n), H, e, n)
<1>1. n - e \in Nat
  OBVIOUS
<1>2. ASSUME NEW i \in 1..(n - e)
      PROVE  /\ At(H, e + i - 1) \in H
             /\ At(H, e + i - 1).seq = e + i - 1
  <2>1. e + i - 1 \in e..(n - 1)
    OBVIOUS
  <2>2. \E p \in H : p.seq = e + i - 1
    BY <2>1 DEF PopRun, SeqsOf
  <2>. QED  BY <2>2 DEF At
<1>3. ASSUME NEW i \in 1..(n - e)
      PROVE  /\ AsPacket(At(H, e + i - 1)) \in Packet
             /\ AsPacket(At(H, e + i - 1)).seq = e + i - 1
  BY <1>2 DEF AsPacket, Packet, Entry
<1>4. Run(H, e, n) \in [1..(n - e) -> Packet]
  BY <1>3 DEF Run
<1>5. Run(H, e, n) \in Seq(Packet) /\ Len(Run(H, e, n)) = n - e
  BY <1>1, <1>4
<1>. QED  BY <1>2, <1>3, <1>5 DEF Run, RunOf

(* A released run keeps the heap typed and unique, leaves above the new
   expected_seq what was above the old one, and appends a run that continues
   the delivered packets in ascending order. *)
LEMMA ReleaseKeepsOrder ==
    ASSUME IInv, NEW H, NEW S, NEW e \in 0..(MaxSeq + 1),
           H \subseteq Entry, S = SeqsOf(H), expected_seq <= e,
           \A p, q \in H : p.seq = q.seq => p = q,
           \A p \in H : p.seq >= e,
           ReleaseContiguous(H, S, e)
    PROVE  /\ expected_seq' \in 0..(MaxSeq + 1)
           /\ heap' \subseteq Entry
           /\ delivered' \in Seq(Packet)
           /\ seen_seqs' \subseteq SeqNo
           /\ HeapSeqsUnique'
           /\ SeenMatchesHeap'
           /\ DeliveredBelowExpected'
           /\ StrictlyOrdered'
           /\ NothingReleasable'
<1>. USE MaxSeqAssumption
<1>1. PICK n \in e..(MaxSeq + 1) :
        /\ PopRun(H, e, n)
        /\ \A s \in e..(n - 1) : s \in SeqsOf(H)
        /\ n \notin SeqsOf(H)
        /\ expected_seq' = n
        /\ heap' = {p \in H : p.seq \notin e..(n - 1)}
        /\ seen_seqs' = S \ (e..(n - 1))
        /\ delivered' = delivered \o Run(H, e, n)
  BY DEF ReleaseContiguous, PopRun
<1>2. e \in Nat /\ n \in Nat /\ e <= n /\ n <= MaxSeq + 1 /\ expected_seq \in Nat
  BY DEF IInv, TypeOK
<1>run. RunOf(Run(H, e, n), H, e, n)
  <2>1. PopRun(H, e, n) /\ H \in SUBSET Entry
    BY <1>1
  <2>. QED  BY <1>2, <2>1, RunProperties
<1>. DEFINE R == Run(H, e, n)
            k == n - e
<1>3. /\ R \in Seq(Packet)
      /\ Len(R) = k
      /\ \A i \in 1..k : R[i].seq = e + i - 1
  BY <1>run DEF RunOf
<1>4. delivered \in Seq(Packet)
  BY DEF IInv, TypeOK
<1>. DEFINE d == Len(delivered)
<1>5. /\ delivered' \in Seq(Packet)
      /\ Len(delivered') = d + k
      /\ \A i \in 1..d : delivered'[i] = delivered[i]
      /\ \A i \in (d + 1)..(d + k) : delivered'[i] = R[i - d]
  <2>. HIDE DEF R
  <2>. QED  BY <1>1, <1>3, <1>4, ConcatProperties DEF R
<1>6. d \in Nat /\ k \in Nat
  BY <1>2, <1>4
<1>7. ASSUME NEW i \in 1..d
      PROVE  delivered'[i].seq = delivered[i].seq /\ delivered[i].seq \in Nat
             /\ delivered[i].seq < expected_seq
  <2>1. i \in DOMAIN delivered /\ delivered[i] \in Packet
    BY <1>4
  <2>2. delivered[i].seq \in Nat
    BY <2>1 DEF Packet, SeqNo
  <2>3. delivered[i].seq < expected_seq
    BY <2>1 DEF IInv, DeliveredBelowExpected
  <2>. QED  BY <1>5, <2>2, <2>3
<1>8. ASSUME NEW i \in (d + 1)..(d + k)
      PROVE  delivered'[i].seq = e + (i - d) - 1
  <2>1. i - d \in 1..k
    <3>. HIDE DEF d, k
    <3>. QED  BY <1>6
  <2>2. delivered'[i] = R[i - d] /\ R[i - d].seq = e + (i - d) - 1
    <3>. HIDE DEF R, d, k
    <3>. QED  BY <1>3, <1>5, <2>1
  <2>. QED  BY <2>2
<1>9. DOMAIN delivered' = 1..(d + k)
  BY <1>5
<1>10. DeliveredBelowExpected'
  <2>. SUFFICES ASSUME NEW i \in 1..(d + k)
                PROVE  delivered'[i].seq < n
    BY <1>1, <1>9 DEF DeliveredBelowExpected
  <2>1. CASE i \in 1..d
    BY <2>1, <1>2, <1>7
  <2>2. CASE i \in (d + 1)..(d + k)
    BY <2>2, <1>2, <1>6, <1>8
  <2>. QED  BY <2>1, <2>2, <1>6
<1>11. StrictlyOrdered'
  <2>. SUFFICES ASSUME NEW i \in 1..(d + k), NEW j \in 1..(d + k), i < j
                PROVE  delivered'[i].seq < delivered'[j].seq
    BY <1>9 DEF StrictlyOrdered
  <2>1. CASE j \in 1..d
    <3>1. i \in 1..d /\ i \in DOMAIN delivered /\ j \in DOMAIN delivered
      BY <2>1, <1>4, <1>6
    <3>. QED  BY <3>1, <2>1, <1>7 DEF IInv, StrictlyOrdered
  <2>2. CASE i \in 1..d /\ j \in (d + 1)..(d + k)
    BY <2>2, <1>2, <1>6, <1>7, <1>8
  <2>3. CASE i \in (d + 1)..(d + k) /\ j \in (d + 1)..(d + k)
    BY <2>3, <1>2, <1>6, <1>8
  <2>. QED  BY <2>1, <2>2, <2>3, <1>6
<1>12. heap' \subseteq Entry /\ HeapSeqsUnique'
  BY <1>1 DEF HeapSeqsUnique
<1>13. SeenMatchesHeap'
  BY <1>1 DEF SeenMatchesHeap, SeqsOf
<1>14. seen_seqs' \subseteq SeqNo
  BY <1>1 DEF SeqsOf, Entry
<1>15. NothingReleasable'
  <2>. SUFFICES ASSUME NEW p \in H, p.seq \notin e..(n - 1)
                PROVE  p.seq > n
    BY <1>1 DEF NothingReleasable
  <2>1. p.seq \in Nat /\ p.seq >= e /\ p.seq # n
    BY <1>1 DEF SeqsOf, Entry, SeqNo
  <2>. QED  BY <2>1, <1>2
<1>16. expected_seq' \in 0..(MaxSeq + 1)
  BY <1>1, <1>2
<1>. HIDE DEF R, d, k
<1>. QED  BY <1>5, <1>10, <1>11, <1>12, <1>13, <1>14, <1>15, <1>16

----------------------------------------------------------------------------
(* The inductive invariant holds at first. *)
LEMMA InitIInv == Init => IInv
<1>. SUFFICES ASSUME Init PROVE IInv
  OBVIOUS
<1>1. delivered \in Seq(Packet) /\ DOMAIN delivered = {}
  BY DEF Init
<1>2. SeqsOf(heap) = {}
  BY DEF Init, SeqsOf
<1>3. TypeOK
  <2>1. 0 \in 0..(MaxSeq + 1)
    BY MaxSeqAssumption
  <2>. QED  BY <1>1, <2>1 DEF Init, TypeOK
<1>4. DeliveredBelowExpected /\ StrictlyOrdered
  BY <1>1 DEF DeliveredBelowExpected, StrictlyOrdered
<1>5. SeenMatchesHeap
  BY <1>2 DEF Init, SeenMatchesHeap
<1>6. HeapSeqsUnique /\ NothingReleasable /\ FlusherArmed
  BY DEF Init, HeapSeqsUnique, NothingReleasable, FlusherArmed
<1>. QED
  BY <1>3, <1>4, <1>5, <1>6 DEF IInv

(* A packet put in the heap is new there: the duplicate test saw to it. *)
LEMMA PutIInv ==
    ASSUME IInv, NEW seq \in SeqNo, NEW payload \in Payload, Put(seq, payload)
    PROVE  IInv'
<1>. DEFINE e == [seq |-> seq, payload |-> payload, age |-> 0]
            H == heap \cup {e}
            S == seen_seqs \cup {seq}
<1>1. ReleaseContiguous(H, S, expected_seq)
  BY DEF Put
<1>2. H \subseteq Entry
  BY FlushTimeoutAssumption DEF IInv, TypeOK, Entry, Age
<1>3. S = SeqsOf(H)
  <2>1. e.seq = seq /\ seen_seqs = SeqsOf(heap)
    BY DEF IInv, SeenMatchesHeap
  <2>. HIDE DEF e
  <2>2. \A s : s \in SeqsOf(H) <=> s \in seen_seqs \/ s = seq
    BY <2>1 DEF SeqsOf
  <2>. QED  BY <2>2
<1>4. \A p \in heap : p.seq # seq
  BY DEF Put, IsDuplicate, IInv, SeenMatchesHeap, SeqsOf
<1>5. \A p, q \in H : p.seq = q.seq => p = q
  BY <1>4 DEF IInv, HeapSeqsUnique
<1>6. \A p \in H : p.seq >= expected_seq
  BY MaxSeqAssumption
     DEF Put, IsDuplicate, IInv, NothingReleasable, TypeOK, Entry, SeqNo
<1>7. expected_seq \in 0..(MaxSeq + 1) /\ expected_seq <= expected_seq
  BY MaxSeqAssumption DEF IInv, TypeOK
<1>8. flush_task' \in BOOLEAN /\ FlusherArmed'
  BY DEF Put, FlusherArmed, IInv, TypeOK
<1>. HIDE DEF H, S
<1>. QED
  BY <1>1, <1>2, <1>3, <1>5, <1>6, <1>7, <1>8, ReleaseKeepsOrder
  DEF IInv, TypeOK

(* A poll of the flush task keeps the inductive invariant. *)
LEMMA FlushPollIInv ==
    ASSUME IInv, FlushPoll
    PROVE  IInv'
<1>1. CASE /\ heap = {}
           /\ flush_task' = FALSE
           /\ UNCHANGED <<expected_seq, heap, seen_seqs, delivered>>
  BY <1>1 DEF IInv, TypeOK, HeapSeqsUnique, SeenMatchesHeap, NothingReleasable,
              DeliveredBelowExpected, StrictlyOrdered, FlusherArmed
<1>2. ASSUME NEW head \in heap, IsHead(heap, head),
             UNCHANGED <<expected_seq, heap, seen_seqs, delivered>>,
             flush_task' = flush_task
      PROVE  IInv'
  BY <1>2 DEF IInv, TypeOK, HeapSeqsUnique, SeenMatchesHeap, NothingReleasable,
              DeliveredBelowExpected, StrictlyOrdered, FlusherArmed
<1>3. ASSUME NEW head \in heap, IsHead(heap, head),
             ReleaseContiguous(heap, seen_seqs, FlushFrom(head)),
             flush_task' = flush_task
      PROVE  IInv'
  <2>1. head.seq \in SeqNo /\ head.seq > expected_seq
    BY DEF IInv, TypeOK, Entry, NothingReleasable
  <2>2. /\ FlushFrom(head) = head.seq
        /\ FlushFrom(head) \in 0..(MaxSeq + 1)
        /\ expected_seq <= FlushFrom(head)
    BY <2>1, MaxSeqAssumption DEF FlushFrom, SeqNo, IInv, TypeOK
  <2>3. \A p \in heap : p.seq >= FlushFrom(head)
    BY <1>3, <2>1, <2>2 DEF IsHead, IInv, TypeOK, Entry, SeqNo
  <2>4. /\ heap \subseteq Entry
        /\ seen_seqs = SeqsOf(heap)
        /\ \A p, q \in heap : p.seq = q.seq => p = q
    BY DEF IInv, TypeOK, SeenMatchesHeap, HeapSeqsUnique
  <2>5. flush_task' = TRUE
    BY <1>3 DEF IInv, FlusherArmed, TypeOK
  <2>. QED
    BY <1>3, <2>2, <2>3, <2>4, <2>5, ReleaseKeepsOrder
    DEF IInv, TypeOK, FlusherArmed
<1>. QED  BY <1>1, <1>2, <1>3 DEF FlushPoll

(* Ageing changes no sequence number. *)
LEMMA TickIInv ==
    ASSUME IInv, Tick
    PROVE  IInv'
<1>1. \A p \in Entry : /\ [p EXCEPT !.age = Older(p.age)] \in Entry
                       /\ [p EXCEPT !.age = Older(p.age)].seq = p.seq
  BY FlushTimeoutAssumption DEF Entry, Age, Older
<1>2. heap \subseteq Entry /\ heap' = {[p EXCEPT !.age = Older(p.age)] : p \in heap}
  BY DEF Tick, IInv, TypeOK
<1>3. heap' \subseteq Entry
  BY <1>1, <1>2
<1>4. \A q \in heap' : \E p \in heap :
          q = [p EXCEPT !.age = Older(p.age)] /\ q.seq = p.seq
  BY <1>1, <1>2
<1>5. HeapSeqsUnique'
  BY <1>4 DEF HeapSeqsUnique, IInv
<1>6. SeqsOf(heap') = SeqsOf(heap)
  <2>1. \A p \in heap : \E q \in heap' : q.seq = p.seq
    BY <1>1, <1>2
  <2>. QED  BY <1>4, <2>1 DEF SeqsOf
<1>7. NothingReleasable'
  BY <1>4 DEF Tick, NothingReleasable, IInv
<1>. QED
  BY <1>3, <1>5, <1>6, <1>7
  DEF Tick, IInv, TypeOK, SeenMatchesHeap, DeliveredBelowExpected,
      StrictlyOrdered, FlusherArmed

(* The invariant: what the buffer, the seen set, the flush task and the
   packets handed over have to do with each other in every reachable state. *)
THEOREM Invariant == Spec => []IInv
<1>1. Init => IInv
  BY InitIInv
<1>2. IInv /\ [Next]_vars => IInv'
  <2>. SUFFICES ASSUME IInv, [Next]_vars PROVE IInv'
    OBVIOUS
  <2>1. ASSUME NEW seq \in SeqNo, NEW payload \in Payload, Put(seq, payload)
        PROVE  IInv'
    BY <2>1, PutIInv
  <2>2. CASE FlushPoll
    BY <2>2, FlushPollIInv
  <2>3. CASE Tick
    BY <2>3, TickIInv
  <2>4. CASE UNCHANGED vars
    BY <2>4 DEF vars, IInv, TypeOK, HeapSeqsUnique, SeenMatchesHeap,
                NothingReleasable, DeliveredBelowExpected, StrictlyOrdered,
                FlusherArmed
  <2>. QED  BY <2>1, <2>2, <2>3, <2>4 DEF Next
<1>. QED  BY <1>1, <1>2, PTL DEF Spec

(* The callback never sees a packet out of order or twice, whatever arrives and
   however late the flush task runs. *)
THEOREM OrderTheorem == Spec => []StrictlyOrdered
BY Invariant, PTL DEF IInv

(* A packet in the heap waits for a missing number and for nothing else. *)
THEOREM ReleaseTheorem == Spec => []NothingReleasable
BY Invariant, PTL DEF IInv

(* The filter for duplicates and the heap never disagree. *)
THEOREM SeenTheorem == Spec => []SeenMatchesHeap
BY Invariant, PTL DEF IInv

(* A waiting packet always has a flush task. *)
THEOREM FlusherTheorem == Spec => []FlusherArmed
BY Invariant, PTL DEF IInv

(* The variables keep their types; expected_seq stays within one of MaxSeq. *)
THEOREM TypeCorrect == Spec => []TypeOK
BY Invariant, PTL DEF IInv

----------------------------------------------------------------------------
(* What delivered \o run holds, index by index. *)
LEMMA AppendedRun ==
    ASSUME NEW P, NEW s \in Seq(P), NEW r \in Seq(P)
    PROVE  /\ s \o r \in Seq(P)
           /\ Len(s \o r) = Len(s) + Len(r)
           /\ \A i \in 1..Len(s) : (s \o r)[i] = s[i]
           /\ \A i \in (Len(s) + 1)..(Len(s) + Len(r)) :
                 (s \o r)[i] = r[i - Len(s)]
BY ConcatProperties

(* A release hands over every number between its start e and the new
   expected_seq. *)
LEMMA ReleaseDelivers ==
    ASSUME IInv, NEW H, NEW S, NEW e \in 0..(MaxSeq + 1), H \subseteq Entry,
           ReleaseContiguous(H, S, e),
           NEW s \in SeqNo, e <= s, s < expected_seq'
    PROVE  \E i \in DOMAIN delivered' : delivered'[i].seq = s
<1>. USE MaxSeqAssumption
<1>1. PICK n \in e..(MaxSeq + 1) :
        /\ PopRun(H, e, n)
        /\ \A t \in e..(n - 1) : t \in SeqsOf(H)
        /\ expected_seq' = n
        /\ delivered' = delivered \o Run(H, e, n)
  BY DEF ReleaseContiguous, PopRun
<1>2. e \in Nat /\ n \in Nat /\ e <= n /\ s \in Nat
  BY DEF SeqNo
<1>run. RunOf(Run(H, e, n), H, e, n)
  <2>1. PopRun(H, e, n) /\ H \in SUBSET Entry
    BY <1>1
  <2>. QED  BY <1>2, <2>1, RunProperties
<1>. DEFINE R == Run(H, e, n)
            k == n - e
            d == Len(delivered)
<1>3. /\ R \in Seq(Packet)
      /\ Len(R) = k
      /\ \A i \in 1..k : R[i].seq = e + i - 1
  BY <1>run DEF RunOf
<1>4. delivered \in Seq(Packet) /\ d \in Nat
  BY DEF IInv, TypeOK
<1>5. s - e + 1 \in 1..k /\ R[s - e + 1].seq = s
  <2>1. s - e + 1 \in 1..k /\ e + (s - e + 1) - 1 = s
    BY <1>1, <1>2
  <2>2. R[s - e + 1].seq = e + (s - e + 1) - 1
    <3>. HIDE DEF R, k
    <3>. QED  BY <1>3, <2>1
  <2>. QED  BY <2>1, <2>2
<1>6. /\ delivered' \in Seq(Packet)
      /\ Len(delivered') = d + k
      /\ \A i \in (d + 1)..(d + k) : delivered'[i] = R[i - d]
  <2>1. delivered' = delivered \o R
    BY <1>1
  <2>2. Len(R) = k /\ R \in Seq(Packet)
    BY <1>3
  <2>. HIDE DEF R, k
  <2>. QED  BY <2>1, <2>2, <1>4, AppendedRun
<1>. DEFINE j == d + (s - e + 1)
<1>7. j \in (d + 1)..(d + k) /\ j - d = s - e + 1
  BY <1>2, <1>4, <1>5
<1>8. j \in DOMAIN delivered' /\ delivered'[j] = R[s - e + 1]
  <2>1. DOMAIN delivered' = 1..(d + k) /\ j \in 1..(d + k)
    BY <1>4, <1>6, <1>7
  <2>. HIDE DEF R, j, k, d
  <2>. QED  BY <1>6, <1>7, <2>1
<1>. QED  BY <1>5, <1>8

(* A number is passed over only when the head it holds up has timed out. *)
THEOREM SkipTheorem == Spec => SkipOnlyOnTimeout
<1>1. IInv /\ [Next]_vars => [JustifiedAdvance]_vars
  <2>. SUFFICES ASSUME IInv, Next, NEW s \in SeqNo,
                       expected_seq <= s, s < expected_seq'
                PROVE  \/ \E i \in DOMAIN delivered' : delivered'[i].seq = s
                       \/ \E head \in heap : /\ IsHead(heap, head)
                                             /\ head.age >= FlushTimeout
                                             /\ s < head.seq
    BY DEF JustifiedAdvance
  <2>0. /\ expected_seq \in 0..(MaxSeq + 1)
        /\ expected_seq \in Nat
        /\ s \in Nat
        /\ heap \subseteq Entry
    BY MaxSeqAssumption DEF IInv, TypeOK, SeqNo
  <2>1. ASSUME NEW seq \in SeqNo, NEW payload \in Payload, Put(seq, payload)
        PROVE  \E i \in DOMAIN delivered' : delivered'[i].seq = s
    <3>. DEFINE e == [seq |-> seq, payload |-> payload, age |-> 0]
    <3>1. ReleaseContiguous(heap \cup {e}, seen_seqs \cup {seq}, expected_seq)
      BY <2>1 DEF Put
    <3>2. heap \cup {e} \subseteq Entry
      BY <2>0, FlushTimeoutAssumption DEF Entry, Age
    <3>. HIDE DEF e
    <3>. QED  BY <2>0, <3>1, <3>2, ReleaseDelivers
  <2>2. ASSUME NEW head \in heap, IsHead(heap, head),
               head.seq > expected_seq => head.age >= FlushTimeout,
               ReleaseContiguous(heap, seen_seqs, FlushFrom(head))
        PROVE  \/ \E i \in DOMAIN delivered' : delivered'[i].seq = s
               \/ s < head.seq /\ head.age >= FlushTimeout
    <3>1. head.seq > expected_seq /\ head.seq \in SeqNo
      BY <2>0 DEF IInv, NothingReleasable, Entry
    <3>2. FlushFrom(head) = head.seq /\ FlushFrom(head) \in 0..(MaxSeq + 1)
      BY <3>1, MaxSeqAssumption DEF FlushFrom, SeqNo
    <3>3. CASE s < head.seq
      BY <2>2, <3>1, <3>3
    <3>4. CASE ~ (s < head.seq)
      <4>1. FlushFrom(head) <= s
        BY <2>0, <3>1, <3>2, <3>4 DEF SeqNo
      <4>. QED  BY <2>0, <2>2, <3>2, <4>1, ReleaseDelivers
    <3>. QED  BY <3>3, <3>4
  <2>3. CASE expected_seq' = expected_seq
    BY <2>0, <2>3
  <2>4. CASE FlushPoll
    BY <2>2, <2>3, <2>4 DEF FlushPoll
  <2>5. CASE Tick
    BY <2>3, <2>5 DEF Tick
  <2>. QED  BY <2>1, <2>4, <2>5 DEF Next
<1>. QED  BY <1>1, Invariant, PTL DEF Spec, SkipOnlyOnTimeout

----------------------------------------------------------------------------
(* A release of the loop is a release of OrderedRelease: the run it hands over
   is ascending and overtakes nothing that stays. *)
LEMMA ReleaseRefines ==
    ASSUME NEW H, NEW S, NEW e \in 0..(MaxSeq + 1), H \subseteq Entry,
           \A p, q \in H : p.seq = q.seq => p = q,
           \A p \in H : p.seq >= e,
           ReleaseContiguous(H, S, e)
    PROVE  Order!Release({AsPacket(p) : p \in H})
<1>. USE MaxSeqAssumption
<1>1. PICK n \in e..(MaxSeq + 1) :
        /\ PopRun(H, e, n)
        /\ \A t \in e..(n - 1) : t \in SeqsOf(H)
        /\ heap' = {p \in H : p.seq \notin e..(n - 1)}
        /\ delivered' = delivered \o Run(H, e, n)
  BY DEF ReleaseContiguous, PopRun
<1>2. e \in Nat /\ n \in Nat /\ e <= n
  OBVIOUS
<1>run. RunOf(Run(H, e, n), H, e, n)
  <2>1. PopRun(H, e, n) /\ H \in SUBSET Entry
    BY <1>1
  <2>. QED  BY <1>2, <2>1, RunProperties
<1>. DEFINE R == Run(H, e, n)
            k == n - e
            avail == {AsPacket(p) : p \in H}
            left == {AsPacket(p) : p \in heap'}
<1>3. /\ k \in 0..(MaxSeq + 1)
      /\ k \in Nat
  BY <1>2
<1>4. /\ R \in Seq(Packet)
      /\ Len(R) = k
      /\ \A i \in 1..k : R[i].seq = e + i - 1
      /\ \A i \in 1..k : \E p \in H : R[i] = AsPacket(p)
  BY <1>run DEF RunOf
<1>5. R \in [1..k -> avail]
  BY <1>3, <1>4
<1>6. Order!Ascending(R)
  <2>. SUFFICES ASSUME NEW i \in 1..k, NEW j \in 1..k, i < j
                PROVE  R[i].seq < R[j].seq
    BY <1>5 DEF Order!Ascending
  <2>. HIDE DEF R, k
  <2>1. R[i].seq = e + i - 1 /\ R[j].seq = e + j - 1
    BY <1>4
  <2>. QED  BY <1>2, <1>3, <2>1
<1>7. \A p \in H : /\ AsPacket(p).seq = p.seq
                   /\ p.seq \in Nat
                   /\ p.seq >= e
  BY DEF AsPacket, Entry, SeqNo
<1>8. ASSUME NEW p \in H, p.seq \in e..(n - 1)
      PROVE  AsPacket(p) \in Order!Members(R)
  <2>. DEFINE i == p.seq - e + 1
  <2>1. i \in 1..k /\ e + i - 1 = p.seq
    BY <1>2, <1>7, <1>8
  <2>2. PICK q \in H : R[i] = AsPacket(q)
    <3>. HIDE DEF R, k, i
    <3>. QED  BY <1>4, <2>1
  <2>3. q.seq = p.seq
    <3>. HIDE DEF R, k, i
    <3>. QED  BY <1>4, <1>7, <2>1, <2>2
  <2>4. q = p
    BY <2>3
  <2>. QED  BY <1>5, <2>1, <2>2, <2>4 DEF Order!Members
<1>9. ASSUME NEW r \in Order!Members(R)
      PROVE  r.seq \in e..(n - 1)
  <2>1. PICK i \in 1..k : r = R[i]
    BY <1>5 DEF Order!Members
  <2>2. r.seq = e + i - 1
    <3>. HIDE DEF R, k
    <3>. QED  BY <1>4, <2>1
  <2>. QED  BY <1>2, <2>2
<1>10. avail \ Order!Members(R) = left
  <2>1. ASSUME NEW a \in avail, a \notin Order!Members(R)
        PROVE  a \in left
    <3>1. PICK p \in H : a = AsPacket(p)
      OBVIOUS
    <3>2. p.seq \notin e..(n - 1)
      BY <1>8, <2>1, <3>1
    <3>. QED  BY <1>1, <3>1, <3>2
  <2>2. ASSUME NEW a \in left
        PROVE  a \in avail /\ a \notin Order!Members(R)
    <3>1. PICK p \in H : a = AsPacket(p) /\ p.seq \notin e..(n - 1)
      BY <1>1
    <3>2. a.seq \notin e..(n - 1)
      BY <1>7, <3>1
    <3>. QED  BY <1>9, <3>1, <3>2
  <2>. QED  BY <2>1, <2>2
<1>11. \A a \in avail \ Order!Members(R) : \A r \in Order!Members(R) :
          r.seq < a.seq
  <2>. SUFFICES ASSUME NEW a \in left, NEW r \in Order!Members(R)
                PROVE  r.seq < a.seq
    BY <1>10
  <2>1. PICK p \in H : a = AsPacket(p) /\ p.seq \notin e..(n - 1)
    BY <1>1
  <2>2. a.seq \in Nat /\ a.seq >= n
    BY <1>2, <1>7, <2>1
  <2>3. r.seq \in e..(n - 1)
    BY <1>9
  <2>. QED  BY <1>2, <2>2, <2>3
<1>12. IsFiniteSet(avail)
  <2>. DEFINE f == [a \in avail |-> a.seq]
  <2>1. \A a \in avail : \E p \in H : a = AsPacket(p) /\ a.seq = p.seq
    BY <1>7
  <2>2. f \in [avail -> 0..MaxSeq]
    BY <2>1 DEF Entry, SeqNo
  <2>3. \A a, b \in avail : f[a] = f[b] => a = b
    BY <2>1
  <2>4. f \in Injection(avail, 0..MaxSeq)
    BY <2>2, <2>3 DEF Injection, IsInjective
  <2>5. IsFiniteSet(0..MaxSeq)
    BY FS_Interval
  <2>. QED  BY <2>4, <2>5, FS_Injection
<1>13. k \in 0..Cardinality(avail)
  <2>1. \A i, j \in 1..k : R[i] = R[j] => i = j
    <3>. HIDE DEF R, k
    <3>. QED  BY <1>2, <1>3, <1>4
  <2>2. R \in Injection(1..k, avail)
    BY <1>5, <2>1 DEF Injection, IsInjective
  <2>. HIDE DEF R, k, avail
  <2>3. Cardinality(1..k) <= Cardinality(avail)
    BY <1>12, <2>2, FS_Injection
  <2>4. Cardinality(1..k) = k
    BY <1>3, FS_Interval
  <2>5. Cardinality(avail) \in Nat
    BY <1>12, FS_CardinalityType
  <2>. QED  BY <1>3, <2>3, <2>4, <2>5
<1>. HIDE DEF R, k, avail, left
<1>14. delivered' = delivered \o R
  BY <1>1 DEF R
<1>. QED
  BY <1>5, <1>6, <1>10, <1>11, <1>13, <1>14
  DEF Order!Release, left, avail, Order!Cardinality, Cardinality

(* The buffer implements OrderedRelease: put is an Accept, a flush is a Skip,
   ageing and refused packets change nothing. *)
THEOREM Refinement == Spec => ImplementsOrderedRelease
<1>1. Init => Order!Init
  BY DEF Init, Order!Init
<1>2. IInv /\ [Next]_vars => [Order!Next]_(Order!vars)
  <2>. SUFFICES ASSUME IInv, [Next]_vars
                PROVE  [Order!Next]_(Order!vars)
    OBVIOUS
  <2>0. /\ heap \subseteq Entry
        /\ expected_seq \in 0..(MaxSeq + 1)
        /\ \A p, q \in heap : p.seq = q.seq => p = q
        /\ \A p \in heap : p.seq \in Nat /\ p.seq > expected_seq
        /\ seen_seqs = SeqsOf(heap)
    BY MaxSeqAssumption DEF IInv, TypeOK, HeapSeqsUnique, NothingReleasable,
                            Entry, SeqNo, SeenMatchesHeap
  <2>1. ASSUME NEW seq \in SeqNo, NEW payload \in Payload, Put(seq, payload)
        PROVE  Order!Next
    <3>. DEFINE e == [seq |-> seq, payload |-> payload, age |-> 0]
                a == [seq |-> seq, payload |-> payload]
                H == heap \cup {e}
    <3>1. ReleaseContiguous(H, seen_seqs \cup {seq}, expected_seq)
      BY <2>1 DEF Put
    <3>2. e \in Entry /\ e.seq = seq /\ AsPacket(e) = a
      BY FlushTimeoutAssumption DEF Entry, Age, AsPacket
    <3>3. \A p \in heap : p.seq # seq
      BY <2>0, <2>1 DEF Put, IsDuplicate, SeqsOf
    <3>4. seq >= expected_seq
      BY <2>0, <2>1, MaxSeqAssumption DEF Put, IsDuplicate, SeqNo
    <3>. HIDE DEF e
    <3>5. \A p, q \in H : p.seq = q.seq => p = q
      BY <2>0, <3>2, <3>3
    <3>6. \A p \in H : p.seq >= expected_seq
      BY <2>0, <3>2, <3>4
    <3>7. Order!Release({AsPacket(p) : p \in H})
      BY <2>0, <3>1, <3>2, <3>5, <3>6, ReleaseRefines
    <3>8. {AsPacket(p) : p \in H} = {AsPacket(p) : p \in heap} \cup {a}
      BY <3>2
    <3>9. \A i \in DOMAIN delivered : delivered[i].seq < a.seq
      <4>. SUFFICES ASSUME NEW i \in DOMAIN delivered
                    PROVE  delivered[i].seq < seq
        OBVIOUS
      <4>1. delivered[i] \in Packet /\ delivered[i].seq < expected_seq
        BY DEF IInv, TypeOK, DeliveredBelowExpected
      <4>. QED  BY <2>0, <3>4, <4>1, MaxSeqAssumption DEF Packet, SeqNo
    <3>10. \A q \in {AsPacket(p) : p \in heap} : q.seq # a.seq
      BY <3>3 DEF AsPacket
    <3>11. a \in Order!Packet
      BY DEF Order!Packet, SeqNo
    <3>. HIDE DEF a, H
    <3>12. Order!Accept(a)
      BY <3>7, <3>8, <3>9, <3>10 DEF Order!Accept
    <3>. QED  BY <3>11, <3>12 DEF Order!Next
  <2>2. ASSUME NEW head \in heap, IsHead(heap, head),
               ReleaseContiguous(heap, seen_seqs, FlushFrom(head))
        PROVE  Order!Next
    <3>1. FlushFrom(head) = head.seq /\ head.seq \in SeqNo
      BY <2>0 DEF FlushFrom, Entry
    <3>2. FlushFrom(head) \in 0..(MaxSeq + 1)
      BY <3>1, MaxSeqAssumption DEF SeqNo
    <3>3. \A p \in heap : p.seq >= FlushFrom(head)
      BY <2>0, <2>2, <3>1 DEF IsHead, SeqNo
    <3>4. Order!Release({AsPacket(p) : p \in heap})
      BY <2>0, <2>2, <3>2, <3>3, ReleaseRefines
    <3>. QED  BY <3>4 DEF Order!Next, Order!Skip
  <2>3. CASE UNCHANGED <<heap, delivered>>
    BY <2>3 DEF Order!vars
  <2>4. CASE FlushPoll
    BY <2>2, <2>3, <2>4 DEF FlushPoll
  <2>5. CASE Tick
    <3>1. \A p \in heap : AsPacket([p EXCEPT !.age = Older(p.age)]) = AsPacket(p)
      BY <2>0 DEF AsPacket, Entry
    <3>2. {AsPacket(q) : q \in heap'} = {AsPacket(p) : p \in heap}
      BY <2>5, <3>1 DEF Tick
    <3>. QED  BY <2>5, <3>2 DEF Tick, Order!vars
  <2>6. CASE UNCHANGED vars
    BY <2>3, <2>6 DEF vars
  <2>. QED  BY <2>1, <2>4, <2>5, <2>6 DEF Next
<1>. QED
  BY <1>1, <1>2, Invariant, PTL DEF Spec, ImplementsOrderedRelease, Order!Spec
=============================================================================
