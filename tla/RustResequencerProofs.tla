------------------------ MODULE RustResequencerProofs ------------------------
(***************************************************************************)
(* Proofs about RustResequencer, for any size of the buffer and any range  *)
(* of numbers.  The buffer never outgrows max_buffer_size, because a       *)
(* forced flush always makes room, the wrap of next_seq included; and up   *)
(* to the first late packet, if next_seq does not wrap, the buffer         *)
(* implements OrderedRelease.                                              *)
(***************************************************************************)
EXTENDS RustResequencer, TLAPS, FiniteSetTheorems, SequenceTheorems

----------------------------------------------------------------------------
IInv == TypeOK /\ BufferBounded

(* Numbers stay u32 numbers. *)
LEMMA NumType ==
    ASSUME NEW e \in SeqNo, NEW k \in Nat
    PROVE  /\ Num(e, k) \in SeqNo
           /\ Num(e, 0) = e
<1>. USE RustAssumption DEF SeqNo, Num
<1>1. (e + k) % (MaxSeq + 1) \in 0..MaxSeq
  OBVIOUS
<1>2. e % (MaxSeq + 1) = e
  OBVIOUS
<1>. QED  BY <1>1, <1>2

(* There are finitely many numbers, *)
LEMMA SeqNoFinite == IsFiniteSet(SeqNo)
<1>1. 0 \in Int /\ MaxSeq \in Int
  BY RustAssumption
<1>. QED  BY <1>1, FS_Interval DEF SeqNo

(* A buffer is a function on numbers. *)
IsBuffer(B) == /\ DOMAIN B \subseteq SeqNo
               /\ \A s \in DOMAIN B : B[s] \in ReseqPacket

(* so that a buffer is finite. *)
LEMMA DomainFinite ==
    ASSUME NEW B, IsBuffer(B)
    PROVE  IsFiniteSet(DOMAIN B) /\ Cardinality(DOMAIN B) \in Nat
  BY SeqNoFinite, FS_Subset, FS_CardinalityType DEF IsBuffer

(* Storing a packet adds its number. *)
LEMMA InsertBuffer ==
    ASSUME NEW B, IsBuffer(B), NEW s \in SeqNo, NEW payload \in Payload
    PROVE  /\ IsBuffer(Insert(B, s, Fresh(payload)))
           /\ DOMAIN Insert(B, s, Fresh(payload)) = DOMAIN B \cup {s}
<1>1. Fresh(payload) \in ReseqPacket
  BY RustAssumption DEF Fresh, ReseqPacket
<1>. QED  BY <1>1 DEF IsBuffer, Insert

(* Releasing packets takes their numbers out. *)
LEMMA RemainingBuffer ==
    ASSUME NEW B, IsBuffer(B), NEW e, NEW k
    PROVE  /\ IsBuffer(Remaining(B, e, k))
           /\ DOMAIN Remaining(B, e, k) = DOMAIN B \ Span(e, k)
           /\ DOMAIN Remaining(B, e, k) \subseteq DOMAIN B
  BY DEF IsBuffer, Remaining

(* What a run of the buffer releases are packets. *)
LEMMA RunType ==
    ASSUME NEW B, IsBuffer(B), NEW e \in SeqNo, NEW k \in Nat,
           Span(e, k) \subseteq DOMAIN B
    PROVE  Run(B, e, k) \in Seq(Packet)
<1>1. ASSUME NEW i \in 1..k
      PROVE  [seq |-> Num(e, i - 1), payload |-> B[Num(e, i - 1)].payload] \in Packet
  <2>1. i - 1 \in 0..(k - 1)
    OBVIOUS
  <2>2. Num(e, i - 1) \in DOMAIN B
    BY <2>1 DEF Span
  <2>. QED  BY <2>2 DEF IsBuffer, Packet, ReseqPacket
<1>2. Run(B, e, k) \in [1..k -> Packet]
  BY <1>1 DEF Run
<1>. QED  BY <1>2

(* flush_consecutive keeps the types and only takes packets out. *)
LEMMA FlushKeeps ==
    ASSUME NEW B, IsBuffer(B), NEW e \in SeqNo, NEW before \in Seq(Packet),
           FlushConsecutive(B, e, before)
    PROVE  /\ next_seq' \in SeqNo /\ IsBuffer(buffer') /\ delivered' \in Seq(Packet)
           /\ DOMAIN buffer' \subseteq DOMAIN B
<1>1. PICK k \in 0..Cardinality(DOMAIN B) :
        /\ Flushes(B, e, k)
        /\ next_seq' = Num(e, k)
        /\ buffer' = Remaining(B, e, k)
        /\ delivered' = before \o Run(B, e, k)
  BY DEF FlushConsecutive
<1>2. k \in Nat
  BY DomainFinite
<1>3. Run(B, e, k) \in Seq(Packet)
  BY <1>1, <1>2, RunType DEF Flushes
<1>4. next_seq' \in SeqNo
  BY <1>1, <1>2, NumType
<1>5. IsBuffer(Remaining(B, e, k)) /\ DOMAIN Remaining(B, e, k) \subseteq DOMAIN B
  BY RemainingBuffer, Zenon
<1>6. before \o Run(B, e, k) \in Seq(Packet)
  BY <1>3, ConcatProperties
<1>. QED  BY <1>1, <1>4, <1>5, <1>6

(* force_flush_head takes the head, at least. *)
LEMMA ForcedFlushMakesRoom ==
    ASSUME NEW B, IsBuffer(B), NEW head \in DOMAIN B, NEW k \in Nat, Flushes(B, head, k)
    PROVE  /\ head \notin DOMAIN Remaining(B, head, k)
           /\ Cardinality(DOMAIN Remaining(B, head, k)) < Cardinality(DOMAIN B)
<1>. DEFINE D == DOMAIN Remaining(B, head, k)
<1>1. head \in SeqNo /\ D = DOMAIN B \ Span(head, k) /\ Num(head, 0) = head
  BY NumType, RemainingBuffer DEF IsBuffer
<1>2. k # 0
  <2>. SUFFICES ASSUME k = 0 PROVE FALSE
    OBVIOUS
  <2>1. Span(head, 0) = {}
    BY DEF Span
  <2>. QED  BY <1>1, <2>1 DEF Flushes
<1>3. head \in Span(head, k)
  <2>1. 0 \in 0..(k - 1)
    BY <1>2
  <2>. QED  BY <1>1, <2>1 DEF Span
<1>4. D \subseteq DOMAIN B /\ D # DOMAIN B /\ head \notin D
  BY <1>1, <1>3
<1>5. IsFiniteSet(DOMAIN B)
  BY DomainFinite
<1>6. /\ Cardinality(D) <= Cardinality(DOMAIN B)
      /\ Cardinality(DOMAIN B) # Cardinality(D)
      /\ Cardinality(D) \in Nat /\ Cardinality(DOMAIN B) \in Nat
  BY <1>4, <1>5, FS_Subset, FS_CardinalityType
<1>. QED  BY <1>4, <1>6

----------------------------------------------------------------------------
(* The inductive invariant holds at first. *)
LEMMA InitIInv == Init => IInv
<1>. SUFFICES ASSUME Init PROVE IInv
  OBVIOUS
<1>1. DOMAIN buffer = {}
  BY DEF Init
<1>2. BufferBounded
  BY <1>1, FS_EmptySet, RustAssumption DEF BufferBounded
<1>3. TypeOK
  <2>1. next_seq \in SeqNo /\ delivered \in Seq(Packet) /\ dups \in 0..MaxDups
    BY RustAssumption DEF Init, SeqNo
  <2>2. late \in BOOLEAN /\ adaptive_timeout \in MinTimeout..MaxTimeout
    BY RustAssumption DEF Init
  <2>. QED  BY <1>1, <2>1, <2>2 DEF TypeOK
<1>. QED  BY <1>2, <1>3 DEF IInv

(* One packet more. *)
LEMMA InsertBounded ==
    ASSUME NEW B, IsBuffer(B), Cardinality(DOMAIN B) < max_buffer_size,
           NEW D, NEW s, D \subseteq DOMAIN B \cup {s}
    PROVE  Cardinality(D) <= max_buffer_size
<1>1. /\ IsFiniteSet(DOMAIN B) /\ Cardinality(DOMAIN B) \in Nat
  BY DomainFinite
<1>2. /\ IsFiniteSet(DOMAIN B \cup {s})
      /\ Cardinality(DOMAIN B \cup {s}) <= Cardinality(DOMAIN B) + 1
      /\ Cardinality(DOMAIN B \cup {s}) \in Nat
  <2>1. /\ IsFiniteSet(DOMAIN B \cup {s})
        /\ Cardinality(DOMAIN B \cup {s}) =
             IF s \in DOMAIN B THEN Cardinality(DOMAIN B) ELSE Cardinality(DOMAIN B) + 1
    BY <1>1, FS_AddElement
  <2>. QED  BY <1>1, <2>1
<1>3. Cardinality(D) <= Cardinality(DOMAIN B \cup {s}) /\ Cardinality(D) \in Nat
  BY <1>2, FS_Subset, FS_CardinalityType
<1>. QED  BY <1>1, <1>2, <1>3, RustAssumption

(* put, with and without room. *)
LEMMA PutKeeps ==
    ASSUME IInv, NEW seq \in 0..LastSeq, NEW payload \in Payload,
           seq \in DOMAIN buffer => dups < MaxDups,
           Put(seq, payload) \/ PutForced(seq, payload)
    PROVE  IInv'
<1>. USE RustAssumption
<1>1. /\ IsBuffer(buffer) /\ next_seq \in SeqNo /\ delivered \in Seq(Packet)
      /\ seq \in SeqNo
      /\ IsFiniteSet(DOMAIN buffer) /\ Cardinality(DOMAIN buffer) \in Nat
      /\ Cardinality(DOMAIN buffer) <= max_buffer_size
  BY DomainFinite DEF IInv, TypeOK, IsBuffer, BufferBounded, SeqNo
<1>2. ASSUME NEW B, IsBuffer(B), DOMAIN B \subseteq DOMAIN buffer,
             Cardinality(DOMAIN B) < max_buffer_size,
             NEW e \in SeqNo, NEW before \in Seq(Packet),
             FlushConsecutive(Insert(B, seq, Fresh(payload)), e, before),
             Stored(seq, B, e)
      PROVE  IInv'
  <2>1. /\ next_seq' \in SeqNo /\ IsBuffer(buffer') /\ delivered' \in Seq(Packet)
        /\ DOMAIN buffer' \subseteq DOMAIN B \cup {seq}
    <3>1. /\ IsBuffer(Insert(B, seq, Fresh(payload)))
          /\ DOMAIN Insert(B, seq, Fresh(payload)) = DOMAIN B \cup {seq}
      BY <1>1, <1>2, InsertBuffer
    <3>. QED  BY <1>2, <3>1, FlushKeeps
  <2>2. BufferBounded'
    BY <1>2, <2>1, InsertBounded DEF BufferBounded
  <2>3. late' \in BOOLEAN /\ dups' \in 0..MaxDups
    BY <1>2 DEF Stored, IInv, TypeOK
  <2>. QED  BY <1>2, <2>1, <2>2, <2>3 DEF Stored, IInv, TypeOK, IsBuffer
<1>3. CASE Put(seq, payload)
  BY <1>1, <1>2, <1>3 DEF Put, IsFull
<1>4. CASE PutForced(seq, payload)
  <2>1. PICK head \in DOMAIN buffer, k \in 0..Cardinality(DOMAIN buffer) :
          LET rest == Remaining(buffer, head, k)
          IN  /\ Flushes(buffer, head, k)
              /\ FlushConsecutive(Insert(rest, seq, Fresh(payload)),
                                  Num(head, k), delivered \o Run(buffer, head, k))
              /\ Stored(seq, rest, Num(head, k))
    BY <1>4 DEF PutForced
  <2>2. k \in Nat /\ head \in SeqNo
    BY <1>1 DEF IsBuffer
  <2>3. /\ IsBuffer(Remaining(buffer, head, k))
        /\ DOMAIN Remaining(buffer, head, k) \subseteq DOMAIN buffer
        /\ Cardinality(DOMAIN Remaining(buffer, head, k)) \in Nat
        /\ Cardinality(DOMAIN Remaining(buffer, head, k)) < Cardinality(DOMAIN buffer)
    <3>1. /\ IsBuffer(Remaining(buffer, head, k))
          /\ DOMAIN Remaining(buffer, head, k) \subseteq DOMAIN buffer
      BY <1>1, RemainingBuffer, Zenon
    <3>2. Cardinality(DOMAIN Remaining(buffer, head, k)) < Cardinality(DOMAIN buffer)
      BY <1>1, <2>1, <2>2, ForcedFlushMakesRoom
    <3>. QED  BY <3>1, <3>2, DomainFinite
  <2>4. Num(head, k) \in SeqNo /\ delivered \o Run(buffer, head, k) \in Seq(Packet)
    <3>1. Run(buffer, head, k) \in Seq(Packet)
      BY <1>1, <2>1, <2>2, RunType DEF Flushes
    <3>2. Num(head, k) \in SeqNo
      BY <2>2, NumType
    <3>. QED  BY <1>1, <3>1, <3>2, ConcatProperties
  <2>5. Cardinality(DOMAIN Remaining(buffer, head, k)) < max_buffer_size
    BY <1>1, <2>3
  <2>. QED  BY <1>2, <2>1, <2>3, <2>4, <2>5
<1>. QED  BY <1>3, <1>4

(* Every step keeps it. *)
LEMMA NextIInv == IInv /\ [Next]_vars => IInv'
<1>. SUFFICES ASSUME IInv, [Next]_vars PROVE IInv'
  OBVIOUS
<1>. USE RustAssumption
<1>0. /\ IsBuffer(buffer) /\ next_seq \in SeqNo /\ delivered \in Seq(Packet)
      /\ IsFiniteSet(DOMAIN buffer) /\ Cardinality(DOMAIN buffer) \in Nat
      /\ Cardinality(DOMAIN buffer) <= max_buffer_size
  BY DomainFinite DEF IInv, TypeOK, IsBuffer, BufferBounded
<1>1. ASSUME NEW seq \in 0..LastSeq, NEW payload \in Payload,
             seq \in DOMAIN buffer => dups < MaxDups,
             Put(seq, payload) \/ PutForced(seq, payload)
      PROVE  IInv'
  BY <1>1, PutKeeps
<1>2. CASE Tick
  <2>1. PICK head \in DOMAIN buffer : FlushConsecutive(buffer, head, delivered)
    BY <1>2 DEF Tick
  <2>2. /\ next_seq' \in SeqNo /\ IsBuffer(buffer') /\ delivered' \in Seq(Packet)
        /\ DOMAIN buffer' \subseteq DOMAIN buffer
    BY <1>0, <2>1, FlushKeeps DEF IsBuffer
  <2>3. BufferBounded'
    <3>1. Cardinality(DOMAIN buffer') <= Cardinality(DOMAIN buffer)
          /\ Cardinality(DOMAIN buffer') \in Nat
      BY <1>0, <2>2, FS_Subset, FS_CardinalityType
    <3>. QED  BY <1>0, <3>1 DEF BufferBounded
  <2>. QED  BY <1>2, <2>2, <2>3 DEF Tick, IInv, TypeOK, IsBuffer
<1>3. ASSUME NEW jitter \in 0..MaxTimeout, UpdateTimeout(jitter) PROVE IInv'
  <2>1. (3 * jitter) \div 2 \in Nat
    OBVIOUS
  <2>2. adaptive_timeout' \in MinTimeout..MaxTimeout
    BY <1>3, <2>1 DEF UpdateTimeout
  <2>. QED  BY <1>3, <2>2 DEF UpdateTimeout, IInv, TypeOK, BufferBounded
<1>4. CASE Age
  <2>1. DOMAIN buffer' = DOMAIN buffer
    BY <1>4 DEF Age
  <2>2. ASSUME NEW s \in DOMAIN buffer PROVE buffer'[s] \in ReseqPacket
    <3>1. buffer[s] \in ReseqPacket /\ MaxTimeout \in Nat
      BY <1>0 DEF IsBuffer
    <3>2. buffer'[s] = [buffer[s] EXCEPT !.age = IF @ > MaxTimeout THEN @ ELSE @ + 1]
      BY <1>4 DEF Age
    <3>. QED  BY ONLY <3>1, <3>2 DEF ReseqPacket
  <2>3. UNCHANGED <<next_seq, adaptive_timeout, delivered, late, dups>>
    BY <1>4 DEF Age
  <2>. QED  BY <2>1, <2>2, <2>3 DEF IInv, TypeOK, BufferBounded
<1>5. CASE UNCHANGED vars
  BY <1>5 DEF vars, IInv, TypeOK, BufferBounded
<1>. QED  BY <1>1, <1>2, <1>3, <1>4, <1>5 DEF Next

(* IInv holds in every reachable state. *)
THEOREM Invariant == Spec => []IInv
<1>. QED  BY InitIInv, NextIInv, PTL DEF Spec

(* The variables keep their types. *)
THEOREM TypeCorrect == Spec => []TypeOK
<1>1. IInv => TypeOK
  BY DEF IInv
<1>. QED  BY <1>1, Invariant, PTL

(* BufferBounded: put of resequencing/mod.rs stores its packet whatever happens,
   and still the buffer holds no more than max_buffer_size of them. *)
THEOREM BoundTheorem == Spec => []BufferBounded
<1>1. IInv => BufferBounded
  BY DEF IInv
<1>. QED  BY <1>1, Invariant, PTL

----------------------------------------------------------------------------
(***************************************************************************)
(* Until the first late packet the buffer implements OrderedRelease, if    *)
(* the sender does not use the last number: next_seq then never wraps.     *)
(***************************************************************************)
NoWrap == LastSeq < MaxSeq

\* Only the sender's numbers are buffered, and next_seq is at most behind them.
Numbers == DOMAIN buffer \subseteq 0..LastSeq /\ next_seq \in 0..(LastSeq + 1)

\* What was delivered lies below next_seq, what is buffered above it.
Parted == late \/ /\ \A i \in DOMAIN delivered : delivered[i].seq < next_seq
                  /\ \A s \in DOMAIN buffer : s > next_seq

Sequential == Numbers /\ Parted

\* A buffer's packets as OrderedRelease sees them.
PendingOf(B) == {[seq |-> s, payload |-> B[s].payload] : s \in DOMAIN B}

\* The packets of B with the k numbers from e on.
Consecutive(B, e, k) ==
    [i \in 1..k |-> [seq |-> e + i - 1, payload |-> B[e + i - 1].payload]]

\* B and C carry the same for the numbers in S.
Agree(B, C, S) == \A s \in S : C[s].payload = B[s].payload

(* What flush_consecutive takes are the numbers from e up to e + k - 1, as long
   as the buffer holds only numbers that the sender uses. *)
LEMMA FlushIsConsecutive ==
    ASSUME NoWrap, NEW B, IsBuffer(B), DOMAIN B \subseteq 0..LastSeq,
           NEW e \in 0..(LastSeq + 1), NEW k \in Nat, Flushes(B, e, k)
    PROVE  /\ e + k \in 0..(LastSeq + 1)
           /\ Num(e, k) = e + k
           /\ \A i \in 0..(k - 1) : Num(e, i) = e + i
           /\ Span(e, k) = e..(e + k - 1)
           /\ Run(B, e, k) = Consecutive(B, e, k)
           /\ e + k \notin DOMAIN B
<1>. USE RustAssumption
<1>0. e \in Nat /\ LastSeq \in Nat /\ MaxSeq \in Nat /\ LastSeq < MaxSeq
  BY DEF NoWrap
<1>1. e + k <= LastSeq + 1
  <2>. SUFFICES ASSUME e + k > LastSeq + 1 PROVE FALSE
    BY <1>0
  <2>. DEFINE i == LastSeq + 1 - e
  <2>1. i \in 0..(k - 1) /\ e + i = LastSeq + 1
    BY <1>0
  <2>2. Num(e, i) = LastSeq + 1
    <3>1. (LastSeq + 1) % (MaxSeq + 1) = LastSeq + 1
      BY <1>0
    <3>. QED  BY <2>1, <3>1 DEF Num
  <2>. HIDE DEF i
  <2>3. Num(e, i) \in DOMAIN B
    BY <2>1 DEF Flushes, Span
  <2>. QED  BY <1>0, <2>2, <2>3
<1>2. \A i \in 0..k : Num(e, i) = e + i
  <2>. TAKE i \in 0..k
  <2>1. e + i \in 0..MaxSeq
    BY <1>0, <1>1
  <2>2. (e + i) % (MaxSeq + 1) = e + i
    BY <1>0, <2>1
  <2>. QED  BY <2>2 DEF Num
<1>3. Span(e, k) = e..(e + k - 1)
  <2>1. ASSUME NEW n \in Span(e, k) PROVE n \in e..(e + k - 1)
    <3>1. PICK i \in 0..(k - 1) : n = Num(e, i)
      BY DEF Span
    <3>. QED  BY <1>0, <1>2, <3>1
  <2>2. ASSUME NEW n \in e..(e + k - 1) PROVE n \in Span(e, k)
    <3>1. n - e \in 0..(k - 1) /\ e + (n - e) = n
      BY <1>0
    <3>2. Num(e, n - e) = n
      BY <1>2, <3>1
    <3>. QED  BY <3>1, <3>2 DEF Span
  <2>. QED  BY <2>1, <2>2
<1>4. Run(B, e, k) = Consecutive(B, e, k)
  <2>1. \A i \in 1..k : Num(e, i - 1) = e + i - 1
    <3>. TAKE i \in 1..k
    <3>1. i - 1 \in 0..k /\ e + (i - 1) = e + i - 1
      BY <1>0
    <3>. QED  BY <1>2, <3>1
  <2>. QED  BY <2>1 DEF Run, Consecutive
<1>5. e + k \notin DOMAIN B
  <2>1. Num(e, k) = e + k
    BY <1>2
  <2>2. e + k \notin Span(e, k)
    BY <1>0, <1>3
  <2>. QED  BY <2>1, <2>2 DEF Flushes, Remaining
<1>6. Num(e, k) = e + k /\ \A i \in 0..(k - 1) : Num(e, i) = e + i
  BY <1>2
<1>. QED  BY <1>0, <1>1, <1>3, <1>4, <1>5, <1>6

(* Handing over the k numbers from e on, where nothing is buffered below e, is a
   release of OrderedRelease. *)
LEMMA ConsecutiveRefines ==
    ASSUME NEW B, IsBuffer(B), NEW e \in Nat, NEW k \in Nat,
           \A s \in DOMAIN B : s >= e,
           e..(e + k - 1) \subseteq DOMAIN B,
           delivered' = delivered \o Consecutive(B, e, k),
           DOMAIN buffer' = DOMAIN B \ (e..(e + k - 1)),
           Agree(B, buffer', DOMAIN buffer')
    PROVE  Order!Release(PendingOf(B))
<1>. USE RustAssumption
<1>. DEFINE R == Consecutive(B, e, k)
            avail == PendingOf(B)
            left == PendingOf(buffer')
<1>0. \A s \in DOMAIN B : s \in Nat
  BY DEF IsBuffer, SeqNo
<1>1. /\ DOMAIN R = 1..k
      /\ \A i \in 1..k : R[i] = [seq |-> e + i - 1, payload |-> B[e + i - 1].payload]
  BY DEF Consecutive
<1>2. \A i \in 1..k : R[i] \in avail /\ R[i].seq = e + i - 1
  <2>. TAKE i \in 1..k
  <2>1. e + i - 1 \in DOMAIN B
    OBVIOUS
  <2>. DEFINE s == e + i - 1
  <2>2. R[i] = [seq |-> s, payload |-> B[s].payload]
    BY <1>1
  <2>3. s \in DOMAIN B
    BY <2>1
  <2>. HIDE DEF s, R
  <2>4. R[i] \in avail
    BY <2>2, <2>3 DEF PendingOf
  <2>5. R[i].seq = s
    BY <2>2
  <2>. QED  BY <2>4, <2>5 DEF s
<1>3. R \in [1..k -> avail]
  BY <1>2 DEF Consecutive
<1>4. Order!Ascending(R)
  <2>. SUFFICES ASSUME NEW i \in 1..k, NEW j \in 1..k, i < j
                PROVE  R[i].seq < R[j].seq
    BY <1>1 DEF Order!Ascending
  <2>. HIDE DEF R
  <2>. QED  BY <1>2
<1>5. ASSUME NEW s \in DOMAIN B, s \in e..(e + k - 1)
      PROVE  [seq |-> s, payload |-> B[s].payload] \in Order!Members(R)
  <2>. DEFINE i == s - e + 1
  <2>1. i \in 1..k /\ e + i - 1 = s
    BY <1>5
  <2>. HIDE DEF R
  <2>2. R[i] = [seq |-> s, payload |-> B[s].payload]
    BY <1>1, <2>1
  <2>. QED  BY <1>1, <2>1, <2>2 DEF Order!Members
<1>6. ASSUME NEW r \in Order!Members(R)
      PROVE  r.seq \in e..(e + k - 1)
  <2>. HIDE DEF R
  <2>1. PICK i \in 1..k : r = R[i]
    BY <1>1 DEF Order!Members
  <2>. QED  BY <1>2, <2>1
<1>. HIDE DEF R
<1>7. avail \ Order!Members(R) = left
  <2>1. ASSUME NEW a \in avail, a \notin Order!Members(R)
        PROVE  a \in left
    <3>1. PICK s \in DOMAIN B : a = [seq |-> s, payload |-> B[s].payload]
      BY DEF PendingOf
    <3>2. s \in DOMAIN buffer'
      BY <1>5, <2>1, <3>1
    <3>. QED  BY <3>1, <3>2 DEF PendingOf, Agree
  <2>2. ASSUME NEW a \in left
        PROVE  a \in avail /\ a \notin Order!Members(R)
    <3>1. PICK s \in DOMAIN buffer' : a = [seq |-> s, payload |-> buffer'[s].payload]
      BY DEF PendingOf
    <3>2. s \in DOMAIN B /\ a = [seq |-> s, payload |-> B[s].payload]
          /\ s \notin e..(e + k - 1)
      BY <3>1 DEF Agree
    <3>3. a \in avail
      BY <3>2 DEF PendingOf
    <3>. QED  BY <1>6, <3>2, <3>3
  <2>. QED  BY <2>1, <2>2
<1>8. \A a \in avail \ Order!Members(R) : \A r \in Order!Members(R) :
          r.seq < a.seq
  <2>. SUFFICES ASSUME NEW a \in left, NEW r \in Order!Members(R)
                PROVE  r.seq < a.seq
    BY <1>7
  <2>1. PICK s \in DOMAIN buffer' : a = [seq |-> s, payload |-> buffer'[s].payload]
    BY DEF PendingOf
  <2>2. a.seq = s /\ s \in Nat /\ s >= e + k
    BY <1>0, <2>1
  <2>3. r.seq \in e..(e + k - 1)
    BY <1>6
  <2>. QED  BY <2>2, <2>3
<1>9. k \in 0..Cardinality(avail)
  <2>1. IsFiniteSet(DOMAIN B)
    BY DomainFinite
  <2>2. IsFiniteSet(avail)
    <3>. DEFINE f == [a \in avail |-> a.seq]
    <3>1. \A a \in avail : \E s \in DOMAIN B :
            a.seq = s /\ a = [seq |-> s, payload |-> B[s].payload]
      BY DEF PendingOf
    <3>2. f \in Injection(avail, DOMAIN B)
      BY <3>1 DEF Injection, IsInjective
    <3>. QED  BY <2>1, <3>2, FS_Injection
  <2>3. \A i, j \in 1..k : R[i] = R[j] => i = j
    BY <1>2
  <2>4. R \in Injection(1..k, avail)
    BY <1>3, <2>3 DEF Injection, IsInjective
  <2>. HIDE DEF avail
  <2>5. Cardinality(1..k) <= Cardinality(avail)
    BY <2>2, <2>4, FS_Injection
  <2>6. Cardinality(1..k) = k
    <3>1. 1 \in Int /\ k \in Int
      OBVIOUS
    <3>2. Cardinality(1..k) = IF 1 > k THEN 0 ELSE k - 1 + 1
      BY <3>1, FS_Interval, Zenon
    <3>. QED  BY <3>2
  <2>7. Cardinality(avail) \in Nat
    BY <2>2, FS_CardinalityType
  <2>. QED  BY <2>5, <2>6, <2>7
<1>10. delivered' = delivered \o R
  BY DEF R
<1>11. left = {[seq |-> s, payload |-> buffer'[s].payload] : s \in DOMAIN buffer'}
  BY DEF PendingOf
<1>. HIDE DEF avail, left
<1>. QED
  BY <1>3, <1>4, <1>7, <1>8, <1>9, <1>10, <1>11
  DEF Order!Release, avail, Order!Cardinality, Cardinality

(* Such a release leaves what is delivered below next_seq and what is buffered
   above it. *)
LEMMA ConsecutiveParts ==
    ASSUME NEW B, IsBuffer(B), NEW e \in Nat, NEW k \in Nat,
           \A s \in DOMAIN B : s >= e,
           e + k \notin DOMAIN B,
           delivered \in Seq(Packet),
           \A i \in DOMAIN delivered : delivered[i].seq < e,
           next_seq' = e + k,
           delivered' = delivered \o Consecutive(B, e, k),
           DOMAIN buffer' = DOMAIN B \ (e..(e + k - 1))
    PROVE  Parted'
<1>. DEFINE R == Consecutive(B, e, k)
            d == Len(delivered)
<1>1. DOMAIN R = 1..k /\ \A i \in 1..k : R[i].seq = e + i - 1
  BY DEF Consecutive
<1>2. R \in Seq({R[i] : i \in 1..k})
  <2>. DEFINE T == {R[i] : i \in 1..k}
  <2>1. R \in [1..k -> T]
    BY DEF Consecutive
  <2>. HIDE DEF R, T
  <2>2. R \in Seq(T)
    BY <2>1
  <2>. QED  BY <2>2 DEF T
<1>3. Len(R) = k
  BY <1>2, <1>1
<1>. HIDE DEF R
<1>4. /\ d \in Nat /\ DOMAIN delivered = 1..d
      /\ \A i \in 1..d : delivered[i] \in Packet
  OBVIOUS
<1>5. ASSUME NEW i \in DOMAIN delivered' PROVE delivered'[i].seq < next_seq'
  <2>0. delivered' = delivered \o R
    BY DEF R
  <2>1. i \in 1..(d + k)
    BY <1>2, <1>3, <2>0
  <2>2. CASE i \in 1..d
    <3>1. delivered'[i] = delivered[i]
      BY <1>2, <1>3, <2>0, <2>2
    <3>2. delivered[i].seq < e /\ delivered[i].seq \in Nat
      BY <1>4, <2>2 DEF Packet, SeqNo
    <3>. QED  BY <3>1, <3>2
  <2>3. CASE i \in (d + 1)..(d + k)
    <3>1. delivered'[i] = R[i - d]
      BY <1>2, <1>3, <2>0, <2>3
    <3>2. i - d \in 1..k
      BY <1>4, <2>3
    <3>3. R[i - d].seq = e + (i - d) - 1
      BY <1>1, <3>2
    <3>. QED  BY <1>4, <3>1, <3>2, <3>3
  <2>. QED  BY <1>4, <2>1, <2>2, <2>3
<1>6. ASSUME NEW s \in DOMAIN buffer' PROVE s > next_seq'
  <2>1. s \in DOMAIN B /\ s \in Nat /\ s >= e /\ s # e + k
    BY DEF IsBuffer, SeqNo
  <2>2. s \notin e..(e + k - 1)
    OBVIOUS
  <2>. QED  BY <2>1, <2>2
<1>. QED  BY <1>5, <1>6 DEF Parted

(* One flush_consecutive, from a number below which nothing is buffered and
   above which nothing was delivered. *)
LEMMA FlushRefines ==
    ASSUME NoWrap, NEW B, IsBuffer(B), DOMAIN B \subseteq 0..LastSeq,
           NEW e \in 0..(LastSeq + 1), \A s \in DOMAIN B : s >= e,
           delivered \in Seq(Packet),
           \A i \in DOMAIN delivered : delivered[i].seq < e,
           FlushConsecutive(B, e, delivered)
    PROVE  Order!Release(PendingOf(B)) /\ Parted'
<1>. USE RustAssumption
<1>1. PICK k \in 0..Cardinality(DOMAIN B) :
        /\ Flushes(B, e, k)
        /\ next_seq' = Num(e, k)
        /\ buffer' = Remaining(B, e, k)
        /\ delivered' = delivered \o Run(B, e, k)
  BY DEF FlushConsecutive
<1>2. k \in Nat /\ e \in Nat
  BY DomainFinite
<1>3. /\ Num(e, k) = e + k
      /\ Span(e, k) = e..(e + k - 1)
      /\ Run(B, e, k) = Consecutive(B, e, k)
      /\ e + k \notin DOMAIN B
  BY <1>1, <1>2, FlushIsConsecutive
<1>4. /\ DOMAIN buffer' = DOMAIN B \ (e..(e + k - 1))
      /\ Agree(B, buffer', DOMAIN buffer')
  BY <1>1, <1>3 DEF Remaining, Agree
<1>5. e..(e + k - 1) \subseteq DOMAIN B
  BY <1>1, <1>3 DEF Flushes
<1>6. next_seq' = e + k /\ delivered' = delivered \o Consecutive(B, e, k)
  BY <1>1, <1>3
<1>7. Order!Release(PendingOf(B))
  BY <1>2, <1>4, <1>5, <1>6, ConsecutiveRefines
<1>8. Parted'
  BY <1>2, <1>3, <1>4, <1>6, ConsecutiveParts
<1>. QED  BY <1>7, <1>8

(* flush_consecutive keeps to the numbers in use, late packets or not. *)
LEMMA FlushNumbers ==
    ASSUME NoWrap, NEW B, IsBuffer(B), DOMAIN B \subseteq 0..LastSeq,
           NEW e \in 0..(LastSeq + 1), NEW before, FlushConsecutive(B, e, before)
    PROVE  Numbers'
<1>. USE RustAssumption
<1>1. PICK k \in 0..Cardinality(DOMAIN B) :
        /\ Flushes(B, e, k)
        /\ next_seq' = Num(e, k)
        /\ buffer' = Remaining(B, e, k)
  BY DEF FlushConsecutive
<1>2. k \in Nat
  BY DomainFinite
<1>3. Num(e, k) \in 0..(LastSeq + 1)
  BY <1>1, <1>2, FlushIsConsecutive
<1>4. DOMAIN buffer' \subseteq DOMAIN B
  BY <1>1, RemainingBuffer, Zenon
<1>. QED  BY <1>1, <1>3, <1>4 DEF Numbers

(* Storing a packet makes it pending. *)
LEMMA InsertPending ==
    ASSUME NEW B, NEW s, s \notin DOMAIN B, NEW payload
    PROVE  PendingOf(Insert(B, s, Fresh(payload))) =
             PendingOf(B) \cup {[seq |-> s, payload |-> payload]}
<1>. DEFINE C == Insert(B, s, Fresh(payload))
<1>1. /\ DOMAIN C = DOMAIN B \cup {s}
      /\ C[s].payload = payload
      /\ \A t \in DOMAIN B : C[t] = B[t]
  BY DEF Insert, Fresh
<1>. HIDE DEF C
<1>2. ASSUME NEW a \in PendingOf(C)
      PROVE  a \in PendingOf(B) \cup {[seq |-> s, payload |-> payload]}
  BY <1>1 DEF PendingOf
<1>3. ASSUME NEW a \in PendingOf(B) PROVE a \in PendingOf(C)
  <2>1. PICK t \in DOMAIN B : a = [seq |-> t, payload |-> B[t].payload]
    BY DEF PendingOf
  <2>2. t \in DOMAIN C /\ a = [seq |-> t, payload |-> C[t].payload]
    BY <1>1, <2>1
  <2>. QED  BY <2>2 DEF PendingOf
<1>4. [seq |-> s, payload |-> payload] \in PendingOf(C)
  BY <1>1 DEF PendingOf
<1>5. PendingOf(C) = PendingOf(B) \cup {[seq |-> s, payload |-> payload]}
  BY <1>2, <1>3, <1>4
<1>. QED  BY <1>5 DEF C

\* The k packets of B from e on and the k2 of B2 that follow are those of C.
Joins(B, B2, C, e, k, k2) ==
    Consecutive(B, e, k) \o Consecutive(B2, e + k, k2) = Consecutive(C, e, k + k2)

(* Two runs of which the second starts where the first one ends are one. *)
LEMMA ConsecutiveConcat ==
    ASSUME NEW B, NEW B2, NEW C, NEW e \in Nat, NEW k \in Nat, NEW k2 \in Nat,
           NEW S, S = e..(e + k - 1), Agree(B, C, S),
           NEW S2, S2 = (e + k)..(e + k + k2 - 1), Agree(B2, C, S2)
    PROVE  Joins(B, B2, C, e, k, k2)
<1>. DEFINE R == Consecutive(B, e, k)
            R2 == Consecutive(B2, e + k, k2)
            Q == Consecutive(C, e, k + k2)
            T == {R[i] : i \in 1..k} \cup {R2[i] : i \in 1..k2}
                   \cup {Q[i] : i \in 1..(k + k2)}
<1>1. /\ R \in [1..k -> T] /\ R2 \in [1..k2 -> T] /\ Q \in [1..(k + k2) -> T]
  BY DEF Consecutive
<1>2. \A i \in 1..k : Q[i] = R[i]
  <2>. TAKE i \in 1..k
  <2>1. Q[i] = [seq |-> e + i - 1, payload |-> C[e + i - 1].payload]
    BY DEF Consecutive
  <2>2. R[i] = [seq |-> e + i - 1, payload |-> B[e + i - 1].payload]
    BY DEF Consecutive
  <2>3. e + i - 1 \in e..(e + k - 1)
    OBVIOUS
  <2>. HIDE DEF Q, R
  <2>. QED  BY <2>1, <2>2, <2>3 DEF Agree
<1>3. \A i \in 1..k2 : Q[i + k] = R2[i]
  <2>. TAKE i \in 1..k2
  <2>0. i + k \in 1..(k + k2)
    OBVIOUS
  <2>1. Q[i + k] = [seq |-> e + (i + k) - 1, payload |-> C[e + (i + k) - 1].payload]
    BY <2>0 DEF Consecutive
  <2>2. R2[i] = [seq |-> e + k + i - 1, payload |-> B2[e + k + i - 1].payload]
    BY DEF Consecutive
  <2>3. e + (i + k) - 1 = e + k + i - 1 /\ e + k + i - 1 \in (e + k)..(e + k + k2 - 1)
    OBVIOUS
  <2>. HIDE DEF Q, R2
  <2>. QED  BY <2>1, <2>2, <2>3 DEF Agree
<1>. HIDE DEF R, R2, Q, T
<1>4. R \in Seq(T) /\ Len(R) = k /\ R2 \in Seq(T) /\ Len(R2) = k2
      /\ Q \in Seq(T) /\ Len(Q) = k + k2
  BY <1>1
<1>5. /\ R \o R2 \in Seq(T) /\ Len(R \o R2) = k + k2
      /\ \A i \in 1..(k + k2) :
           (R \o R2)[i] = IF i <= k THEN R[i] ELSE R2[i - k]
  <2>1. /\ R \o R2 \in Seq(T)
        /\ Len(R \o R2) = Len(R) + Len(R2)
        /\ \A i \in 1..(Len(R) + Len(R2)) :
             (R \o R2)[i] = IF i <= Len(R) THEN R[i] ELSE R2[i - Len(R)]
    BY <1>4, ConcatProperties, Zenon
  <2>. QED  BY <1>4, <2>1, Zenon
<1>6. \A i \in 1..(k + k2) : (R \o R2)[i] = Q[i]
  <2>. TAKE i \in 1..(k + k2)
  <2>1. CASE i <= k
    <3>1. (R \o R2)[i] = R[i] /\ i \in 1..k
      BY <1>5, <2>1
    <3>. QED  BY <1>2, <3>1
  <2>2. CASE ~ (i <= k)
    <3>1. (R \o R2)[i] = R2[i - k]
      BY <1>5, <2>2
    <3>2. i - k \in 1..k2 /\ (i - k) + k = i
      BY <2>2
    <3>. QED  BY <1>3, <3>1, <3>2
  <2>. QED  BY <2>1, <2>2
<1>7. R \o R2 = Q
  BY <1>4, <1>5, <1>6, SeqEqual
<1>. QED  BY <1>7 DEF R, R2, Q, Joins

(* put with a full buffer, unless the packet turns out to be late: what the
   forced flush and the second one hand over is one run, from the head on. *)
LEMMA ForcedRefines ==
    ASSUME NoWrap, IInv, Numbers, ~ late, Parted,
           NEW seq \in 0..LastSeq, NEW payload \in Payload,
           PutForced(seq, payload), ~ late'
    PROVE  /\ Order!Release(PendingOf(Insert(buffer, seq, Fresh(payload))))
           /\ Parted'
           /\ seq > next_seq
           /\ seq \in DOMAIN buffer => dups' # dups
<1>. USE RustAssumption
<1>1. /\ IsBuffer(buffer) /\ next_seq \in 0..(LastSeq + 1)
      /\ delivered \in Seq(Packet) /\ dups \in Nat
      /\ seq \in SeqNo
      /\ DOMAIN buffer \subseteq 0..LastSeq
      /\ \A i \in DOMAIN delivered : delivered[i].seq < next_seq
      /\ \A s \in DOMAIN buffer : s > next_seq
  BY DEF IInv, TypeOK, IsBuffer, Numbers, Parted, SeqNo
<1>2. PICK head \in DOMAIN buffer, k \in 0..Cardinality(DOMAIN buffer) :
        /\ IsFirst(head, buffer)
        /\ Flushes(buffer, head, k)
        /\ LET rest == Remaining(buffer, head, k)
           IN  /\ FlushConsecutive(Insert(rest, seq, Fresh(payload)),
                                   Num(head, k), delivered \o Run(buffer, head, k))
               /\ Stored(seq, rest, Num(head, k))
  BY DEF PutForced
<1>3. k \in Nat /\ head \in 0..LastSeq /\ head \in Nat
  BY <1>1, DomainFinite
<1>. DEFINE e == head + k
            rest == Remaining(buffer, head, k)
            B2 == Insert(rest, seq, Fresh(payload))
            C == Insert(buffer, seq, Fresh(payload))
<1>4. /\ e \in 0..(LastSeq + 1) /\ e \in Nat
      /\ Num(head, k) = e
      /\ Span(head, k) = head..(e - 1)
      /\ Run(buffer, head, k) = Consecutive(buffer, head, k)
  BY <1>1, <1>2, <1>3, FlushIsConsecutive, SMTT(30)
<1>5. /\ IsBuffer(rest)
      /\ DOMAIN rest = DOMAIN buffer \ (head..(e - 1))
      /\ \A s \in DOMAIN rest : rest[s] = buffer[s]
      /\ head \notin DOMAIN rest
  BY <1>1, <1>2, <1>3, <1>4, RemainingBuffer, ForcedFlushMakesRoom DEF Remaining
<1>6. /\ IsBuffer(B2) /\ DOMAIN B2 = DOMAIN rest \cup {seq}
      /\ IsBuffer(C) /\ DOMAIN C = DOMAIN buffer \cup {seq}
  BY <1>1, <1>5, InsertBuffer
<1>7. seq >= e /\ seq > head /\ seq > next_seq
  <2>1. ~ (seq < e)
    BY <1>2, <1>4 DEF Stored
  <2>2. k # 0
    <3>1. head \in head..(e - 1)
      BY <1>3, <1>5
    <3>. QED  BY <1>3, <3>1
  <2>3. head > next_seq
    BY <1>1
  <2>. QED  BY <1>1, <1>3, <2>1, <2>2, <2>3
<1>8. PICK k2 \in 0..Cardinality(DOMAIN B2) :
        /\ Flushes(B2, e, k2)
        /\ next_seq' = Num(e, k2)
        /\ buffer' = Remaining(B2, e, k2)
        /\ delivered' = (delivered \o Consecutive(buffer, head, k)) \o Run(B2, e, k2)
  BY <1>2, <1>4 DEF FlushConsecutive
<1>9. k2 \in Nat
  BY <1>6, DomainFinite
<1>10. /\ Num(e, k2) = e + k2
       /\ Span(e, k2) = e..(e + k2 - 1)
       /\ Run(B2, e, k2) = Consecutive(B2, e, k2)
       /\ e + k2 \notin DOMAIN B2
  <2>. HIDE DEF e, B2, rest, C
  <2>1. DOMAIN B2 \subseteq 0..LastSeq /\ IsBuffer(B2)
    BY <1>1, <1>5, <1>6
  <2>2. e \in 0..(LastSeq + 1) /\ Flushes(B2, e, k2)
    BY <1>4, <1>8
  <2>. QED  BY <1>9, <2>1, <2>2, FlushIsConsecutive
<1>. DEFINE n == k + k2
<1>11. /\ \A s \in DOMAIN B2 : B2[s].payload = C[s].payload
       /\ \A s \in DOMAIN buffer : s # seq => C[s].payload = buffer[s].payload
  BY <1>5 DEF Insert
<1>. HIDE DEF B2, C, rest
<1>12. /\ head..(e - 1) \subseteq DOMAIN buffer
       /\ e..(e + k2 - 1) \subseteq DOMAIN B2
  BY <1>2, <1>4, <1>8, <1>10 DEF Flushes
<1>13. Consecutive(buffer, head, k) \o Consecutive(B2, e, k2) = Consecutive(C, head, n)
  <2>. SUFFICES ASSUME NEW S, S = head..(head + k - 1),
                       NEW S2, S2 = (head + k)..(head + k + k2 - 1)
                PROVE  Joins(buffer, B2, C, head, k, k2)
    BY DEF Joins
  <2>1. Agree(buffer, C, S)
    BY <1>3, <1>7, <1>11, <1>12 DEF Agree
  <2>2. Agree(B2, C, S2)
    BY <1>11, <1>12 DEF Agree
  <2>3. head \in Nat /\ k \in Nat /\ k2 \in Nat
    BY <1>3, <1>9
  <2>. QED  BY <2>1, <2>2, <2>3, ConsecutiveConcat
<1>14. delivered' = delivered \o Consecutive(C, head, n)
  <2>. DEFINE T == UNION {{Consecutive(buffer, head, k)[i] : i \in 1..k},
                          {Consecutive(B2, e, k2)[i] : i \in 1..k2}, Packet}
  <2>1. /\ Consecutive(buffer, head, k) \in [1..k -> T]
        /\ Consecutive(B2, e, k2) \in [1..k2 -> T]
    BY DEF Consecutive
  <2>2. delivered \in Seq(T)
    BY <1>1
  <2>. HIDE DEF T, e, n
  <2>3. Consecutive(buffer, head, k) \in Seq(T) /\ Consecutive(B2, e, k2) \in Seq(T)
    BY <1>3, <1>9, <2>1
  <2>4. delivered' = delivered \o (Consecutive(buffer, head, k) \o Consecutive(B2, e, k2))
    BY <1>8, <1>10, <2>2, <2>3, ConcatAssociative, SMTT(30)
  <2>. QED  BY <1>13, <2>4
<1>15. \A s \in DOMAIN C : s >= head /\ s \in Nat
  BY <1>1, <1>2, <1>3, <1>6, <1>7 DEF IsFirst
<1>16. head + n = e + k2 /\ n \in Nat
  BY <1>3, <1>9
<1>17. head..(head + n - 1) \subseteq DOMAIN C
  <2>1. \A s \in head..(head + n - 1) : s \in head..(e - 1) \/ s \in e..(e + k2 - 1)
    BY <1>3, <1>9
  <2>. QED  BY <1>5, <1>6, <1>12, <2>1
<1>18. head + n \notin DOMAIN C
  <2>1. e + k2 \notin head..(e - 1)
    BY <1>3, <1>9
  <2>. QED  BY <1>5, <1>6, <1>10, <1>16, <2>1
<1>19. /\ DOMAIN buffer' = DOMAIN C \ (head..(head + n - 1))
       /\ Agree(C, buffer', DOMAIN buffer')
  <2>1. /\ DOMAIN buffer' = DOMAIN B2 \ (e..(e + k2 - 1))
        /\ \A s \in DOMAIN buffer' : buffer'[s] = B2[s]
    BY <1>8, <1>10 DEF Remaining
  <2>2. \A s : s \in head..(head + n - 1) <=> s \in head..(e - 1) \/ s \in e..(e + k2 - 1)
    BY <1>3, <1>9
  <2>3. seq \notin head..(e - 1)
    BY <1>3, <1>4, <1>7
  <2>. QED  BY <1>5, <1>6, <1>11, <2>1, <2>2, <2>3 DEF Agree
<1>20. next_seq' = head + n
  BY <1>8, <1>10, <1>16
<1>. HIDE DEF e, n
<1>21. Order!Release(PendingOf(C))
  <2>1. IsBuffer(C) /\ head \in Nat /\ n \in Nat
    BY <1>3, <1>6, <1>16
  <2>2. \A s \in DOMAIN C : s >= head
    BY <1>15
  <2>. QED
    BY <1>14, <1>17, <1>19, <2>1, <2>2, ConsecutiveRefines DEF Order!Release
<1>22. \A i \in DOMAIN delivered : delivered[i].seq < head
  <2>. TAKE i \in DOMAIN delivered
  <2>1. delivered[i] \in Packet
    BY <1>1
  <2>2. delivered[i].seq < next_seq /\ next_seq < head /\ delivered[i].seq \in Nat
        /\ next_seq \in Nat
    BY <1>1, <2>1 DEF Packet, SeqNo
  <2>. QED  BY <1>3, <2>2
<1>23. Parted'
  BY <1>1, <1>3, <1>6, <1>14, <1>15, <1>16, <1>18, <1>19, <1>20, <1>22,
     ConsecutiveParts
<1>24. seq \in DOMAIN buffer => dups' # dups
  <2>. SUFFICES ASSUME seq \in DOMAIN buffer PROVE dups' # dups
    OBVIOUS
  <2>1. seq \notin head..(e - 1)
    BY <1>3, <1>4, <1>7
  <2>2. seq \in DOMAIN rest
    BY <1>5, <2>1
  <2>3. dups' = dups + 1
    BY <1>2, <2>2 DEF Stored, rest
  <2>. QED  BY <1>1, <2>3
<1>. QED  BY <1>7, <1>21, <1>23, <1>24 DEF C

(* put, when the packet was not buffered already, is an Accept. *)
LEMMA AcceptRefines ==
    ASSUME IInv, ~ late, Parted, NEW seq \in 0..LastSeq, NEW payload \in Payload,
           seq \notin DOMAIN buffer, seq >= next_seq,
           Order!Release(PendingOf(Insert(buffer, seq, Fresh(payload))))
    PROVE  Order!Next
<1>. USE RustAssumption
<1>. DEFINE p == [seq |-> seq, payload |-> payload]
<1>1. p \in Order!Packet
  BY DEF Order!Packet
<1>2. \A i \in DOMAIN delivered : delivered[i].seq < p.seq
  <2>. SUFFICES ASSUME NEW i \in DOMAIN delivered PROVE delivered[i].seq < seq
    OBVIOUS
  <2>1. delivered[i] \in Packet /\ next_seq \in Nat /\ delivered[i].seq < next_seq
    BY DEF IInv, TypeOK, SeqNo, Parted
  <2>. QED  BY <2>1 DEF Packet, SeqNo
<1>3. \A q \in PendingOf(buffer) : q.seq # p.seq
  BY DEF PendingOf
<1>4. Order!Release(PendingOf(buffer) \cup {p})
  BY InsertPending DEF Order!Release
<1>. HIDE DEF p
<1>5. Order!Accept(p)
  BY <1>2, <1>3, <1>4 DEF Order!Accept, PendingOf, Order!Release
<1>. QED  BY <1>1, <1>5 DEF Order!Next

(* Every step stays among the numbers in use, *)
LEMMA NumbersKept == NoWrap /\ IInv /\ Numbers /\ [Next]_vars => Numbers'
<1>. SUFFICES ASSUME NoWrap, IInv, Numbers, [Next]_vars PROVE Numbers'
  OBVIOUS
<1>. USE RustAssumption
<1>0. /\ IsBuffer(buffer) /\ next_seq \in 0..(LastSeq + 1)
      /\ DOMAIN buffer \subseteq 0..LastSeq
  BY DEF IInv, TypeOK, IsBuffer, Numbers
<1>1. ASSUME NEW seq \in 0..LastSeq, NEW payload \in Payload, NEW B, IsBuffer(B),
             DOMAIN B \subseteq 0..LastSeq, NEW e \in 0..(LastSeq + 1), NEW before,
             FlushConsecutive(Insert(B, seq, Fresh(payload)), e, before)
      PROVE  Numbers'
  <2>1. seq \in SeqNo
    BY DEF SeqNo
  <2>2. /\ IsBuffer(Insert(B, seq, Fresh(payload)))
        /\ DOMAIN Insert(B, seq, Fresh(payload)) = DOMAIN B \cup {seq}
    <3>1. IsBuffer(B)
      BY <1>1
    <3>. QED  BY <2>1, <3>1, InsertBuffer, Zenon
  <2>3. DOMAIN Insert(B, seq, Fresh(payload)) \subseteq 0..LastSeq
    BY <1>1, <2>2
  <2>. QED  BY <1>1, <2>2, <2>3, FlushNumbers
<1>2. ASSUME NEW seq \in 0..LastSeq, NEW payload \in Payload, Put(seq, payload)
      PROVE  Numbers'
  BY <1>0, <1>1, <1>2 DEF Put
<1>3. ASSUME NEW seq \in 0..LastSeq, NEW payload \in Payload, PutForced(seq, payload)
      PROVE  Numbers'
  <2>1. PICK head \in DOMAIN buffer, k \in 0..Cardinality(DOMAIN buffer) :
          /\ Flushes(buffer, head, k)
          /\ FlushConsecutive(Insert(Remaining(buffer, head, k), seq, Fresh(payload)),
                              Num(head, k), delivered \o Run(buffer, head, k))
    BY <1>3 DEF PutForced
  <2>2. k \in Nat /\ head \in 0..(LastSeq + 1)
    BY <1>0, DomainFinite
  <2>3. Num(head, k) \in 0..(LastSeq + 1)
    <3>1. head + k \in 0..(LastSeq + 1) /\ Num(head, k) = head + k
      BY <1>0, <2>1, <2>2, FlushIsConsecutive
    <3>. QED  BY <3>1
  <2>4. IsBuffer(Remaining(buffer, head, k))
        /\ DOMAIN Remaining(buffer, head, k) \subseteq DOMAIN buffer
    BY <1>0, RemainingBuffer, Zenon
  <2>. QED  BY <1>0, <1>1, <2>1, <2>3, <2>4
<1>4. CASE Tick
  <2>1. PICK head \in DOMAIN buffer : FlushConsecutive(buffer, head, delivered)
    BY <1>4 DEF Tick
  <2>2. head \in 0..(LastSeq + 1)
    BY <1>0
  <2>. QED  BY <1>0, <2>1, <2>2, FlushNumbers
<1>5. ASSUME NEW jitter \in 0..MaxTimeout, UpdateTimeout(jitter) PROVE Numbers'
  BY <1>5 DEF UpdateTimeout, Numbers
<1>6. CASE Age
  BY <1>6 DEF Age, Numbers
<1>7. CASE UNCHANGED vars
  BY <1>7 DEF vars, Numbers
<1>. QED  BY <1>2, <1>3, <1>4, <1>5, <1>6, <1>7 DEF Next

(* and is a step of OrderedRelease or one of the two exceptions. *)
LEMMA StepRefines ==
    ASSUME NoWrap, IInv, Sequential, [Next]_vars
    PROVE  Parted' /\ [ReleasesInOrder]_(Order!vars)
<1>. USE RustAssumption
<1>1. CASE late'
  BY <1>1 DEF Parted, ReleasesInOrder
<1>2. CASE ~ late'
  <2>0. ~ late
    <3>1. ASSUME NEW seq \in 0..LastSeq, NEW payload \in Payload,
                 Put(seq, payload) \/ PutForced(seq, payload)
          PROVE  late => late'
      BY <3>1 DEF Put, PutForced, Stored
    <3>2. Tick \/ (\E jitter \in 0..MaxTimeout : UpdateTimeout(jitter)) \/ Age
            \/ UNCHANGED vars => late' = late
      BY DEF Tick, UpdateTimeout, Age, vars
    <3>. QED  BY <1>2, <3>1, <3>2 DEF Next
  <2>1. /\ IsBuffer(buffer) /\ next_seq \in 0..(LastSeq + 1) /\ next_seq \in Nat
        /\ delivered \in Seq(Packet) /\ dups \in Nat
        /\ DOMAIN buffer \subseteq 0..LastSeq
        /\ \A i \in DOMAIN delivered : delivered[i].seq < next_seq
        /\ \A s \in DOMAIN buffer : s > next_seq
        /\ Numbers /\ Parted
    BY <2>0 DEF IInv, TypeOK, IsBuffer, Numbers, Parted, Sequential
  <2>2. ASSUME NEW seq \in 0..LastSeq, NEW payload \in Payload, Put(seq, payload)
        PROVE  Parted' /\ ReleasesInOrder
    <3>. DEFINE C == Insert(buffer, seq, Fresh(payload))
    <3>1. /\ seq >= next_seq
          /\ FlushConsecutive(C, next_seq, delivered)
          /\ seq \in DOMAIN buffer => dups' = dups + 1
      BY <2>2 DEF Put, Stored
    <3>2. seq \in SeqNo
      BY DEF SeqNo
    <3>3. IsBuffer(C) /\ DOMAIN C = DOMAIN buffer \cup {seq}
      BY <2>1, <3>2, InsertBuffer
    <3>. HIDE DEF C
    <3>4. DOMAIN C \subseteq 0..LastSeq /\ \A s \in DOMAIN C : s >= next_seq
      BY <2>1, <3>1, <3>3
    <3>5. Order!Release(PendingOf(C)) /\ Parted'
      BY <2>1, <3>1, <3>3, <3>4, FlushRefines DEF Order!Release
    <3>6. CASE seq \in DOMAIN buffer
      BY <2>1, <3>1, <3>5, <3>6 DEF ReleasesInOrder
    <3>7. CASE seq \notin DOMAIN buffer
      <4>1. Order!Next
        BY <2>0, <2>1, <3>1, <3>5, <3>7, AcceptRefines DEF C
      <4>. QED  BY <3>5, <4>1 DEF ReleasesInOrder
    <3>. QED  BY <3>6, <3>7
  <2>3. ASSUME NEW seq \in 0..LastSeq, NEW payload \in Payload, PutForced(seq, payload)
        PROVE  Parted' /\ ReleasesInOrder
    <3>1. /\ Order!Release(PendingOf(Insert(buffer, seq, Fresh(payload))))
          /\ Parted'
          /\ seq > next_seq
          /\ seq \in DOMAIN buffer => dups' # dups
      BY <1>2, <2>0, <2>1, <2>3, ForcedRefines
    <3>2. CASE seq \in DOMAIN buffer
      BY <3>1, <3>2 DEF ReleasesInOrder
    <3>3. CASE seq \notin DOMAIN buffer
      <4>1. Order!Next
        BY <2>0, <2>1, <3>1, <3>3, AcceptRefines
      <4>. QED  BY <3>1, <4>1 DEF ReleasesInOrder
    <3>. QED  BY <3>2, <3>3
  <2>4. CASE Tick
    <3>1. PICK head \in DOMAIN buffer : /\ IsFirst(head, buffer)
                                        /\ FlushConsecutive(buffer, head, delivered)
      BY <2>4 DEF Tick
    <3>2. /\ head \in 0..(LastSeq + 1) /\ head > next_seq
          /\ \A s \in DOMAIN buffer : s >= head
      BY <2>1, <3>1 DEF IsFirst
    <3>3. \A i \in DOMAIN delivered : delivered[i].seq < head
      <4>. TAKE i \in DOMAIN delivered
      <4>1. delivered[i] \in Packet /\ delivered[i].seq < next_seq
        BY <2>1
      <4>. QED  BY <2>1, <3>2, <4>1 DEF Packet, SeqNo
    <3>4. Order!Release(PendingOf(buffer)) /\ Parted'
      BY <2>1, <3>1, <3>2, <3>3, FlushRefines DEF Order!Release
    <3>5. Order!Skip
      BY <3>4 DEF Order!Skip, PendingOf, Order!Release
    <3>. QED  BY <3>4, <3>5 DEF ReleasesInOrder, Order!Next
  <2>5. ASSUME NEW jitter \in 0..MaxTimeout, UpdateTimeout(jitter)
        PROVE  Parted' /\ UNCHANGED Order!vars
    BY <2>1, <2>5 DEF UpdateTimeout, Parted, Order!vars
  <2>6. CASE Age
    <3>1. /\ DOMAIN buffer' = DOMAIN buffer
          /\ \A s \in DOMAIN buffer : buffer'[s].payload = buffer[s].payload
          /\ UNCHANGED <<next_seq, delivered>>
      BY <2>1, <2>6 DEF Age, IsBuffer, ReseqPacket
    <3>2. UNCHANGED Order!vars
      BY <3>1 DEF Order!vars
    <3>3. Parted'
      BY <2>1, <3>1 DEF Parted
    <3>. QED  BY <3>2, <3>3
  <2>7. CASE UNCHANGED vars
    BY <2>1, <2>7 DEF vars, Parted, Order!vars
  <2>. QED  BY <2>2, <2>3, <2>4, <2>5, <2>6, <2>7 DEF Next
<1>. QED  BY <1>1, <1>2

(* RefinesUnlessLate: until put stores a packet that the forced flush has made
   late, or one that replaces a buffered packet, everything resequencing/mod.rs
   does is a step of OrderedRelease; provided that the sender stops before the
   last u32 number, behind which next_seq wraps. *)
THEOREM Refinement == NoWrap => (Spec => RefinesUnlessLate)
<1>. SUFFICES ASSUME NoWrap PROVE Spec => RefinesUnlessLate
  OBVIOUS
<1>1. Init => Order!Init /\ Sequential
  BY RustAssumption DEF Init, Order!Init, Sequential, Numbers, Parted
<1>2. IInv /\ Sequential /\ [Next]_vars
        => Sequential' /\ [ReleasesInOrder]_(Order!vars)
  BY NumbersKept, StepRefines DEF Sequential
<1>. QED  BY <1>1, <1>2, Invariant, PTL DEF Spec, RefinesUnlessLate
=============================================================================
