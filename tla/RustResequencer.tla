-------------------------- MODULE RustResequencer --------------------------
(***************************************************************************)
(* Resequencer of aetherbond-core/src/resequencing/mod.rs, the data         *)
(* plane's buffer.  Unlike the Python one it is bounded (max_buffer_size),  *)
(* has no filter for duplicates of buffered packets, adapts its timeout to  *)
(* the jitter, and is driven by a caller's tick.                            *)
(*                                                                          *)
(* `&mut self` makes every method atomic.  buffer is the BTreeMap: a        *)
(* function on the buffered numbers.  A packet's timestamp is kept as its   *)
(* age, counted to one above the longest timeout.  next_seq is a u32 that   *)
(* wraps (release build) after MaxSeq.                                      *)
(***************************************************************************)
EXTENDS Naturals, Sequences, FiniteSets

CONSTANTS MaxSeq,            \* largest u32
          LastSeq,           \* bound: the largest number the sender uses
          Payload,           \* packet contents
          max_buffer_size,
          MinTimeout,        \* the limits of adaptive_timeout (15 and 250 ms),
          MaxTimeout,        \* in units of Age
          InitTimeout,       \* its first value (40 ms)
          MaxDups            \* bound: packets that replace a buffered one

ASSUME RustAssumption ==
    /\ MaxSeq \in Nat
    /\ LastSeq \in 0..MaxSeq
    /\ max_buffer_size \in Nat \ {0}
    /\ MinTimeout \in Nat /\ MaxTimeout \in Nat /\ MinTimeout <= MaxTimeout
    /\ InitTimeout \in MinTimeout..MaxTimeout
    /\ MaxDups \in Nat

VARIABLES next_seq,
          buffer,
          adaptive_timeout,
          delivered,   \* history: what the callback received
          late,        \* history: whether a packet below next_seq was stored
          dups         \* history: packets that replaced a buffered one

vars == <<next_seq, buffer, adaptive_timeout, delivered, late, dups>>

----------------------------------------------------------------------------
SeqNo == 0..MaxSeq
Packet == [seq : SeqNo, payload : Payload]
ReseqPacket == [payload : Payload, age : 0..(MaxTimeout + 1)]

IsFirst(s, B) == s \in DOMAIN B /\ \A t \in DOMAIN B : s <= t

Insert(B, s, p) == [t \in DOMAIN B \cup {s} |-> IF t = s THEN p ELSE B[t]]

\* The k numbers from e on, in u32 arithmetic, and the packets they release.
Num(e, k) == (e + k) % (MaxSeq + 1)
Span(e, k) == {Num(e, i) : i \in 0..(k - 1)}

Run(B, e, k) ==
    [i \in 1..k |-> [seq |-> Num(e, i - 1), payload |-> B[Num(e, i - 1)].payload]]

Remaining(B, e, k) == [t \in DOMAIN B \ Span(e, k) |-> B[t]]

\* flush_consecutive on B from e on removes k packets.
Flushes(B, e, k) ==
    /\ k \in 0..Cardinality(DOMAIN B)
    /\ Span(e, k) \subseteq DOMAIN B
    /\ Num(e, k) \notin DOMAIN Remaining(B, e, k)

\* flush_consecutive, as the last thing of a method that delivered `before`.
FlushConsecutive(B, e, before) ==
    \E k \in 0..Cardinality(DOMAIN B) :
        /\ Flushes(B, e, k)
        /\ next_seq' = Num(e, k)
        /\ buffer' = Remaining(B, e, k)
        /\ delivered' = before \o Run(B, e, k)

----------------------------------------------------------------------------
\* initial_seq is any number that the sender may use.
Init ==
    /\ next_seq \in 0..LastSeq
    /\ buffer = <<>>
    /\ adaptive_timeout = InitTimeout
    /\ delivered = <<>>
    /\ late = FALSE
    /\ dups = 0

\* Mutant: one packet too many fits.
IsOverFull == Cardinality(DOMAIN buffer) > max_buffer_size

IsFull == Cardinality(DOMAIN buffer) >= max_buffer_size

Fresh(payload) == [payload |-> payload, age |-> 0]

Stored(seq, B, next) ==
    /\ late' = (late \/ seq < next)
    /\ dups' = IF seq \in DOMAIN B THEN dups + 1 ELSE dups
    /\ UNCHANGED adaptive_timeout

\* put while there is room.
Put(seq, payload) ==
    /\ seq >= next_seq
    /\ ~ IsFull
    /\ FlushConsecutive(Insert(buffer, seq, Fresh(payload)), next_seq, delivered)
    /\ Stored(seq, buffer, next_seq)

\* Mutant: memory pressure drops the head.
PutDropsHead(seq, payload) ==
    /\ seq >= next_seq
    /\ IsFull
    /\ \E head \in DOMAIN buffer :
         /\ IsFirst(head, buffer)
         /\ LET rest == Remaining(buffer, head, 1)
            IN  /\ FlushConsecutive(Insert(rest, seq, Fresh(payload)), next_seq,
                                    delivered)
                /\ Stored(seq, rest, next_seq)

\* put under memory pressure: force_flush_head hands over the head and what
\* follows it; then the packet is stored, whatever its number.
PutForced(seq, payload) ==
    /\ seq >= next_seq
    /\ IsFull
    /\ \E head \in DOMAIN buffer, k \in 0..Cardinality(DOMAIN buffer) :
         /\ IsFirst(head, buffer)
         /\ Flushes(buffer, head, k)
         /\ LET rest == Remaining(buffer, head, k)
            IN  /\ FlushConsecutive(Insert(rest, seq, Fresh(payload)),
                                    Num(head, k), delivered \o Run(buffer, head, k))
                /\ Stored(seq, rest, Num(head, k))

\* Mutant: tick forgets to move next_seq to the head.
TickWithoutJump ==
    \E head \in DOMAIN buffer :
        /\ IsFirst(head, buffer)
        /\ buffer[head].age > adaptive_timeout
        /\ FlushConsecutive(buffer, next_seq, delivered)
        /\ UNCHANGED <<adaptive_timeout, late, dups>>

\* tick, when the head has waited longer than the timeout.
Tick ==
    \E head \in DOMAIN buffer :
        /\ IsFirst(head, buffer)
        /\ buffer[head].age > adaptive_timeout
        /\ FlushConsecutive(buffer, head, delivered)
        /\ UNCHANGED <<adaptive_timeout, late, dups>>

\* update_timeout: one and a half times the jitter, within the limits.
UpdateTimeout(jitter) ==
    LET scaled == (3 * jitter) \div 2
    IN  /\ adaptive_timeout' = IF scaled < MinTimeout THEN MinTimeout
                               ELSE IF scaled > MaxTimeout THEN MaxTimeout
                               ELSE scaled
        /\ UNCHANGED <<next_seq, buffer, delivered, late, dups>>

\* Time passes.
Age ==
    /\ buffer # <<>>
    /\ buffer' = [s \in DOMAIN buffer |->
         [buffer[s] EXCEPT !.age = IF @ > MaxTimeout THEN @ ELSE @ + 1]]
    /\ UNCHANGED <<next_seq, adaptive_timeout, delivered, late, dups>>

Next ==
    \/ \E seq \in 0..LastSeq, payload \in Payload :
         /\ seq \in DOMAIN buffer => dups < MaxDups
         /\ Put(seq, payload) \/ PutForced(seq, payload)
    \/ Tick
    \/ \E jitter \in 0..MaxTimeout : UpdateTimeout(jitter)
    \/ Age

\* The caller keeps calling tick, and time passes.
Fairness == WF_vars(Tick) /\ WF_vars(Age)

Spec == Init /\ [][Next]_vars
FairSpec == Spec /\ Fairness

----------------------------------------------------------------------------
TypeOK ==
    /\ next_seq \in SeqNo
    /\ DOMAIN buffer \subseteq SeqNo
    /\ \A s \in DOMAIN buffer : buffer[s] \in ReseqPacket
    /\ adaptive_timeout \in MinTimeout..MaxTimeout
    /\ delivered \in Seq(Packet)
    /\ late \in BOOLEAN
    /\ dups \in 0..MaxDups

(* The memory policy works: the buffer never holds more than max_buffer_size
   packets, although put stores the new one unconditionally. *)
BufferBounded == Cardinality(DOMAIN buffer) <= max_buffer_size

(* The buffer promises what OrderedRelease promises for every step up to the
   first late packet; a packet that replaces a buffered one of the same number
   counts as the one that was pending. *)
Order == INSTANCE OrderedRelease
           WITH pending <- {[seq |-> s, payload |-> buffer[s].payload]
                              : s \in DOMAIN buffer}

ReleasesInOrder == Order!Next \/ late' \/ dups' # dups
RefinesUnlessLate == Order!Init /\ [][ReleasesInOrder]_(Order!vars)

(* Every buffered packet is handed over in the end: ticks skip the gap before
   it, whatever the timeout is adapted to. *)
EventuallyReleased ==
    \A s \in SeqNo : (s \in DOMAIN buffer) ~> (s \notin DOMAIN buffer)
=============================================================================
