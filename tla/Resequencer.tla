---------------------------- MODULE Resequencer ----------------------------
(***************************************************************************)
(* ResequencingBuffer of aetherbond/server/receiver.py, the buffer both    *)
(* ends of the tunnel put in front of their packet handlers.  Datagrams    *)
(* arrive from several paths, so `put` is called with sequence numbers in  *)
(* any order, more than once, or not at all.                               *)
(*                                                                         *)
(* Neither critical section of the class suspends (the methods it awaits   *)
(* inside never yield), so `put` and one round of the flush task are one   *)
(* action each.  The heap is a set: seq is unique in it, as HeapSeqsUnique *)
(* says and the proofs show.  An entry's arrival_timestamp is kept as its  *)
(* age, counted up to FlushTimeout, the age at which it stops to matter.   *)
(* Ageing is an action of the environment and is not tied to the 10 ms of  *)
(* the polls: the event loop may run a poll late.                          *)
(***************************************************************************)
EXTENDS Naturals, Sequences

CONSTANTS MaxSeq,        \* largest seq of the 32-bit header field
          Payload,       \* packet contents
          FlushTimeout   \* flush_timeout, in units of Tick

ASSUME MaxSeqAssumption == MaxSeq \in Nat
ASSUME FlushTimeoutAssumption == FlushTimeout \in Nat \ {0}

SeqNo == 0..MaxSeq
Age == 0..FlushTimeout

Entry == [seq : SeqNo, payload : Payload, age : Age]
Packet == [seq : SeqNo, payload : Payload]

VARIABLES expected_seq,  \* next sequence number to hand out
          heap,          \* packets waiting for a smaller number
          seen_seqs,     \* sequence numbers of the packets in heap
          flush_task,    \* whether _flush_task is set
          delivered      \* history: what the callback received, oldest first

vars == <<expected_seq, heap, seen_seqs, flush_task, delivered>>

----------------------------------------------------------------------------
SeqsOf(H) == {p.seq : p \in H}

AsPacket(p) == [seq |-> p.seq, payload |-> p.payload]

At(H, s) == CHOOSE p \in H : p.seq = s

IsHead(H, p) == p \in H /\ \A q \in H : p.seq <= q.seq

\* The released packets are those numbered e..n-1.
Run(H, e, n) == [i \in 1..(n - e) |-> AsPacket(At(H, e + i - 1))]

Older(age) == IF age < FlushTimeout THEN age + 1 ELSE age

----------------------------------------------------------------------------
\* The packets numbered e..n-1 of heap H go to the callback; n is not in H.
PopRun(H, e, n) ==
    /\ \A s \in e..(n - 1) : s \in SeqsOf(H)
    /\ n \notin SeqsOf(H)
    /\ heap' = {p \in H : p.seq \notin e..(n - 1)}
    /\ delivered' = delivered \o Run(H, e, n)

\* Mutant: the release loop does not count.
ReleaseKeepsExpected(H, S, e) ==
    \E n \in e..(MaxSeq + 1) :
        PopRun(H, e, n) /\ expected_seq' = e /\ seen_seqs' = S \ (e..(n - 1))

\* _release_contiguous_packets_unlocked with the heap H and the set S of seen
\* numbers: pops and hands over the packets numbered e, e+1, ... up to the
\* first number n that is not there.
ReleaseContiguous(H, S, e) ==
    \E n \in e..(MaxSeq + 1) :
        PopRun(H, e, n) /\ expected_seq' = n /\ seen_seqs' = S \ (e..(n - 1))

Init ==
    /\ expected_seq = 0
    /\ heap = {}
    /\ seen_seqs = {}
    /\ flush_task = FALSE
    /\ delivered = <<>>

\* Mutant: put does not look at seen_seqs.
IsLate(seq) == seq < expected_seq

IsDuplicate(seq) == seq \in seen_seqs \/ seq < expected_seq

\* put(seq, payload)
Put(seq, payload) ==
    /\ ~ IsDuplicate(seq)
    /\ LET e == [seq |-> seq, payload |-> payload, age |-> 0]
       IN  ReleaseContiguous(heap \cup {e}, seen_seqs \cup {seq}, expected_seq)
    /\ flush_task' = (flush_task \/ heap' # {})

\* Mutant: the flush task forgets to jump.
FlushWithoutJump(head) == expected_seq

\* Where the flush task resumes: at the head it jumps to, or where it was if
\* the head turns out to be releasable already.
FlushFrom(head) ==
    IF head.seq > expected_seq THEN head.seq ELSE expected_seq

\* Mutants: the task does not look at the clock; it ends after one flush.
FlushPollEager ==
    /\ flush_task
    /\ \/ /\ heap = {}
          /\ flush_task' = FALSE
          /\ UNCHANGED <<expected_seq, heap, seen_seqs, delivered>>
       \/ /\ \E head \in heap :
               /\ IsHead(heap, head)
               /\ ReleaseContiguous(heap, seen_seqs, FlushFrom(head))
          /\ flush_task' = flush_task

FlushPollOnce ==
    /\ flush_task
    /\ flush_task' = FALSE
    /\ \/ heap = {} /\ UNCHANGED <<expected_seq, heap, seen_seqs, delivered>>
       \/ \E head \in heap :
            /\ IsHead(heap, head)
            /\ head.age >= FlushTimeout
            /\ ReleaseContiguous(heap, seen_seqs, FlushFrom(head))

\* One round of _wait_and_flush_missing, after its sleep.
FlushPoll ==
    /\ flush_task
    /\ \/ /\ heap = {}
          /\ flush_task' = FALSE
          /\ UNCHANGED <<expected_seq, heap, seen_seqs, delivered>>
       \/ \E head \in heap :
            /\ IsHead(heap, head)
            /\ \/ /\ head.seq > expected_seq
                  /\ head.age < FlushTimeout
                  /\ UNCHANGED <<expected_seq, heap, seen_seqs, delivered>>
               \/ /\ head.seq > expected_seq => head.age >= FlushTimeout
                  /\ ReleaseContiguous(heap, seen_seqs, FlushFrom(head))
            /\ flush_task' = flush_task

\* Time passes.
Tick ==
    /\ heap # {}
    /\ heap' = {[p EXCEPT !.age = Older(p.age)] : p \in heap}
    /\ UNCHANGED <<expected_seq, seen_seqs, flush_task, delivered>>

Next ==
    \/ \E seq \in SeqNo, payload \in Payload : Put(seq, payload)
    \/ FlushPoll
    \/ Tick

\* The clock advances and the event loop keeps running the flush task.
Fairness == WF_vars(Tick) /\ WF_vars(FlushPoll)

Spec == Init /\ [][Next]_vars
FairSpec == Spec /\ Fairness

----------------------------------------------------------------------------
TypeOK ==
    /\ expected_seq \in 0..(MaxSeq + 1)
    /\ heap \subseteq Entry
    /\ seen_seqs \subseteq SeqNo
    /\ flush_task \in BOOLEAN
    /\ delivered \in Seq(Packet)

(* No two packets of the heap have one number: heapq would otherwise compare
   their payloads, and the second would block the heap for good. *)
HeapSeqsUnique == \A p, q \in heap : p.seq = q.seq => p = q

(* seen_seqs, the only guard against a second copy of a buffered packet, is
   always exactly the numbers in the heap: the two are updated by different
   statements of put and of the release loop. *)
SeenMatchesHeap == seen_seqs = SeqsOf(heap)

(* Whatever was handed over is below expected_seq, so the second test of put
   refuses every late copy of it. *)
DeliveredBelowExpected ==
    \A i \in DOMAIN delivered : delivered[i].seq < expected_seq

(* The callback sees packets in strictly ascending order of sequence number:
   none out of order, none twice. *)
StrictlyOrdered ==
    \A i, j \in DOMAIN delivered : i < j => delivered[i].seq < delivered[j].seq

(* Between two steps no packet is left behind that could go out: all those in
   the heap are above expected_seq.  So a packet waits only for a missing one,
   and the "already release-able" branch of the flush task is dead code. *)
NothingReleasable == \A p \in heap : p.seq > expected_seq

(* As long as packets wait, the flush task is there to skip their gap: `put`
   and the task's own exit test never miss each other. *)
FlusherArmed == heap # {} => flush_task

(* Sequence numbers are given up only by the flush task, and only when the
   packet they block has waited for the flush timeout: a number that
   expected_seq passes has just been delivered, or was missing before a head
   that has timed out. *)
JustifiedAdvance ==
    \A s \in SeqNo :
      expected_seq <= s /\ s < expected_seq'
        => \/ \E i \in DOMAIN delivered' : delivered'[i].seq = s
           \/ \E head \in heap : /\ IsHead(heap, head)
                                 /\ head.age >= FlushTimeout
                                 /\ s < head.seq
SkipOnlyOnTimeout == [][JustifiedAdvance]_vars

(* Every packet that waits is handed over in the end: the gap before it fills
   or is skipped. *)
EventuallyReleased ==
    \A s \in SeqNo : (s \in SeqsOf(heap)) ~> (s \notin SeqsOf(heap))

(* The buffer implements OrderedRelease; its pending packets are the heap. *)
Order == INSTANCE OrderedRelease
           WITH pending <- {AsPacket(p) : p \in heap}

ImplementsOrderedRelease == Order!Spec

----------------------------------------------------------------------------
(* The invariant the proofs in ResequencerProofs use. *)
IInv ==
    /\ TypeOK
    /\ HeapSeqsUnique
    /\ SeenMatchesHeap
    /\ DeliveredBelowExpected
    /\ StrictlyOrdered
    /\ NothingReleasable
    /\ FlusherArmed
=============================================================================
