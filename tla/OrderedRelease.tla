--------------------------- MODULE OrderedRelease ---------------------------
(***************************************************************************)
(* What every resequencing buffer of AetherBond promises, whatever it does *)
(* inside: packets go in with their sequence numbers in any order and come *)
(* out at most once each, in ascending order of sequence number.  A packet *)
(* may be refused on arrival, packets may never arrive, and a gap may be   *)
(* skipped; but what was accepted is never dropped, and nothing comes out  *)
(* after a packet of a greater number.  docs: "guarantee strict            *)
(* chronological packet delivery".                                         *)
(*                                                                         *)
(* Resequencer (aetherbond/server/receiver.py) is shown to implement it;   *)
(* RustResequencer (aetherbond-core/src/resequencing/mod.rs) only up to    *)
(* the first packet that it stores late: put does after a forced flush.    *)
(***************************************************************************)
EXTENDS Naturals, Sequences, FiniteSets

CONSTANTS MaxSeq,   \* the largest sequence number a packet header can carry
          Payload   \* what packets carry

Packet == [seq : 0..MaxSeq, payload : Payload]

VARIABLES pending,    \* the packets accepted and not yet released
          delivered   \* the packets released, oldest first

vars == <<pending, delivered>>

Ascending(run) ==
    \A i, j \in DOMAIN run : i < j => run[i].seq < run[j].seq

Members(run) == {run[i] : i \in DOMAIN run}

\* Releases an ascending run of the packets in `avail` that overtakes none of
\* the packets it leaves behind.  The run may be empty.
Release(avail) ==
    \E n \in 0..Cardinality(avail) : \E run \in [1..n -> avail] :
        /\ Ascending(run)
        /\ \A left \in avail \ Members(run) : \A p \in Members(run) :
               p.seq < left.seq
        /\ delivered' = delivered \o run
        /\ pending' = avail \ Members(run)

Init == /\ pending = {}
        /\ delivered = <<>>

\* A packet whose number follows all the delivered ones, and which is not
\* pending already, comes in; whatever it makes releasable goes out with it.
Accept(p) ==
    /\ \A i \in DOMAIN delivered : delivered[i].seq < p.seq
    /\ \A q \in pending : q.seq # p.seq
    /\ Release(pending \cup {p})

\* A gap is given up: pending packets go out although numbers are missing.
Skip == Release(pending)

Next == Skip \/ \E p \in Packet : Accept(p)

Spec == Init /\ [][Next]_vars
=============================================================================
