------------------------------- MODULE Tunnel -------------------------------
(***************************************************************************)
(* The uplink: VpnClient, the network between, and the resequencer of the  *)
(* aggregator's router, which hands the commands of all sessions to the    *)
(* router's tasks.  Packets travel over several paths: what is on the wire *)
(* may arrive at any time, in any order, several times, or never.          *)
(*                                                                         *)
(* The downlink and stop are left to VpnClient's own run: all they do to   *)
(* the uplink is to end handlers early, which EndOfTry may do at any time, *)
(* and to make the last selection of a link fail, as no link online does.  *)
(***************************************************************************)
EXTENDS VpnClient

CONSTANT FlushTimeout  \* of the resequencer, in ticks

VARIABLES wire,  \* numbers, plus one, of the packets that went out
          expected_seq, heap, seen_seqs, flush_task, delivered

serverVars == <<expected_seq, heap, seen_seqs, flush_task, delivered>>
vars == <<clientVars, wire, serverVars>>

ASSUME TunnelAssumption == MaxPackets > 0 /\ FlushTimeout \in Nat \ {0}

Server == INSTANCE Resequencer WITH MaxSeq <- MaxPackets - 1, Payload <- Message

Init == ClientInit /\ wire = {} /\ Server!Init

\* handle_client_packet: the packet numbered n - 1 arrives, perhaps again.
Arrives(n) ==
    /\ n \in wire
    /\ Server!Put(n - 1, sent[n])
    /\ UNCHANGED <<clientVars, wire>>

\* A packet of h goes out, or its send fails.
Sends(h) == Transmit(h) /\ wire' \in {wire, wire \cup {sending[h]}}

Next ==
    \/ \E h \in Handler : Sends(h) /\ UNCHANGED serverVars
    \/ \E h \in Handler : Works(h) /\ UNCHANGED <<wire, serverVars>>
    \/ \E l \in Link : Toggle(l) /\ UNCHANGED <<wire, serverVars>>
    \/ \E n \in DOMAIN sent : Arrives(n)
    \/ (Server!FlushPoll \/ Server!Tick) /\ UNCHANGED <<clientVars, wire>>

\* The aggregator's event loop runs, and no path holds a packet for ever.
Fairness ==
    /\ WF_vars(Server!Tick /\ UNCHANGED <<clientVars, wire>>)
    /\ WF_vars(Server!FlushPoll /\ UNCHANGED <<clientVars, wire>>)
    /\ \A n \in 1..MaxPackets : WF_vars(n \in DOMAIN sent /\ Arrives(n))

Spec == Init /\ [][Next]_vars
FairSpec == Spec /\ Fairness

----------------------------------------------------------------------------
(* A packet that went out does not wait for ever behind one that was lost: its
   number is passed in the end, in its turn or as one that came too late. *)
NoStall ==
    \A n \in 1..MaxPackets : n \in wire ~> expected_seq >= n

(* The tunnel is a lossy first-in-first-out channel from the client's sessions
   to the router. *)
Fifo == INSTANCE LossyFifo
          WITH received <- [i \in DOMAIN delivered |->
                              [at |-> delivered[i].seq + 1,
                               msg |-> delivered[i].payload]]

ImplementsLossyFifo == Fifo!Spec
=============================================================================
