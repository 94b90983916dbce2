--------------------------- MODULE VpnClientProofs ---------------------------
(***************************************************************************)
(* Proofs about VpnClient and about the uplink it is part of, Tunnel, for  *)
(* any number of local connections, links and packets: the packets of a    *)
(* session are numbered in the order of its commands and none of its data  *)
(* is left out, a session is gone when its handler ends, a connection left *)
(* open is in the map, and what the buffer at the other end hands over is  *)
(* a LossyFifo of what was sent.                                           *)
(***************************************************************************)
EXTENDS Tunnel, TLAPS, SequenceTheorems

----------------------------------------------------------------------------
(* A handler in the second half of a send is sending a packet of its own, and
   before its CLOSE that of what it read last. *)
SendsItsOwn ==
    \A h \in Handler : pc[h] = "sending" =>
      /\ sending[h] \in DOMAIN sent
      /\ sent[sending[h]].of = h
      /\ sent[sending[h]].op # "CLOSE" => sent[sending[h]].k = reads[h]

(* How far the handler of a numbered packet has come. *)
Behind(h, p) ==
    /\ pc[h] \notin {"handshake", "refused", "replied"}
    /\ p.op # "CLOSE" => p.k <= reads[h]
    /\ p.op # "CLOSE" /\ pc[h] = "delayed" => p.k < reads[h]
    /\ p.op = "CLOSE" =>
         pc[h] = "done" \/ (pc[h] = "sending" /\ sent[sending[h]].op = "CLOSE")

(* What waits for a delay was read. *)
DelayedHasRead == \A h \in Handler : pc[h] = "delayed" => reads[h] > 0

(* The k-th command of h has its number. *)
Numbered(h, k) == \E i \in DOMAIN sent : sent[i].of = h /\ sent[i].k = k

(* What a handler has read it has numbered, but for what waits for a delay; once
   the sockets are gone it numbers nothing any more. *)
NothingSkipped ==
    \A h \in Handler :
      /\ pc[h] \in {"handshake", "replied"} => reads[h] = 0
      /\ pc[h] = "read" /\ sockets # {} => Numbered(h, reads[h])
      /\ pc[h] = "delayed" /\ sockets # {} => Numbered(h, reads[h] - 1)

HandlersAhead == \A i \in DOMAIN sent : Behind(sent[i].of, sent[i])

IInv == /\ ClientTypeOK /\ SendsItsOwn /\ HandlersAhead /\ DelayedHasRead
        /\ NothingSkipped /\ NumberedInOrder /\ NoneForgotten

----------------------------------------------------------------------------
(* What a message is made of. *)
LEMMA MessageFields ==
    /\ \A m \in Message : /\ m.of \in Handler /\ m.k \in 0..(MaxData + 1)
                          /\ m.op \in {"CONNECT", "DATA", "CLOSE"}
    /\ \A h \in Handler :
         /\ [op |-> "CONNECT", of |-> h, k |-> 0] \in Message
         /\ \A k \in 1..MaxData : [op |-> "DATA", of |-> h, k |-> k] \in Message
         /\ [op |-> "CLOSE", of |-> h, k |-> MaxData + 1] \in Message
<1>. USE ClientAssumption DEF Message, Command
<1>1. ASSUME NEW m \in Message
      PROVE  /\ m.of \in Handler /\ m.k \in 0..(MaxData + 1)
             /\ m.op \in {"CONNECT", "DATA", "CLOSE"}
  <2>1. PICK h \in Handler : m \in Command(h)
    OBVIOUS
  <2>2. CASE m = [op |-> "CONNECT", of |-> h, k |-> 0]
    BY <2>2
  <2>3. CASE \E k \in 1..MaxData : m = [op |-> "DATA", of |-> h, k |-> k]
    BY <2>3
  <2>4. CASE m = [op |-> "CLOSE", of |-> h, k |-> MaxData + 1]
    BY <2>4
  <2>. QED  BY <2>1, <2>2, <2>3, <2>4
<1>2. ASSUME NEW h \in Handler
      PROVE  /\ [op |-> "CONNECT", of |-> h, k |-> 0] \in Message
             /\ \A k \in 1..MaxData : [op |-> "DATA", of |-> h, k |-> k] \in Message
             /\ [op |-> "CLOSE", of |-> h, k |-> MaxData + 1] \in Message
  OBVIOUS
<1>. QED  BY <1>1, <1>2

(* The inductive invariant holds at first. *)
LEMMA InitIInv == ClientInit => IInv
<1>. SUFFICES ASSUME ClientInit PROVE IInv
  OBVIOUS
<1>. USE ClientAssumption DEF ClientInit
<1>1. ClientTypeOK
  BY DEF ClientTypeOK
<1>2. /\ SendsItsOwn /\ HandlersAhead /\ DelayedHasRead
      /\ NothingSkipped /\ NumberedInOrder /\ NoneForgotten
  BY DEF SendsItsOwn, HandlersAhead, DelayedHasRead, NothingSkipped, NumberedInOrder, InOrder,
         NoneForgotten
<1>. QED  BY <1>1, <1>2 DEF IInv

----------------------------------------------------------------------------
(* A packet that follows those of its handler may be numbered. *)
LEMMA NumberKeeps ==
    ASSUME IInv, NEW h \in Handler, NEW op, NEW k,
           NumberPacket(h, op, k), [op |-> op, of |-> h, k |-> k] \in Message,
           pc[h] \in {"replied", "read", "delayed", "finally"},
           \A i \in DOMAIN sent : sent[i].of = h => sent[i].k < k,
           op # "CLOSE" => k = reads'[h],
           op = "DATA" => Numbered(h, k - 1),
           reads' \in [Handler -> 0..MaxData], reads'[h] >= reads[h],
           \A g \in Handler : g # h => reads'[g] = reads[g],
           UNCHANGED <<active, sessions, local, linkVars, stop>>
    PROVE  IInv'
<1>. USE ClientAssumption
<1>. DEFINE p == [op |-> op, of |-> h, k |-> k]
            L == Len(sent)
<1>1. /\ sent' = Append(sent, p) /\ sending' = [sending EXCEPT ![h] = L + 1]
      /\ pc' = [pc EXCEPT ![h] = "sending"] /\ sent \in Seq(Message) /\ L \in Nat
      /\ DOMAIN sent = 1..L
  BY DEF IInv, ClientTypeOK, NumberPacket, Goto
<1>2. /\ sent' \in Seq(Message) /\ Len(sent') = L + 1 /\ DOMAIN sent' = 1..(L + 1)
      /\ sent'[L + 1] = p /\ \A i \in 1..L : sent'[i] = sent[i]
  BY <1>1
<1>3. p.op = op /\ p.of = h /\ p.k = k
  OBVIOUS
<1>. HIDE DEF p
<1>4. ClientTypeOK'
  BY <1>1, <1>2 DEF IInv, ClientTypeOK, linkVars
<1>5. SendsItsOwn'
  <2>. SUFFICES ASSUME NEW g \in Handler, pc'[g] = "sending"
                PROVE  /\ sending'[g] \in DOMAIN sent' /\ sent'[sending'[g]].of = g
                       /\ sent'[sending'[g]].op # "CLOSE" =>
                            sent'[sending'[g]].k = reads'[g]
    BY DEF SendsItsOwn
  <2>1. CASE g = h
    <3>1. sending'[g] = L + 1
      BY <1>1, <2>1 DEF IInv, ClientTypeOK
    <3>. QED  BY <1>1, <1>2, <1>3, <2>1, <3>1
  <2>2. CASE g # h
    <3>1. pc[g] = "sending" /\ sending'[g] = sending[g] /\ reads'[g] = reads[g]
      BY <1>1, <2>2 DEF IInv, ClientTypeOK
    <3>2. sending[g] \in DOMAIN sent /\ sent'[sending[g]] = sent[sending[g]]
      BY <1>1, <1>2, <3>1 DEF IInv, SendsItsOwn
    <3>. QED  BY <1>1, <1>2, <3>1, <3>2 DEF IInv, SendsItsOwn
  <2>. QED  BY <2>1, <2>2
<1>6. HandlersAhead'
  <2>. SUFFICES ASSUME NEW i \in 1..(L + 1)
                PROVE  Behind(sent[i].of, sent[i])'
    BY <1>2 DEF HandlersAhead
  <2>1. CASE i = L + 1
    <3>1. /\ sent'[i] = p /\ pc'[h] = "sending"
          /\ sending'[h] = i /\ sent'[sending'[h]] = p
      BY <1>1, <1>2, <2>1 DEF IInv, ClientTypeOK
    <3>. QED  BY <1>3, <3>1 DEF Behind
  <2>2. CASE i \in 1..L
    <3>1. /\ Behind(sent[i].of, sent[i]) /\ sent'[i] = sent[i] /\ sent[i] \in Message
      BY <1>1, <1>2, <2>2 DEF IInv, HandlersAhead
    <3>2. sent[i].of \in Handler /\ sent[i].k \in Nat
      BY <3>1, MessageFields
    <3>3. CASE sent[i].of = h
      <4>1. sent[i].op # "CLOSE"
        BY <3>1, <3>3 DEF Behind
      <4>2. /\ pc'[h] = "sending" /\ reads[h] \in Nat /\ reads'[h] \in Nat
            /\ sent[i].k <= reads[h]
        BY <1>1, <3>1, <3>3, <4>1 DEF IInv, ClientTypeOK, Behind
      <4>3. sent[i].k <= reads'[h]
        BY <3>2, <4>2
      <4>. QED  BY <3>1, <3>3, <4>1, <4>2, <4>3 DEF Behind
    <3>4. CASE sent[i].of # h
      <4>1. LET g == sent[i].of
            IN  /\ pc'[g] = pc[g] /\ reads'[g] = reads[g] /\ sending'[g] = sending[g]
                /\ pc[g] = "sending" => sent'[sending'[g]] = sent[sending[g]]
        BY <1>1, <1>2, <3>2, <3>4 DEF IInv, ClientTypeOK, SendsItsOwn
      <4>. QED  BY <3>1, <4>1 DEF Behind
    <3>. QED  BY <3>3, <3>4
  <2>. QED  BY <1>1, <2>1, <2>2
<1>7. InOrder'
  <2>. SUFFICES ASSUME NEW i \in 1..(L + 1), NEW j \in 1..(L + 1),
                       i < j, sent'[i].of = sent'[j].of
                PROVE  sent'[i].k < sent'[j].k
    BY <1>2 DEF InOrder
  <2>1. CASE j = L + 1
    <3>1. i \in 1..L /\ sent'[i] = sent[i] /\ sent'[j] = p
      BY <1>1, <1>2, <2>1
    <3>. QED  BY <1>1, <1>3, <3>1
  <2>2. CASE j \in 1..L
    <3>1. i \in DOMAIN sent /\ j \in DOMAIN sent
      BY <1>1, <2>2
    <3>2. sent'[i] = sent[i] /\ sent'[j] = sent[j]
      BY <1>1, <1>2, <3>1
    <3>. QED  BY <3>1, <3>2 DEF IInv, NumberedInOrder, InOrder
  <2>3. L \in Nat
    BY <1>1
  <2>. HIDE DEF L
  <2>4. j = L + 1 \/ j \in 1..L
    BY <2>3
  <2>. QED  BY <2>1, <2>2, <2>4
<1>8. ASSUME NEW i \in DOMAIN sent', sent'[i].op = "DATA" PROVE Preceded(i)'
  <2>1. CASE i = L + 1
    <3>1. PICK j \in DOMAIN sent : sent[j].of = h /\ sent[j].k = k - 1
      BY <1>2, <1>3, <1>8, <2>1 DEF Numbered
    <3>2. j \in DOMAIN sent' /\ j < i /\ sent'[j] = sent[j] /\ sent'[i] = p
      BY <1>1, <1>2, <2>1, <3>1
    <3>. QED  BY <1>3, <3>1, <3>2 DEF Preceded
  <2>2. CASE i \in DOMAIN sent
    <3>1. sent'[i] = sent[i] /\ Preceded(i)
      BY <1>1, <1>2, <1>8, <2>2 DEF IInv, NumberedInOrder
    <3>2. PICK j \in DOMAIN sent :
                 j < i /\ sent[j].of = sent[i].of /\ sent[j].k = sent[i].k - 1
      BY <3>1 DEF Preceded
    <3>3. j \in DOMAIN sent' /\ sent'[j] = sent[j]
      BY <1>1, <1>2
    <3>. QED  BY <3>1, <3>2, <3>3 DEF Preceded
  <2>. QED  BY <1>1, <1>2, <2>1, <2>2
<1>9. NumberedInOrder'
  BY <1>7, <1>8 DEF NumberedInOrder
<1>10. NoneForgotten' /\ DelayedHasRead'
  BY <1>1 DEF IInv, ClientTypeOK, NoneForgotten, DelayedHasRead
<1>11. NothingSkipped'
  <2>1. ASSUME NEW g \in Handler, NEW c, Numbered(g, c) PROVE Numbered(g, c)'
    <3>1. PICK i \in DOMAIN sent : sent[i].of = g /\ sent[i].k = c
      BY <2>1 DEF Numbered
    <3>2. i \in DOMAIN sent' /\ sent'[i] = sent[i]
      BY <1>1, <1>2
    <3>. QED  BY <3>1, <3>2 DEF Numbered
  <2>2. sockets' = sockets
    BY DEF linkVars
  <2>3. ASSUME NEW g \in Handler
        PROVE  g = h \/ (pc'[g] = pc[g] /\ reads'[g] = reads[g])
    BY <1>1 DEF IInv, ClientTypeOK
  <2>4. pc'[h] = "sending"
    BY <1>1 DEF IInv, ClientTypeOK
  <2>. QED  BY <2>1, <2>2, <2>3, <2>4 DEF IInv, NothingSkipped
<1>. QED  BY <1>4, <1>5, <1>6, <1>9, <1>10, <1>11 DEF IInv

(* A step that numbers nothing, of handler h if of any: where it leads the
   handler and what it does to the sessions and to what was read. *)
LEMMA QuietKeeps ==
    ASSUME IInv, NEW h \in Handler, ClientTypeOK', UNCHANGED <<sent, sending, sockets>>,
           \A g \in Handler : g # h => pc'[g] = pc[g] /\ reads'[g] = reads[g],
           \/ pc'[h] = pc[h] /\ reads'[h] = reads[h]
           \/ /\ pc[h] = "handshake" /\ pc'[h] = "refused"
              /\ h \notin sessions'
           \/ pc[h] = "handshake" /\ pc'[h] = "replied" /\ reads'[h] = reads[h]
           \/ /\ pc[h] \in {"replied", "read", "delayed"} /\ pc'[h] = "finally"
              /\ reads'[h] = reads[h]
           \/ /\ pc[h] = "delayed" /\ pc'[h] \in {"read", "finally"} /\ sockets = {}
              /\ reads'[h] = reads[h]
           \/ pc[h] = "read" /\ pc'[h] = "delayed" /\ reads'[h] = reads[h] + 1
           \/ pc[h] = "finally" /\ pc'[h] = "leaked" /\ reads'[h] = reads[h],
           \A g \in sessions' : g \in sessions \/ (g = h /\ pc'[h] = "replied")
    PROVE  IInv'
<1>. USE ClientAssumption
<1>1. SendsItsOwn'
  BY DEF IInv, ClientTypeOK, SendsItsOwn
<1>2. HandlersAhead'
  <2>. SUFFICES ASSUME NEW i \in DOMAIN sent
                PROVE  Behind(sent[i].of, sent[i])'
    BY DEF HandlersAhead
  <2>1. sent[i] \in Message /\ Behind(sent[i].of, sent[i])
    BY DEF IInv, ClientTypeOK, HandlersAhead
  <2>2. sent[i].of \in Handler /\ sent[i].k \in Nat
    BY <2>1, MessageFields
  <2>3. CASE sent[i].of = h
    BY <2>1, <2>2, <2>3 DEF IInv, ClientTypeOK, Behind
  <2>4. CASE sent[i].of # h
    BY <2>1, <2>2, <2>4 DEF Behind
  <2>. QED  BY <2>3, <2>4
<1>3. NumberedInOrder'
  BY DEF IInv, NumberedInOrder, InOrder, Preceded
<1>5. NoneForgotten'
  BY DEF IInv, ClientTypeOK, NoneForgotten
<1>6. NothingSkipped'
  <2>. SUFFICES ASSUME NEW g \in Handler
                PROVE  /\ pc'[g] \in {"handshake", "replied"} => reads'[g] = 0
                       /\ pc'[g] = "read" /\ sockets # {} => Numbered(g, reads'[g])
                       /\ pc'[g] = "delayed" /\ sockets # {} => Numbered(g, reads'[g] - 1)
    BY DEF NothingSkipped, Numbered
  <2>1. /\ pc[g] \in {"handshake", "replied"} => reads[g] = 0
        /\ pc[g] = "read" /\ sockets # {} => Numbered(g, reads[g])
        /\ pc[g] = "delayed" /\ sockets # {} => Numbered(g, reads[g] - 1)
    BY DEF IInv, NothingSkipped
  <2>2. reads[g] \in Nat /\ (reads[g] + 1) - 1 = reads[g]
    BY DEF IInv, ClientTypeOK
  <2>3. CASE g # h
    BY <2>1, <2>3
  <2>4. CASE g = h
    <3>1. CASE pc'[h] = pc[h] /\ reads'[h] = reads[h]
      BY <2>1, <2>4, <3>1
    <3>2. CASE pc'[h] \notin {"handshake", "replied", "read", "delayed"}
      BY <2>4, <3>2
    <3>3. CASE pc[h] = "handshake" /\ pc'[h] = "replied" /\ reads'[h] = reads[h]
      BY <2>1, <2>4, <3>3
    <3>4. CASE pc'[h] = "read" /\ sockets = {}
      BY <2>4, <3>4
    <3>5. CASE pc[h] = "read" /\ pc'[h] = "delayed" /\ reads'[h] = reads[h] + 1
      BY <2>1, <2>2, <2>4, <3>5
    <3>. QED  BY <3>1, <3>2, <3>3, <3>4, <3>5
  <2>. QED  BY <2>3, <2>4
<1>4. DelayedHasRead'
  <2>. SUFFICES ASSUME NEW g \in Handler, pc'[g] = "delayed" PROVE reads'[g] > 0
    BY DEF DelayedHasRead
  <2>1. reads[g] \in Nat
    BY DEF IInv, ClientTypeOK
  <2>2. CASE pc[g] = "delayed" /\ reads'[g] = reads[g]
    BY <2>2 DEF IInv, DelayedHasRead
  <2>3. CASE reads'[g] = reads[g] + 1
    BY <2>1, <2>3
  <2>4. (pc[g] = "delayed" /\ reads'[g] = reads[g]) \/ reads'[g] = reads[g] + 1
    <3>1. CASE g = h
      BY <3>1
    <3>2. CASE g # h
      BY <3>2
    <3>. QED  BY <3>1, <3>2
  <2>. QED  BY <2>2, <2>3, <2>4
<1>. QED  BY <1>1, <1>2, <1>3, <1>4, <1>5, <1>6 DEF IInv

----------------------------------------------------------------------------
(* The packets a handler has numbered before. *)
LEMMA EarlierPackets ==
    ASSUME IInv, NEW h \in Handler, NEW i \in DOMAIN sent, sent[i].of = h,
           pc[h] \in {"replied", "read", "delayed", "finally"}
    PROVE  /\ pc[h] # "replied" /\ sent[i].k \in Nat /\ sent[i].k <= reads[h]
           /\ pc[h] = "delayed" => sent[i].k < reads[h]
<1>1. sent[i] \in Message /\ Behind(h, sent[i])
  BY DEF IInv, ClientTypeOK, HandlersAhead
<1>2. sent[i].k \in Nat
  BY <1>1, MessageFields, ClientAssumption
<1>. QED  BY <1>1, <1>2 DEF Behind

(* Each step of a handler's own code up to its finally block. *)
LEMMA WorkKeeps ==
    ASSUME IInv, NEW h \in Handler, Works(h)
    PROVE  IInv'
<1>. USE ClientAssumption
<1>0. ClientTypeOK /\ reads[h] \in 0..MaxData
  BY DEF IInv, ClientTypeOK
<1>1. CASE Refuse(h)
  <2>1. ClientTypeOK' /\ h \notin sessions'
    BY <1>0, <1>1 DEF Refuse, ClientTypeOK, Goto, CloseLocal, AfterClose, linkVars, IInv,
                      NoneForgotten
  <2>2. /\ UNCHANGED <<sent, sending, sockets>> /\ UNCHANGED <<sessions, reads>>
        /\ pc[h] = "handshake" /\ pc' = [pc EXCEPT ![h] = "refused"]
    BY <1>1 DEF Refuse, Goto, linkVars
  <2>3. /\ pc'[h] = "refused"
        /\ \A g \in Handler : g # h => pc'[g] = pc[g] /\ reads'[g] = reads[g]
    BY <1>0, <2>2 DEF ClientTypeOK
  <2>. QED  BY <2>1, <2>2, <2>3, QuietKeeps
<1>2. CASE Open(h)
  <2>1. ClientTypeOK'
    BY <1>0, <1>2 DEF Open, ClientTypeOK, Goto, linkVars
  <2>. QED  BY <1>0, <1>2, <2>1, QuietKeeps DEF Open, Goto, ClientTypeOK, linkVars
<1>3. CASE SendConnect(h)
  <2>1. \A i \in DOMAIN sent : sent[i].of = h => sent[i].k < 0
    BY <1>3, EarlierPackets DEF SendConnect
  <2>2. [op |-> "CONNECT", of |-> h, k |-> 0] \in Message
    BY MessageFields
  <2>3. /\ reads' = reads /\ reads \in [Handler -> 0..MaxData] /\ reads[h] >= 0
        /\ pc[h] = "replied" /\ NumberPacket(h, "CONNECT", 0)
        /\ UNCHANGED <<active, sessions, local, linkVars, stop>>
    BY <1>0, <1>3 DEF SendConnect, ClientTypeOK
  <2>4. reads[h] >= reads[h]
    BY <1>0
  <2>5. reads[h] = 0
    BY <2>3 DEF IInv, NothingSkipped
  <2>. QED  BY <2>1, <2>2, <2>3, <2>4, <2>5, NumberKeeps
<1>4. CASE ReadData(h)
  <2>1. /\ reads' \in [Handler -> 0..MaxData] /\ reads'[h] = reads[h] + 1
        /\ \A g \in Handler : g # h => reads'[g] = reads[g]
    BY <1>0, <1>4 DEF ReadData, ClientTypeOK
  <2>4. reads[h] + 1 \in 1..MaxData
    BY <1>0, <1>4 DEF ReadData
  <2>2. CASE NumberPacket(h, "DATA", reads[h] + 1)
    <3>1. \A i \in DOMAIN sent : sent[i].of = h => sent[i].k < reads[h] + 1
      BY <1>0, <1>4, EarlierPackets DEF ReadData
    <3>2. [op |-> "DATA", of |-> h, k |-> reads[h] + 1] \in Message
      BY <2>4, MessageFields
    <3>3. Numbered(h, reads[h]) /\ (reads[h] + 1) - 1 = reads[h]
      BY <1>0, <1>4 DEF ReadData, Selects, IInv, NothingSkipped
    <3>. QED  BY <1>0, <1>4, <2>1, <2>2, <3>1, <3>2, <3>3, NumberKeeps DEF ReadData
  <2>3. CASE Goto(h, "delayed") /\ UNCHANGED <<sent, sending>>
    <3>1. ClientTypeOK'
      BY <1>0, <1>4, <2>1, <2>3 DEF ReadData, ClientTypeOK, Goto, linkVars
    <3>2. /\ UNCHANGED <<sent, sending, sockets>> /\ sessions' = sessions
          /\ pc[h] = "read" /\ pc' = [pc EXCEPT ![h] = "delayed"]
      BY <1>4, <2>3 DEF ReadData, Goto, linkVars
    <3>3. pc'[h] = "delayed" /\ \A g \in Handler : g # h => pc'[g] = pc[g]
      BY <1>0, <3>2 DEF ClientTypeOK
    <3>. QED  BY <2>1, <3>1, <3>2, <3>3, QuietKeeps
  <2>. QED  BY <1>4, <2>2, <2>3 DEF ReadData
<1>5. CASE SendDelayed(h)
  <2>0. reads[h] \in 1..MaxData /\ reads[h] >= reads[h]
    BY <1>0, <1>5 DEF SendDelayed, IInv, DelayedHasRead
  <2>1. CASE sockets # {} /\ NumberPacket(h, "DATA", reads[h])
    <3>1. \A i \in DOMAIN sent : sent[i].of = h => sent[i].k < reads[h]
      BY <1>5, EarlierPackets DEF SendDelayed
    <3>2. [op |-> "DATA", of |-> h, k |-> reads[h]] \in Message
      BY <2>0, MessageFields
    <3>3. /\ reads' = reads /\ reads \in [Handler -> 0..MaxData] /\ pc[h] = "delayed"
          /\ UNCHANGED <<active, sessions, local, linkVars, stop>>
      BY <1>0, <1>5 DEF SendDelayed, ClientTypeOK
    <3>4. Numbered(h, reads[h] - 1)
      BY <2>1, <3>3 DEF IInv, NothingSkipped
    <3>. QED  BY <2>0, <2>1, <3>1, <3>2, <3>3, <3>4, NumberKeeps
  <2>2. CASE sockets = {} /\ Goto(h, LoopHead(h)) /\ UNCHANGED <<sent, sending>>
    <3>1. LoopHead(h) \in {"read", "finally"}
      BY DEF LoopHead
    <3>2. ClientTypeOK'
      BY <1>0, <1>5, <2>2, <3>1 DEF SendDelayed, ClientTypeOK, Goto, linkVars
    <3>3. /\ UNCHANGED <<sent, sending, sockets>> /\ UNCHANGED <<sessions, reads>>
          /\ pc[h] = "delayed" /\ pc' = [pc EXCEPT ![h] = LoopHead(h)]
      BY <1>5, <2>2 DEF SendDelayed, Goto, linkVars
    <3>4. /\ pc'[h] \in {"read", "finally"} /\ sockets = {}
          /\ \A g \in Handler : g # h => pc'[g] = pc[g] /\ reads'[g] = reads[g]
      BY <1>0, <2>2, <3>1, <3>3 DEF ClientTypeOK
    <3>. QED  BY <3>2, <3>3, <3>4, QuietKeeps
  <2>. QED  BY <1>5, <2>1, <2>2 DEF SendDelayed
<1>6. CASE EndOfTry(h)
  <2>1. ClientTypeOK'
    BY <1>0, <1>6 DEF EndOfTry, ClientTypeOK, Goto, linkVars
  <2>. QED  BY <1>0, <1>6, <2>1, QuietKeeps DEF EndOfTry, Goto, ClientTypeOK, linkVars
<1>7. CASE Finish(h)
  <2>1. CASE NumberPacket(h, "CLOSE", MaxData + 1)
    <3>1. \A i \in DOMAIN sent : sent[i].of = h => sent[i].k < MaxData + 1
      BY <1>0, <1>7, EarlierPackets DEF Finish
    <3>2. [op |-> "CLOSE", of |-> h, k |-> MaxData + 1] \in Message
      BY MessageFields
    <3>3. /\ reads' = reads /\ reads \in [Handler -> 0..MaxData] /\ reads[h] >= reads[h]
          /\ pc[h] = "finally" /\ UNCHANGED <<active, sessions, local, linkVars, stop>>
      BY <1>0, <1>7 DEF Finish, ClientTypeOK
    <3>. QED  BY <2>1, <3>1, <3>2, <3>3, NumberKeeps
  <2>2. CASE Goto(h, "leaked") /\ UNCHANGED <<sent, sending>>
    <3>1. ClientTypeOK'
      BY <1>0, <1>7, <2>2 DEF Finish, ClientTypeOK, Goto, linkVars
    <3>2. /\ UNCHANGED <<sent, sending, sockets>> /\ UNCHANGED <<sessions, reads>>
          /\ pc[h] = "finally" /\ pc' = [pc EXCEPT ![h] = "leaked"]
      BY <1>7, <2>2 DEF Finish, Goto, linkVars
    <3>3. /\ pc'[h] = "leaked"
          /\ \A g \in Handler : g # h => pc'[g] = pc[g] /\ reads'[g] = reads[g]
      BY <1>0, <3>2 DEF ClientTypeOK
    <3>. QED  BY <3>1, <3>2, <3>3, QuietKeeps
  <2>. QED  BY <1>7, <2>1, <2>2 DEF Finish
<1>. QED  BY <1>1, <1>2, <1>3, <1>4, <1>5, <1>6, <1>7 DEF Works

(* A CLOSE that was sent ends its handler; any other packet, and the handler
   goes back to its loop or on to its finally block. *)
LEMMA TransmitKeeps ==
    ASSUME IInv, NEW h \in Handler, Transmit(h)
    PROVE  IInv'
<1>. USE ClientAssumption
<1>1. /\ sending[h] \in DOMAIN sent /\ sent[sending[h]].of = h
      /\ sent' = sent /\ sending' = [sending EXCEPT ![h] = 0]
      /\ pc[h] = "sending" /\ UNCHANGED <<active, reads, linkVars, stop>>
      /\ sent[sending[h]].op # "CLOSE" => sent[sending[h]].k = reads[h]
  BY DEF IInv, SendsItsOwn, Transmit
<1>2. \/ /\ sent[sending[h]].op = "CLOSE" /\ sessions' = sessions \ {h}
         /\ pc' = [pc EXCEPT ![h] = "done"] /\ CloseLocal({h})
      \/ /\ sent[sending[h]].op # "CLOSE" /\ sessions' = sessions /\ local' = local
         /\ \E l \in {"read", "finally"} : pc' = [pc EXCEPT ![h] = l]
  BY DEF Transmit, Goto, LoopHead
<1>3. ClientTypeOK'
  <2>1. pc' \in [Handler -> {"handshake", "replied", "read", "delayed", "sending",
                             "finally", "refused", "done", "leaked"}]
    BY <1>2 DEF IInv, ClientTypeOK
  <2>2. sending' \in [Handler -> 0..Len(sent)] /\ sessions' \subseteq Handler
    BY <1>1, <1>2 DEF IInv, ClientTypeOK
  <2>3. local' \in [Handler -> {"open", "backlog", "flushing", "lost"}]
    <3>1. local' = local \/ CloseLocal({h})
      BY <1>2
    <3>2. local \in [Handler -> {"open", "backlog", "flushing", "lost"}]
      BY DEF IInv, ClientTypeOK
    <3>. QED  BY <3>1, <3>2 DEF CloseLocal, AfterClose
  <2>. QED  BY <1>1, <2>1, <2>2, <2>3 DEF IInv, ClientTypeOK, linkVars
<1>4. SendsItsOwn'
  BY <1>1, <1>2 DEF IInv, ClientTypeOK, SendsItsOwn
<1>5. HandlersAhead'
  <2>. SUFFICES ASSUME NEW i \in DOMAIN sent
                PROVE  Behind(sent[i].of, sent[i])'
    BY <1>1 DEF HandlersAhead
  <2>1. sent[i] \in Message /\ Behind(sent[i].of, sent[i])
    BY DEF IInv, ClientTypeOK, HandlersAhead
  <2>2. sent[i].of \in Handler /\ sent[i].k \in Nat
    BY <2>1, MessageFields
  <2>3. CASE sent[i].of = h
    BY <1>1, <1>2, <2>1, <2>2, <2>3 DEF IInv, ClientTypeOK, Behind
  <2>4. CASE sent[i].of # h
    BY <1>1, <1>2, <2>1, <2>2, <2>4 DEF IInv, ClientTypeOK, Behind
  <2>. QED  BY <2>3, <2>4
<1>6. NumberedInOrder'
  BY <1>1 DEF IInv, NumberedInOrder, InOrder, Preceded
<1>7. NoneForgotten' /\ DelayedHasRead'
  BY <1>1, <1>2 DEF IInv, ClientTypeOK, NoneForgotten, DelayedHasRead
<1>8. NothingSkipped'
  <2>1. sent[sending[h]].op # "CLOSE" => Numbered(h, reads[h])
    BY <1>1 DEF Numbered
  <2>2. \A g \in Handler : g # h => pc'[g] = pc[g]
    BY <1>2 DEF IInv, ClientTypeOK
  <2>3. /\ pc'[h] \in {"read", "finally", "done"}
        /\ pc'[h] = "read" => sent[sending[h]].op # "CLOSE"
    BY <1>2 DEF IInv, ClientTypeOK
  <2>4. UNCHANGED <<sent, reads, sockets>>
    BY <1>1 DEF linkVars
  <2>. QED  BY <2>1, <2>2, <2>3, <2>4 DEF IInv, NothingSkipped, Numbered
<1>. QED  BY <1>3, <1>4, <1>5, <1>6, <1>7, <1>8 DEF IInv

(* Every step keeps it. *)
LEMMA NextIInv == IInv /\ [ClientNext]_clientVars => IInv'
<1>. SUFFICES ASSUME IInv, [ClientNext]_clientVars PROVE IInv'
  OBVIOUS
<1>. USE ClientAssumption
<1>same. ASSUME ClientTypeOK', UNCHANGED <<pc, reads, sent, sending>>,
                sessions' \subseteq sessions, sockets' \in {sockets, {}}
         PROVE  IInv'
  <2>1. SendsItsOwn' /\ HandlersAhead' /\ DelayedHasRead' /\ NumberedInOrder' /\ NoneForgotten'
    BY <1>same DEF IInv, SendsItsOwn, HandlersAhead, Behind, NumberedInOrder, InOrder, Preceded,
                   DelayedHasRead, NoneForgotten
  <2>2. NothingSkipped'
    BY <1>same DEF IInv, NothingSkipped, Numbered
  <2>. QED  BY <1>same, <2>1, <2>2 DEF IInv
<1>closed. ASSUME NEW H, CloseLocal(H)
           PROVE  local' \in [Handler -> {"open", "backlog", "flushing", "lost"}]
  BY <1>closed DEF IInv, ClientTypeOK, CloseLocal, AfterClose
<1>. USE DEF IInv, ClientTypeOK, linkVars
<1>1. ASSUME NEW h \in Handler, Works(h) \/ Transmit(h) PROVE IInv'
  BY <1>1, WorkKeeps, TransmitKeeps
<1>2. ASSUME NEW h \in Handler, ServerClose(h) PROVE IInv'
  BY <1>2, <1>same, <1>closed DEF ServerClose
<1>3. ASSUME NEW h \in Handler, WriteFails(h) PROVE IInv'
  BY <1>3, <1>same DEF WriteFails
<1>4. ASSUME NEW h \in Handler, WriteQueues(h) \/ ProgramTakes(h) \/ ProgramGone(h) PROVE IInv'
  BY <1>4, <1>same DEF WriteQueues, ProgramTakes, ProgramGone, Local
<1>5. CASE StopCloses
  BY <1>5, <1>same, <1>closed DEF StopCloses
<1>6. ASSUME NEW l \in Link, Toggle(l) PROVE IInv'
  BY <1>6, <1>same DEF Toggle
<1>7. CASE UNCHANGED clientVars
  BY <1>7, <1>same DEF clientVars
<1>. QED  BY <1>1, <1>2, <1>3, <1>4, <1>5, <1>6, <1>7 DEF ClientNext

(* IInv holds in every reachable state. *)
THEOREM Invariant == ClientSpec => []IInv
<1>. QED  BY InitIInv, NextIInv, PTL DEF ClientSpec

(* The variables keep their types. *)
THEOREM TypeCorrect == ClientSpec => []ClientTypeOK
<1>1. IInv => ClientTypeOK
  BY DEF IInv
<1>. QED  BY <1>1, Invariant, PTL

(* NumberedInOrder: vpn.py numbers the CONNECT, the data and the CLOSE of a
   session in this order and leaves out none of the data before others, although
   its sends wait and others send meanwhile. *)
THEOREM NumberedTheorem == ClientSpec => []NumberedInOrder
<1>1. IInv => NumberedInOrder
  BY DEF IInv
<1>. QED  BY <1>1, Invariant, PTL

(* NoneForgotten: a handler that has ended left no session in the map, unless
   its finally block raised. *)
THEOREM ForgottenTheorem == ClientSpec => []NoneForgotten
<1>1. IInv => NoneForgotten
  BY DEF IInv
<1>. QED  BY <1>1, Invariant, PTL

(* Every step keeps an open connection in the map: a handler takes its session
   out only when it closes its writer, and so do the server's CLOSE and stop. *)
LEMMA StrandedKeeps ==
    ASSUME ClientTypeOK, NoneStranded, [ClientNext]_clientVars
    PROVE  NoneStranded'
<1>. USE ClientAssumption DEF ClientTypeOK, NoneStranded
<1>same. ASSUME UNCHANGED <<sessions, local>>,
                \A g \in Handler : pc[g] = "handshake" => pc'[g] = "handshake"
         PROVE  NoneStranded'
  BY <1>same
<1>closes. ASSUME NEW H \in SUBSET Handler, CloseLocal(H), sessions' = sessions \ H,
                  \A g \in Handler \ H : pc'[g] = pc[g]
           PROVE  NoneStranded'
  BY <1>closes DEF CloseLocal, AfterClose
<1>local. ASSUME NEW h \in Handler, NEW c \in {"open", "backlog", "flushing", "lost"},
                 Local(h, c), c \in {"open", "backlog"} => local[h] \in {"open", "backlog"}
          PROVE  NoneStranded'
  BY <1>local DEF Local
<1>1. ASSUME NEW h \in Handler, Refuse(h) PROVE NoneStranded'
  BY <1>1 DEF Refuse, Goto, CloseLocal, AfterClose
<1>2. ASSUME NEW h \in Handler, Open(h) PROVE NoneStranded'
  BY <1>2 DEF Open, Goto
<1>3. ASSUME NEW h \in Handler, SendConnect(h) \/ ReadData(h) PROVE NoneStranded'
  BY <1>3, <1>same DEF SendConnect, ReadData, NumberPacket, Goto
<1>4. ASSUME NEW h \in Handler, SendDelayed(h) \/ EndOfTry(h) \/ Finish(h) PROVE NoneStranded'
  BY <1>4, <1>same DEF SendDelayed, EndOfTry, Finish, NumberPacket, Goto
<1>5. ASSUME NEW h \in Handler, Transmit(h) PROVE NoneStranded'
  <2>1. CASE sent[sending[h]].op = "CLOSE"
    BY <1>5, <1>closes, <2>1 DEF Transmit, Goto
  <2>2. CASE sent[sending[h]].op # "CLOSE"
    BY <1>5, <1>same, <2>2 DEF Transmit, Goto
  <2>. QED  BY <2>1, <2>2
<1>6. ASSUME NEW h \in Handler, ServerClose(h) PROVE NoneStranded'
  BY <1>6, <1>closes DEF ServerClose
<1>7. ASSUME NEW h \in Handler, WriteFails(h) PROVE NoneStranded'
  BY <1>7, <1>same DEF WriteFails
<1>8. ASSUME NEW h \in Handler, WriteQueues(h) \/ ProgramTakes(h) \/ ProgramGone(h)
      PROVE  NoneStranded'
  BY <1>8, <1>local DEF WriteQueues, ProgramTakes, ProgramGone
<1>9. CASE StopCloses
  <2>1. sessions' = sessions \ sessions
    BY <1>9 DEF StopCloses
  <2>. QED  BY <1>9, <1>closes, <2>1 DEF StopCloses
<1>10. ASSUME NEW l \in Link, Toggle(l) PROVE NoneStranded'
  BY <1>10, <1>same DEF Toggle
<1>11. CASE UNCHANGED clientVars
  BY <1>11, <1>same DEF clientVars
<1>. QED  BY <1>1, <1>2, <1>3, <1>4, <1>5, <1>6, <1>7, <1>8, <1>9, <1>10, <1>11
          DEF ClientNext, Works

(* NoneStranded: a local connection that vpn.py has not closed has its session in
   the map, also that of a handler whose finally block raised. *)
THEOREM StrandedTheorem == ClientSpec => []NoneStranded
<1>1. ClientInit => NoneStranded
  BY DEF ClientInit, NoneStranded
<1>2. ClientTypeOK /\ NoneStranded /\ [ClientNext]_clientVars => NoneStranded'
  BY StrandedKeeps
<1>. QED  BY <1>1, <1>2, TypeCorrect, PTL DEF ClientSpec

----------------------------------------------------------------------------
(***************************************************************************)
(* Tunnel implements LossyFifo: what the buffer of the aggregator holds    *)
(* and has handed over are messages of the client, at their places.        *)
(***************************************************************************)
\* The buffer holds nothing below expected_seq and handed over nothing above.
AboveExpected == \A p \in heap : p.seq >= expected_seq
DeliveredBelow == \A i \in DOMAIN delivered : delivered[i].seq < expected_seq

\* What waits in H is what was sent under its number.
IsSent(H) == \A p \in H : p.seq + 1 \in DOMAIN sent /\ p.payload = sent[p.seq + 1]

Kept == /\ Len(sent) <= MaxPackets /\ expected_seq \in 0..Len(sent)
        /\ heap \subseteq Server!Entry /\ delivered \in Seq(Server!Packet)
        /\ AboveExpected /\ DeliveredBelow /\ IsSent(heap)

TunnelInv == IInv /\ Kept

\* The run of k messages that follow the first e.
MessagesFrom(e, k) == [i \in 1..k |-> [at |-> e + i, msg |-> sent[e + i]]]

\* What LossyFifo sees of a sequence of packets.
Received(d) == [i \in DOMAIN d |-> [at |-> d[i].seq + 1, msg |-> d[i].payload]]

\* R carries the k messages that follow the first e.
CarriesSent(R, e, k) ==
    /\ R \in Seq(Server!Packet) /\ Len(R) = k
    /\ \A i \in 1..k : /\ R[i].seq = e + i - 1
                      /\ R[i].payload = sent[e + i]
                      /\ e + i \in DOMAIN sent

(* What the release loop hands over are the messages sent at those places. *)
LEMMA RunIsSent ==
    ASSUME NEW H, H \subseteq Server!Entry, IsSent(H),
           NEW e \in Nat, NEW n \in Nat, e <= n,
           \A s \in e..(n - 1) : s \in Server!SeqsOf(H)
    PROVE  CarriesSent(Server!Run(H, e, n), e, n - e)
<1>. DEFINE R == Server!Run(H, e, n)
<1>1. ASSUME NEW i \in 1..(n - e)
      PROVE  LET p == Server!At(H, e + i - 1)
             IN  p \in H /\ p.seq = e + i - 1
  <2>1. e + i - 1 \in e..(n - 1)
    OBVIOUS
  <2>2. \E p \in H : p.seq = e + i - 1
    BY <2>1 DEF Server!SeqsOf
  <2>. QED  BY <2>2 DEF Server!At
<1>2. ASSUME NEW i \in 1..(n - e)
      PROVE  LET q == Server!AsPacket(Server!At(H, e + i - 1))
             IN  /\ q \in Server!Packet
                 /\ q.seq = e + i - 1
                 /\ q.payload = sent[e + i]
                 /\ e + i \in DOMAIN sent
  <2>. DEFINE p == Server!At(H, e + i - 1)
  <2>1. p \in H /\ p.seq = e + i - 1
    BY <1>1
  <2>. HIDE DEF p
  <2>2. p.seq + 1 = e + i
    BY <2>1
  <2>3. p.payload = sent[e + i] /\ e + i \in DOMAIN sent
    BY <2>1, <2>2 DEF IsSent
  <2>4. Server!AsPacket(p) \in Server!Packet
    BY <2>1 DEF Server!AsPacket, Server!Packet, Server!Entry
  <2>. QED  BY <2>1, <2>3, <2>4 DEF Server!AsPacket, p
<1>3. R \in [1..(n - e) -> Server!Packet]
  BY <1>2 DEF Server!Run
<1>4. n - e \in Nat
  OBVIOUS
<1>5. R \in Seq(Server!Packet) /\ Len(R) = n - e
  BY <1>3, <1>4
<1>. QED  BY <1>2, <1>5 DEF Server!Run, CarriesSent

(* A release of the buffer is a Receive of LossyFifo, and leaves it holding
   what was sent. *)
LEMMA ReleaseReceives ==
    ASSUME TunnelInv, UNCHANGED clientVars,
           NEW H, H \subseteq Server!Entry, IsSent(H), NEW S,
           NEW e \in 0..Len(sent), expected_seq <= e,
           \A p \in H : p.seq >= e,
           Server!ReleaseContiguous(H, S, e)
    PROVE  TunnelInv' /\ Fifo!Receive
<1>. USE ClientAssumption, TunnelAssumption
<1>0. /\ sent \in Seq(Message) /\ sent' = sent /\ Len(sent) \in Nat
      /\ DOMAIN sent = 1..Len(sent)
      /\ expected_seq \in Nat /\ delivered \in Seq(Server!Packet)
      /\ e \in Nat /\ e <= Len(sent)
  BY DEF TunnelInv, IInv, ClientTypeOK, Kept, clientVars
<1>1. PICK n \in e..MaxPackets :
        /\ \A s \in e..(n - 1) : s \in Server!SeqsOf(H)
        /\ n \notin Server!SeqsOf(H)
        /\ expected_seq' = n
        /\ heap' = {p \in H : p.seq \notin e..(n - 1)}
        /\ delivered' = delivered \o Server!Run(H, e, n)
  BY DEF Server!ReleaseContiguous, Server!PopRun
<1>. DEFINE R == Server!Run(H, e, n)
            k == n - e
            d == Len(delivered)
<1>2. n \in Nat /\ e <= n /\ k \in Nat /\ d \in Nat
  BY <1>0
<1>3. /\ R \in Seq(Server!Packet) /\ Len(R) = k
      /\ \A i \in 1..k : /\ R[i].seq = e + i - 1
                         /\ R[i].payload = sent[e + i]
                         /\ e + i \in DOMAIN sent
  <2>1. CarriesSent(R, e, k)
    BY <1>0, <1>1, <1>2, RunIsSent
  <2>. HIDE DEF R, k
  <2>. QED  BY <2>1 DEF CarriesSent
<1>. HIDE DEF R
<1>4. n <= Len(sent)
  <2>1. CASE k = 0
    BY <1>0, <1>2, <2>1
  <2>2. CASE k # 0
    <3>1. k \in 1..k /\ e + k = n
      BY <1>0, <1>2, <2>2
    <3>2. n \in DOMAIN sent
      BY <1>3, <3>1
    <3>. QED  BY <1>0, <3>2
  <2>. QED  BY <2>1, <2>2
<1>5. /\ delivered' \in Seq(Server!Packet) /\ Len(delivered') = d + k
      /\ \A i \in 1..(d + k) :
           delivered'[i] = IF i <= d THEN delivered[i] ELSE R[i - d]
  <2>1. delivered' = delivered \o R
    BY <1>1 DEF R
  <2>2. /\ delivered \o R \in Seq(Server!Packet)
        /\ Len(delivered \o R) = d + k
        /\ \A i \in 1..(d + k) :
             (delivered \o R)[i] = IF i <= d THEN delivered[i] ELSE R[i - d]
    <3>1. delivered \in Seq(Server!Packet) /\ R \in Seq(Server!Packet)
      BY <1>0, <1>3
    <3>2. Len(R) = k
      BY <1>3
    <3>. HIDE DEF k
    <3>. QED  BY ONLY <3>1, <3>2, ConcatProperties DEF d
  <2>. QED  BY ONLY <2>1, <2>2
<1>. HIDE DEF d, k
<1>6. \A i \in 1..d : delivered[i].seq \in Nat /\ delivered[i].seq < expected_seq
  <2>. TAKE i \in 1..d
  <2>1. i \in DOMAIN delivered /\ delivered[i] \in Server!Packet
    BY <1>0 DEF d
  <2>. QED
    BY <2>1 DEF TunnelInv, Kept, DeliveredBelow, Server!Packet, Server!SeqNo
<1>7. DeliveredBelow'
  <2>. SUFFICES ASSUME NEW i \in 1..(d + k) PROVE delivered'[i].seq < n
    BY <1>1, <1>2, <1>5, SMTT(30) DEF DeliveredBelow
  <2>1. CASE i <= d
    <3>1. delivered'[i] = delivered[i] /\ i \in 1..d
      BY <1>2, <1>5, <2>1
    <3>. QED  BY <1>0, <1>2, <1>6, <3>1
  <2>2. CASE ~ (i <= d)
    <3>1. delivered'[i] = R[i - d] /\ i - d \in 1..k
      BY <1>2, <1>5, <2>2
    <3>2. delivered'[i].seq = e + (i - d) - 1
      BY <1>3, <3>1
    <3>3. e + k = n
      BY <1>0, <1>2 DEF k
    <3>. QED  BY <1>0, <1>2, <3>1, <3>2, <3>3
  <2>. QED  BY <2>1, <2>2
<1>8. AboveExpected'
  <2>. SUFFICES ASSUME NEW p \in H, p.seq \notin e..(n - 1) PROVE p.seq >= n
    BY <1>1 DEF AboveExpected
  <2>1. p.seq \in Nat /\ p.seq >= e
    BY DEF Server!Entry, Server!SeqNo
  <2>. QED  BY <1>2, <2>1
<1>9. IsSent(heap)' /\ heap' \subseteq Server!Entry
  BY <1>0, <1>1 DEF IsSent
<1>10. IInv'
  BY NextIInv DEF TunnelInv
<1>11. TunnelInv'
  BY <1>0, <1>1, <1>2, <1>4, <1>5, <1>7, <1>8, <1>9, <1>10 DEF TunnelInv, Kept
<1>. DEFINE ats == [i \in 1..k |-> e + i]
            L == Fifo!LastAt
<1>12. L \in 0..e
  <2>. DEFINE r == Received(delivered)
  <2>0. L = IF r = <<>> THEN 0 ELSE r[Len(r)].at
    BY DEF Fifo!LastAt, Received
  <2>1. DOMAIN r = 1..d /\ \A i \in 1..d : r[i].at = delivered[i].seq + 1
    BY <1>0 DEF Received, d
  <2>2. Len(r) = d
    <3>. DEFINE T == {r[i] : i \in 1..d}
    <3>1. r \in [1..d -> T]
      BY <2>1 DEF Received
    <3>. HIDE DEF r, T
    <3>2. r \in Seq(T)
      BY <1>2, <3>1
    <3>. QED  BY <1>2, <2>1, <3>2
  <2>. HIDE DEF r
  <2>3. CASE r = <<>>
    BY <1>2, <2>0, <2>3
  <2>4. CASE r # <<>>
    <3>1. d # 0
      <4>. SUFFICES ASSUME d = 0 PROVE FALSE
        OBVIOUS
      <4>1. DOMAIN r = {}
        BY <2>1
      <4>2. r = [i \in {} |-> 0]
        BY <4>1 DEF r, Received
      <4>. QED  BY <2>4, <4>2
    <3>2. L = delivered[d].seq + 1 /\ d \in 1..d
      BY <1>2, <2>0, <2>1, <2>2, <2>4, <3>1
    <3>. QED  BY <1>0, <1>6, <3>2, SMTT(30)
  <2>. QED  BY <2>3, <2>4
<1>. HIDE DEF L
<1>13. /\ k \in 0..(Len(sent) - L)
       /\ ats \in [1..k -> (L + 1)..Len(sent)]
       /\ \A i, j \in 1..k : i < j => ats[i] < ats[j]
  <2>1. e + k = n
    BY <1>0, <1>2 DEF k
  <2>2. k \in 0..(Len(sent) - L)
    BY <1>0, <1>2, <1>4, <1>12, <2>1
  <2>3. \A i \in 1..k : e + i \in (L + 1)..Len(sent)
    BY <1>0, <1>2, <1>4, <1>12, <2>1
  <2>4. ats \in [1..k -> (L + 1)..Len(sent)]
    BY <2>3
  <2>5. \A i, j \in 1..k : i < j => ats[i] < ats[j]
    BY <1>0
  <2>. QED  BY <2>2, <2>4, <2>5
<1>14. Received(delivered') = Received(delivered) \o MessagesFrom(e, k)
  <2>. DEFINE q == Received(delivered')
              r == Received(delivered)
              m == MessagesFrom(e, k)
              T == {q[i] : i \in 1..(d + k)} \cup {r[i] : i \in 1..d}
                     \cup {m[i] : i \in 1..k}
  <2>1. DOMAIN delivered' = 1..(d + k) /\ DOMAIN delivered = 1..d
    BY <1>0, <1>2, <1>5 DEF d
  <2>2. /\ q \in [1..(d + k) -> T] /\ r \in [1..d -> T] /\ m \in [1..k -> T]
    BY <2>1 DEF Received, MessagesFrom
  <2>3. /\ \A i \in 1..(d + k) :
             q[i] = [at |-> delivered'[i].seq + 1, msg |-> delivered'[i].payload]
        /\ \A i \in 1..d :
             r[i] = [at |-> delivered[i].seq + 1, msg |-> delivered[i].payload]
        /\ \A i \in 1..k : m[i] = [at |-> e + i, msg |-> sent[e + i]]
    BY <2>1 DEF Received, MessagesFrom
  <2>. HIDE DEF q, r, m, T
  <2>4. /\ q \in Seq(T) /\ Len(q) = d + k /\ r \in Seq(T) /\ Len(r) = d
        /\ m \in Seq(T) /\ Len(m) = k
    BY <1>2, <2>2
  <2>5. /\ r \o m \in Seq(T) /\ Len(r \o m) = d + k
        /\ \A i \in 1..(d + k) : (r \o m)[i] = IF i <= d THEN r[i] ELSE m[i - d]
    BY <2>4, ConcatProperties
  <2>6. \A i \in 1..(d + k) : q[i] = (r \o m)[i]
    <3>. TAKE i \in 1..(d + k)
    <3>1. CASE i <= d
      <4>1. i \in 1..d /\ delivered'[i] = delivered[i] /\ (r \o m)[i] = r[i]
        BY <1>2, <1>5, <2>5, <3>1
      <4>. QED  BY <2>3, <4>1, ZenonT(60)
    <3>2. CASE ~ (i <= d)
      <4>. DEFINE j == i - d
      <4>1. j \in 1..k
        BY <1>2, <3>2
      <4>2. delivered'[i] = R[j]
        BY <1>5, <3>2
      <4>3. (r \o m)[i] = m[j]
        BY <2>5, <3>2
      <4>. HIDE DEF j
      <4>4. R[j].seq = e + j - 1 /\ R[j].payload = sent[e + j]
        BY <1>3, <4>1
      <4>5. R[j].seq + 1 = e + j
        BY <1>0, <4>1, <4>4
      <4>6. q[i] = [at |-> R[j].seq + 1, msg |-> R[j].payload]
        BY <2>3, <4>2
      <4>7. q[i] = [at |-> e + j, msg |-> sent[e + j]]
        BY <4>4, <4>5, <4>6
      <4>8. m[j] = [at |-> e + j, msg |-> sent[e + j]]
        BY <2>3, <4>1
      <4>. QED  BY <4>3, <4>7, <4>8
    <3>. QED  BY <3>1, <3>2
  <2>7. q = r \o m
    BY <2>4, <2>5, <2>6, SeqEqual
  <2>. QED  BY <2>7 DEF q, r, m
<1>15. MessagesFrom(e, k) = [i \in 1..k |-> [at |-> ats[i], msg |-> sent[ats[i]]]]
  BY DEF MessagesFrom
<1>. HIDE DEF ats
<1>16. Fifo!Receive
  <2>1. Received(delivered') = Received(delivered)
          \o [i \in 1..k |-> [at |-> ats[i], msg |-> sent[ats[i]]]]
    BY <1>14, <1>15
  <2>2. \E as \in [1..k -> (L + 1)..Len(sent)] :
          /\ \A i, j \in 1..k : i < j => as[i] < as[j]
          /\ Received(delivered') = Received(delivered)
               \o [i \in 1..k |-> [at |-> as[i], msg |-> sent[as[i]]]]
    BY <1>13, <2>1
  <2>3. \E c \in 0..(Len(sent) - L) : \E as \in [1..c -> (L + 1)..Len(sent)] :
          /\ \A i, j \in 1..c : i < j => as[i] < as[j]
          /\ Received(delivered') = Received(delivered)
               \o [i \in 1..c |-> [at |-> as[i], msg |-> sent[as[i]]]]
    BY <1>13, <2>2
  <2>. QED  BY <1>0, <2>3 DEF Fifo!Receive, Received, L
<1>. QED  BY <1>11, <1>16

----------------------------------------------------------------------------
(* A step of a handler numbers at most one message, behind all the others. *)
LEMMA WorkSends ==
    ASSUME IInv, NEW h \in Handler, Works(h)
    PROVE  \/ UNCHANGED sent
           \/ Len(sent) < MaxPackets /\ \E m \in Message : sent' = Append(sent, m)
<1>. USE ClientAssumption
<1>1. reads[h] \in 0..MaxData
  BY DEF IInv, ClientTypeOK
<1>2. CASE SendConnect(h)
  BY <1>2, MessageFields DEF SendConnect, NumberPacket
<1>3. CASE ReadData(h)
  <2>1. reads[h] + 1 \in 1..MaxData
    BY <1>1, <1>3 DEF ReadData
  <2>2. [op |-> "DATA", of |-> h, k |-> reads[h] + 1] \in Message
    BY <2>1, MessageFields
  <2>. QED  BY <1>3, <2>2 DEF ReadData, NumberPacket
<1>4. CASE SendDelayed(h)
  <2>1. reads[h] \in 1..MaxData
    BY <1>1, <1>4 DEF SendDelayed, IInv, DelayedHasRead
  <2>2. [op |-> "DATA", of |-> h, k |-> reads[h]] \in Message
    BY <2>1, MessageFields
  <2>. QED  BY <1>4, <2>2 DEF SendDelayed, NumberPacket
<1>5. CASE Finish(h)
  BY <1>5, MessageFields DEF Finish, NumberPacket
<1>6. CASE Refuse(h) \/ Open(h) \/ EndOfTry(h)
  BY <1>6 DEF Refuse, Open, EndOfTry
<1>. QED  BY <1>2, <1>3, <1>4, <1>5, <1>6 DEF Works

(* A step of the client alone is a Send of LossyFifo, or none of its steps. *)
LEMMA ClientRefines ==
    ASSUME TunnelInv, ClientNext, UNCHANGED serverVars,
           \/ UNCHANGED sent
           \/ Len(sent) < MaxPackets /\ \E m \in Message : sent' = Append(sent, m)
    PROVE  TunnelInv' /\ [Fifo!Next]_(Fifo!vars)
<1>. USE ClientAssumption, TunnelAssumption
<1>1. IInv'
  BY NextIInv DEF TunnelInv
<1>2. sent \in Seq(Message) /\ Len(sent) \in Nat /\ Kept
  BY DEF TunnelInv, IInv, ClientTypeOK
<1>3. UNCHANGED <<expected_seq, heap, delivered>>
  BY DEF serverVars
<1>4. CASE UNCHANGED sent
  <2>1. Kept'
    BY <1>2, <1>3, <1>4 DEF Kept, AboveExpected, DeliveredBelow, IsSent
  <2>2. UNCHANGED Fifo!vars
    BY <1>3, <1>4 DEF Fifo!vars
  <2>. QED  BY <1>1, <2>1, <2>2 DEF TunnelInv
<1>5. ASSUME NEW m \in Message, sent' = Append(sent, m), Len(sent) < MaxPackets
      PROVE  TunnelInv' /\ [Fifo!Next]_(Fifo!vars)
  <2>1. /\ Len(sent') = Len(sent) + 1 /\ DOMAIN sent \subseteq DOMAIN sent'
        /\ \A i \in DOMAIN sent : sent'[i] = sent[i]
    BY <1>2, <1>5
  <2>2. IsSent(heap)'
    BY <1>2, <1>3, <2>1 DEF Kept, IsSent
  <2>3. AboveExpected' /\ DeliveredBelow'
    BY <1>2, <1>3 DEF Kept, AboveExpected, DeliveredBelow
  <2>4. Kept'
    BY <1>2, <1>3, <1>5, <2>1, <2>2, <2>3 DEF Kept
  <2>5. Fifo!Send(m)
    BY <1>3, <1>5 DEF Fifo!Send
  <2>. QED  BY <1>1, <2>4, <2>5 DEF TunnelInv, Fifo!Next
<1>. QED  BY <1>4, <1>5

(* A packet that arrives is refused, or stored where it belongs. *)
LEMMA ArrivesRefines ==
    ASSUME TunnelInv, NEW n \in DOMAIN sent, Arrives(n)
    PROVE  TunnelInv' /\ Fifo!Receive
<1>. USE ClientAssumption, TunnelAssumption
<1>1. /\ sent \in Seq(Message) /\ Kept /\ Len(sent) \in Nat /\ Len(sent) <= MaxPackets
      /\ DOMAIN sent = 1..Len(sent) /\ expected_seq \in 0..Len(sent)
      /\ heap \subseteq Server!Entry /\ IsSent(heap) /\ AboveExpected
  BY DEF TunnelInv, IInv, ClientTypeOK, Kept
<1>. DEFINE p == [seq |-> n - 1, payload |-> sent[n], age |-> 0]
            H == heap \cup {p}
<1>2. /\ UNCHANGED clientVars
      /\ ~ Server!IsDuplicate(n - 1)
      /\ Server!ReleaseContiguous(H, seen_seqs \cup {n - 1}, expected_seq)
  BY DEF Arrives, Server!Put
<1>3. p.seq = n - 1 /\ p.payload = sent[n] /\ p.seq + 1 = n
  BY <1>1
<1>4. p \in Server!Entry
  <2>1. n - 1 \in 0..(MaxPackets - 1) /\ sent[n] \in Message /\ 0 \in 0..FlushTimeout
    BY <1>1
  <2>. QED  BY <2>1 DEF Server!Entry, Server!SeqNo, Server!Age
<1>5. n - 1 >= expected_seq
  BY <1>1, <1>2 DEF Server!IsDuplicate
<1>. HIDE DEF p
<1>6. H \subseteq Server!Entry /\ IsSent(H) /\ \A q \in H : q.seq >= expected_seq
  BY <1>1, <1>3, <1>4, <1>5 DEF IsSent, AboveExpected
<1>7. expected_seq <= expected_seq
  BY <1>1
<1>. HIDE DEF H
<1>. QED  BY <1>1, <1>2, <1>6, <1>7, ReleaseReceives

(* The flush task skips a gap, or does nothing yet. *)
LEMMA FlushReceives ==
    ASSUME TunnelInv, Server!FlushPoll, UNCHANGED <<clientVars, wire>>
    PROVE  TunnelInv' /\ (Fifo!Receive \/ UNCHANGED <<sent, delivered>>)
<1>. USE ClientAssumption, TunnelAssumption
<1>1. /\ Kept /\ Len(sent) \in Nat /\ expected_seq \in 0..Len(sent)
      /\ DOMAIN sent = 1..Len(sent)
      /\ heap \subseteq Server!Entry /\ IsSent(heap) /\ AboveExpected
  BY DEF TunnelInv, IInv, ClientTypeOK, Kept
<1>2. CASE UNCHANGED <<expected_seq, heap, seen_seqs, delivered>>
  <2>1. IInv' /\ sent' = sent
    BY NextIInv DEF TunnelInv, clientVars
  <2>. QED
    BY <1>1, <1>2, <2>1 DEF TunnelInv, Kept, AboveExpected, DeliveredBelow, IsSent
<1>3. ASSUME NEW head \in heap, Server!IsHead(heap, head),
             Server!ReleaseContiguous(heap, seen_seqs, Server!FlushFrom(head))
      PROVE  TunnelInv' /\ Fifo!Receive
  <2>1. /\ head.seq \in Nat /\ head.seq + 1 \in DOMAIN sent
        /\ head.seq >= expected_seq
    BY <1>1 DEF Server!Entry, Server!SeqNo, IsSent, AboveExpected
  <2>2. Server!FlushFrom(head) = head.seq
    BY <1>1, <2>1 DEF Server!FlushFrom
  <2>3. head.seq \in 0..Len(sent) /\ expected_seq <= head.seq
    BY <1>1, <2>1
  <2>4. \A q \in heap : q.seq >= head.seq
    <3>. TAKE q \in heap
    <3>1. head.seq <= q.seq
      BY <1>3 DEF Server!IsHead
    <3>2. q.seq \in Nat
      BY <1>1 DEF Server!Entry, Server!SeqNo
    <3>. QED  BY <2>1, <3>1, <3>2
  <2>5. Server!ReleaseContiguous(heap, seen_seqs, head.seq)
    BY <1>3, <2>2
  <2>. QED  BY <1>1, <2>3, <2>4, <2>5, ReleaseReceives
<1>. QED  BY <1>2, <1>3 DEF Server!FlushPoll, clientVars

(* Every step of the tunnel keeps the invariant, and is one of LossyFifo or
   none of its steps. *)
LEMMA TunnelStep ==
    ASSUME TunnelInv, [Next]_vars
    PROVE  TunnelInv' /\ [Fifo!Next]_(Fifo!vars)
<1>. USE ClientAssumption, TunnelAssumption
<1>1. ASSUME NEW h \in Handler, Sends(h), UNCHANGED serverVars
      PROVE  TunnelInv' /\ [Fifo!Next]_(Fifo!vars)
  <2>1. ClientNext /\ UNCHANGED sent
    BY <1>1 DEF Sends, ClientNext, Transmit
  <2>. QED  BY <1>1, <2>1, ClientRefines
<1>2. ASSUME NEW h \in Handler, Works(h), UNCHANGED <<wire, serverVars>>
      PROVE  TunnelInv' /\ [Fifo!Next]_(Fifo!vars)
  <2>1. ClientNext /\ UNCHANGED serverVars
    BY <1>2 DEF ClientNext
  <2>2. \/ UNCHANGED sent
        \/ Len(sent) < MaxPackets /\ \E m \in Message : sent' = Append(sent, m)
    BY <1>2, WorkSends DEF TunnelInv
  <2>. QED  BY <2>1, <2>2, ClientRefines
<1>3. ASSUME NEW l \in Link, Toggle(l), UNCHANGED <<wire, serverVars>>
      PROVE  TunnelInv' /\ [Fifo!Next]_(Fifo!vars)
  <2>1. ClientNext /\ UNCHANGED serverVars /\ UNCHANGED sent
    BY <1>3 DEF ClientNext, Toggle
  <2>. QED  BY <2>1, ClientRefines
<1>4. ASSUME NEW n \in DOMAIN sent, Arrives(n)
      PROVE  TunnelInv' /\ [Fifo!Next]_(Fifo!vars)
  BY <1>4, ArrivesRefines DEF Fifo!Next
<1>still. UNCHANGED <<sent, delivered>> => UNCHANGED Fifo!vars
  BY DEF Fifo!vars
<1>5. ASSUME Server!FlushPoll, UNCHANGED <<clientVars, wire>>
      PROVE  TunnelInv' /\ [Fifo!Next]_(Fifo!vars)
  BY <1>5, <1>still, FlushReceives DEF Fifo!Next
<1>6. ASSUME Server!Tick, UNCHANGED <<clientVars, wire>>
      PROVE  TunnelInv' /\ [Fifo!Next]_(Fifo!vars)
  <2>1. /\ heap' = {[p EXCEPT !.age = Server!Older(p.age)] : p \in heap}
        /\ UNCHANGED <<expected_seq, delivered, sent>> /\ UNCHANGED clientVars
    BY <1>6 DEF Server!Tick, clientVars
  <2>2. Kept /\ IInv'
    BY <2>1, NextIInv DEF TunnelInv
  <2>3. ASSUME NEW q \in heap'
        PROVE  /\ q \in Server!Entry
               /\ \E p \in heap : q.seq = p.seq /\ q.payload = p.payload
    <3>1. PICK p \in heap : q = [p EXCEPT !.age = Server!Older(p.age)]
      BY <2>1
    <3>2. p \in Server!Entry
      BY <2>2 DEF Kept
    <3>3. Server!Older(p.age) \in Server!Age
      BY <3>2 DEF Server!Older, Server!Entry, Server!Age
    <3>. QED  BY <3>1, <3>2, <3>3 DEF Server!Entry
  <2>4. heap' \subseteq Server!Entry /\ AboveExpected' /\ IsSent(heap)'
    BY <2>1, <2>2, <2>3 DEF Kept, AboveExpected, IsSent
  <2>5. Kept'
    BY <2>1, <2>2, <2>4 DEF Kept, DeliveredBelow
  <2>. QED  BY <1>still, <2>1, <2>2, <2>5 DEF TunnelInv
<1>7. CASE UNCHANGED vars
  <2>1. UNCHANGED clientVars
        /\ UNCHANGED <<sent, expected_seq, heap, delivered>>
    BY <1>7 DEF vars, serverVars, clientVars
  <2>2. Kept /\ IInv'
    BY <2>1, NextIInv DEF TunnelInv
  <2>3. Kept'
    BY <2>1, <2>2 DEF Kept, AboveExpected, DeliveredBelow, IsSent
  <2>. QED  BY <1>still, <2>1, <2>2, <2>3 DEF TunnelInv
<1>. QED  BY <1>1, <1>2, <1>3, <1>4, <1>5, <1>6, <1>7 DEF Next

(* The invariant of the tunnel holds in every reachable state. *)
THEOREM TunnelInvariant == Spec => []TunnelInv
<1>. USE ClientAssumption, TunnelAssumption
<1>1. Init => TunnelInv
  <2>. SUFFICES ASSUME Init PROVE TunnelInv
    OBVIOUS
  <2>1. IInv
    BY InitIInv DEF Init
  <2>2. sent = <<>> /\ expected_seq = 0 /\ heap = {} /\ delivered = <<>>
    BY DEF Init, ClientInit, Server!Init
  <2>3. Kept
    BY <2>2 DEF Kept, AboveExpected, DeliveredBelow, IsSent
  <2>. QED  BY <2>1, <2>3 DEF TunnelInv
<1>. QED  BY <1>1, TunnelStep, PTL DEF Spec

(* ImplementsLossyFifo: whatever the network does with the packets of vpn.py,
   receiver.py hands the router messages that the client's sessions sent, in the
   order in which they were numbered, none of them twice or changed. *)
THEOREM TunnelRefinement == Spec => ImplementsLossyFifo
<1>1. Init => Fifo!Init
  <2>. SUFFICES ASSUME Init PROVE Fifo!Init
    OBVIOUS
  <2>1. sent = <<>> /\ delivered = <<>>
    BY DEF Init, ClientInit, Server!Init
  <2>. QED  BY <2>1 DEF Fifo!Init
<1>2. TunnelInv /\ [Next]_vars => [Fifo!Next]_(Fifo!vars)
  BY TunnelStep
<1>. QED  BY <1>1, <1>2, TunnelInvariant, PTL DEF Spec, ImplementsLossyFifo, Fifo!Spec
=============================================================================
