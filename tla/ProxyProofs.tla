---------------------------- MODULE ProxyProofs ----------------------------
(***************************************************************************)
(* Proofs about Proxy, for streams of any length: which end of a relayed   *)
(* connection is whole, that nothing is left when the handler has ended,   *)
(* and what status the client hears.                                       *)
(***************************************************************************)
EXTENDS Proxy, TLAPS

----------------------------------------------------------------------------
Over == {"ending", "waiting", "done"}

(* Until the target is connected there is only the client's connection. *)
Handshake ==
    pc \in {"hello", "request", "resolve", "connect"} =>
      /\ conn["client"] = "open" /\ conn["remote"] = "none"
      /\ replies = <<>> /\ first = "none"
      /\ \A d \in Dir : relay[d] = "none" /\ end[d] = MaxUnits
      /\ \A d \in Dir : got[d] = 0 /\ out[d] = 0

(* A client that was refused. *)
Refused ==
    pc # "relay" /\ conn["remote"] = "none" =>
      /\ Len(replies) <= 1 /\ replies # <<0>>
      /\ first = "none"
      /\ \A d \in Dir : relay[d] = "none" /\ out[d] = 0

(* One that was not. *)
Relayed ==
    /\ pc = "relay" => conn["remote"] # "none"
    /\ conn["remote"] # "none" =>
         /\ replies = <<0>>
         /\ \A d \in Dir : relay[d] # "none"
         /\ pc # "relay" => \A d \in Dir : relay[d] = "done"

(* What has ended was waited for. *)
Ended ==
    /\ \A d \in Dir : relay[d] = "done" => conn[Sink[d]] \in {"lost", "reset"}
    /\ pc = "closed" => conn["client"] \in {"lost", "reset"}

(* While the proxy runs: nothing read is kept back before a read, and
   nothing is closed before a relay comes to its end. *)
Passing ==
    is_running =>
      /\ \A d \in Dir : relay[d] \in {"read", "drain"} => out[d] = got[d]
      /\ \A d \in Dir : first = d => relay[d] \in Over
      /\ \A d \in Dir : relay[d] \in Over => first # "none"
      /\ first = "none" /\ pc = "relay" =>
           /\ \A c \in Conn : conn[c] \in {"open", "reset"}
           /\ \A d \in Dir : end[d] = MaxUnits

IInv == TypeOK /\ Handshake /\ Refused /\ Relayed /\ Ended /\ Passing /\ FirstEndIsWhole

----------------------------------------------------------------------------
(* The inductive invariant holds at first. *)
LEMMA InitIInv == Init => IInv
<1>. SUFFICES ASSUME Init PROVE IInv
  OBVIOUS
<1>. USE ProxyAssumption DEF Init, Dir, Conn
<1>1. TypeOK
  <2>1. /\ conn \in [Conn -> {"none", "open", "closing", "lost", "reset"}]
        /\ replies \in Seq({0, 3, 4, 7, 8}) /\ is_running \in BOOLEAN
    OBVIOUS
  <2>2. /\ sent \in [Dir -> 0..MaxUnits] /\ end \in [Dir -> 0..MaxUnits]
        /\ got \in [Dir -> 0..MaxUnits] /\ out \in [Dir -> 0..MaxUnits]
    OBVIOUS
  <2>3. /\ pc \in {"hello", "request", "resolve", "connect", "relay", "closing", "closed"}
        /\ relay \in [Dir -> {"none", "read", "pace", "drain", "ending", "waiting", "done"}]
        /\ fin \subseteq Dir /\ failed \subseteq Dir
        /\ first \in Dir \cup {"none"} /\ is_sim \in BOOLEAN
    OBVIOUS
  <2>. QED  BY <2>1, <2>2, <2>3 DEF TypeOK
<1>2. Handshake /\ Refused /\ Relayed /\ Ended /\ Passing /\ FirstEndIsWhole
  BY DEF Handshake, Refused, Relayed, Ended, Passing, FirstEndIsWhole, Over, Sink
<1>. QED  BY <1>1, <1>2 DEF IInv

(* Closing a connection closes no other. *)
LEMMA CloseChanges ==
    ASSUME TypeOK, NEW c \in Conn, Close(c)
    PROVE  /\ conn' = IF conn[c] = "open" THEN [conn EXCEPT ![c] = "closing"] ELSE conn
           /\ end' \in [Dir -> 0..MaxUnits]
<1>. DEFINE d == CHOOSE d \in Dir : Source[d] = c
<1>1. d \in Dir
  BY DEF Dir, Conn, Source
<1>2. CASE conn[c] = "open"
  <2>1. PICK k \in got[d]..sent[d] : end' = [end EXCEPT ![d] = k]
    BY <1>2 DEF Close
  <2>2. k \in 0..MaxUnits
    BY <1>1, <2>1, ProxyAssumption DEF TypeOK
  <2>. QED  BY <1>1, <1>2, <2>1, <2>2 DEF Close, TypeOK
<1>3. CASE conn[c] # "open"
  BY <1>3 DEF Close, TypeOK
<1>. QED  BY <1>2, <1>3

(* The steps of the programs at both ends, of stop and of the event loop. *)
LEMMA OutsideStep ==
    ASSUME IInv,
           \/ \E d \in Dir : SourceSends(d) \/ SourceEnds(d)
           \/ \E c \in Conn : Reset(c) \/ Lost(c)
           \/ Stop
    PROVE  IInv'
<1>. USE ProxyAssumption
         DEF IInv, TypeOK, Handshake, Refused, Relayed, Ended, Passing, FirstEndIsWhole,
             Over, Dir, Conn, Sink, handlerVars, envVars, relayVars
<1>1. ASSUME NEW d \in Dir, SourceSends(d) PROVE IInv'
  BY <1>1 DEF SourceSends, Alive, Source
<1>2. ASSUME NEW d \in Dir, SourceEnds(d) PROVE IInv'
  BY <1>2 DEF SourceEnds, Alive, Source
<1>3. ASSUME NEW c \in Conn, Reset(c) PROVE IInv'
  BY <1>3 DEF Reset
<1>4. ASSUME NEW c \in Conn, Lost(c) PROVE IInv'
  BY <1>4 DEF Lost
<1>5. CASE Stop
  BY <1>5 DEF Stop
<1>. QED  BY <1>1, <1>2, <1>3, <1>4, <1>5

(* A refusal in the handshake. *)
LEMMA RefuseKeeps ==
    ASSUME IInv, pc \in {"hello", "request", "resolve", "connect"},
           NEW statuses \in SUBSET {3, 4, 7, 8}, Refuse(statuses)
    PROVE  IInv'
<1>. USE ProxyAssumption DEF Refuse, envVars, relayVars, Conn
<1>1. /\ pc' = "closing" /\ conn' = [conn EXCEPT !["client"] = "closing"]
      /\ end' \in [Dir -> 0..MaxUnits]
  BY CloseChanges DEF IInv, TypeOK, Handshake
<1>2. /\ replies' \in Seq({0, 3, 4, 7, 8})
      /\ Len(replies') <= 1 /\ replies' # <<0>>
  <2>1. replies = <<>>
    BY DEF IInv, Handshake
  <2>2. CASE replies' = <<>>
    BY <2>2
  <2>3. CASE \E s \in statuses : replies' = Append(replies, s)
    <3>1. PICK s \in {3, 4, 7, 8} : replies' = <<s>>
      BY <2>1, <2>3
    <3>2. <<s>>[1] # <<0>>[1]
      BY <3>1
    <3>3. <<s>> \in Seq({0, 3, 4, 7, 8}) /\ Len(<<s>>) = 1
      OBVIOUS
    <3>. QED  BY <3>1, <3>2, <3>3
  <2>. QED  BY <2>1, <2>2, <2>3
<1>3. TypeOK'
  BY <1>1, <1>2 DEF IInv, TypeOK
<1>4. Handshake' /\ Refused' /\ Relayed'
  BY <1>1, <1>2 DEF IInv, TypeOK, Handshake, Refused, Relayed, Dir
<1>5. Ended' /\ Passing' /\ FirstEndIsWhole'
  BY <1>1 DEF IInv, TypeOK, Handshake, Ended, Passing, FirstEndIsWhole, Dir, Over
<1>. QED  BY <1>3, <1>4, <1>5 DEF IInv

(* The handshake, and the end of the handler. *)
LEMMA HandlerStep ==
    ASSUME IInv,
           Greeted \/ Requested \/ Resolved \/ ConnectFails \/ Connected \/ Gather \/ Closed
    PROVE  IInv'
<1>. USE ProxyAssumption
         DEF IInv, TypeOK, Handshake, Refused, Relayed, Ended, Passing, FirstEndIsWhole,
             Over, Dir, Conn, Sink, handlerVars, envVars, relayVars
<1>1. CASE Greeted
  BY <1>1, RefuseKeeps DEF Greeted, Advance
<1>2. CASE Requested
  BY <1>2, RefuseKeeps DEF Requested, Advance
<1>3. CASE Resolved
  BY <1>3, RefuseKeeps DEF Resolved, Advance
<1>4. CASE ConnectFails
  BY <1>4, RefuseKeeps DEF ConnectFails, Advance
<1>5. CASE Connected
  BY <1>5 DEF Connected, Loop
<1>6. CASE Gather
  BY <1>6, CloseChanges DEF Gather
<1>7. CASE Closed
  BY <1>7 DEF Closed
<1>. QED  BY <1>1, <1>2, <1>3, <1>4, <1>5, <1>6, <1>7

(* A step of a relay. *)
LEMMA RelayStepKeeps ==
    ASSUME IInv, NEW d \in Dir, RelayStep(d)
    PROVE  IInv'
<1>. USE ProxyAssumption
         DEF IInv, TypeOK, Handshake, Refused, Relayed, Ended, Passing, FirstEndIsWhole,
             Over, Dir, Conn, Sink, handlerVars, envVars, relayVars, Goto, Ending
<1>1. CASE Read(d)
  BY <1>1 DEF Read, Readable
<1>2. CASE ReadEof(d)
  BY <1>2 DEF ReadEof, Readable, Source
<1>3. CASE Write(d)
  BY <1>3 DEF Write
<1>4. CASE Drained(d)
  <2>1. CASE is_running
    BY <1>4, <2>1 DEF Drained, Loop
  <2>2. CASE ~ is_running
    BY <1>4, <2>2 DEF Drained, Loop
  <2>. QED  BY <2>1, <2>2
<1>5. CASE RelayRaises(d)
  BY <1>5 DEF RelayRaises, Raise
<1>6. CASE Finally(d)
  BY <1>6, CloseChanges DEF Finally
<1>7. CASE Waited(d)
  BY <1>7 DEF Waited
<1>. QED  BY <1>1, <1>2, <1>3, <1>4, <1>5, <1>6, <1>7 DEF RelayStep

(* Every step keeps it. *)
LEMMA NextIInv == IInv /\ [Next]_vars => IInv'
<1>1. ASSUME IInv, UNCHANGED vars PROVE IInv'
  BY <1>1 DEF vars, handlerVars, envVars, relayVars, IInv, TypeOK, Handshake, Refused,
              Relayed, Ended, Passing, FirstEndIsWhole
<1>. QED  BY <1>1, OutsideStep, HandlerStep, RelayStepKeeps DEF Next

(* IInv holds in every reachable state. *)
THEOREM Invariant == Spec => []IInv
<1>. QED  BY InitIInv, NextIInv, PTL DEF Spec

(* The variables keep their types. *)
THEOREM TypeCorrect == Spec => []TypeOK
<1>1. IInv => TypeOK
  BY DEF IInv
<1>. QED  BY <1>1, Invariant, PTL

(* FirstEndIsWhole: the relay of client/proxy.py that ends first, by the end of
   its source, has written everything that source sent. *)
THEOREM FirstEndTheorem == Spec => []FirstEndIsWhole
<1>1. IInv => FirstEndIsWhole
  BY DEF IInv
<1>. QED  BY <1>1, Invariant, PTL

(* NoOrphan: when the handler of a client has ended, so have both connections
   and both relays. *)
THEOREM OrphanTheorem == Spec => []NoOrphan
<1>1. IInv => NoOrphan
  BY DEF IInv, TypeOK, Refused, Relayed, Ended, NoOrphan, Dir, Conn, Sink
<1>. QED  BY <1>1, Invariant, PTL

(* OneStatus: the client hears one status at most, and "success" only with a
   connection to the target, before any of its data. *)
THEOREM StatusTheorem == Spec => []OneStatus
<1>1. ASSUME IInv PROVE OneStatus
  <2>1. CASE conn["remote"] = "none"
    BY <1>1, <2>1 DEF IInv, Refused, Relayed, OneStatus, Dir
  <2>2. CASE conn["remote"] # "none"
    <3>1. replies = <<0>> /\ Len(<<0>>) = 1
      BY <1>1, <2>2 DEF IInv, Relayed
    <3>. QED  BY <2>2, <3>1 DEF OneStatus
  <2>. QED  BY <2>1, <2>2
<1>. QED  BY <1>1, Invariant, PTL
=============================================================================
