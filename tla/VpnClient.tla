------------------------------ MODULE VpnClient ------------------------------
(***************************************************************************)
(* AetherVPNClient of aetherbond/client/vpn.py: the client's end of the    *)
(* tunnel.  A handler task serves each local SOCKS connection: it opens a  *)
(* session, sends CONNECT, one DATA for each read and, in its `finally`,   *)
(* CLOSE.  Every send picks a link and takes the next of the numbers all   *)
(* sessions share.                                                         *)
(*                                                                         *)
(* No task suspends while it holds _lock, so the lock is left out.  A      *)
(* session and its handler are one thing: session ids are not used twice.  *)
(* The k-th packet numbered has the number k - 1, so next_seq_out is       *)
(* Len(sent).  Of the local connection, the model keeps whether the writer *)
(* still holds data that the local program has not taken: closing it then  *)
(* does not end it.  Encryption, addresses and the bytes are left out.     *)
(***************************************************************************)
EXTENDS Naturals, Sequences, FiniteSets

CONSTANTS Handler,    \* local connections
          Link,       \* interfaces the scheduler knows
          Simulated,  \* those that are simulated
          MaxData,    \* bound: reads of a connection, and of any two together
          MaxPackets, \* bound: packets numbered
          MaxToggles  \* bound: links going online and offline

ASSUME ClientAssumption ==
    /\ Simulated \subseteq Link
    /\ MaxData \in Nat
    /\ MaxPackets \in Nat
    /\ MaxToggles \in Nat

Command(h) == {[op |-> "CONNECT", of |-> h, k |-> 0]}
                \cup {[op |-> "DATA", of |-> h, k |-> k] : k \in 1..MaxData}
                \cup {[op |-> "CLOSE", of |-> h, k |-> MaxData + 1]}
Message == UNION {Command(h) : h \in Handler}

VARIABLES pc,        \* where each handler is
          active,    \* session.active of each
          sessions,  \* the handlers whose session is in the map
          local,     \* the local connection of each: open, with a backlog, closed
                     \* but still flushing one, or lost
          reads,     \* how many reads returned data to each
          sent,      \* history: the packets numbered, in order of number
          sending,   \* handler -> number of the packet it is sending, plus one
          online,    \* what get_active_links returns
          sockets,   \* active_sockets
          toggles, stop

clientVars == <<pc, active, sessions, local, reads, sent, sending, online, sockets,
                toggles, stop>>
linkVars == <<online, sockets, toggles>>

ClientInit ==
    /\ pc = [h \in Handler |-> "handshake"]
    /\ active = [h \in Handler |-> FALSE]
    /\ sessions = {}
    /\ local = [h \in Handler |-> "open"]
    /\ reads = [h \in Handler |-> 0]
    /\ sent = <<>>
    /\ sending = [h \in Handler |-> 0]
    /\ online = Link
    /\ sockets \in SUBSET Link
    /\ toggles = 0
    /\ stop = "no"

Goto(h, l) == pc' = [pc EXCEPT ![h] = l]

----------------------------------------------------------------------------
\* select_interface_wrr and the place of its answer among active_sockets:
\* either one raises, or l is the link.
SelectRaises == online \ sockets # {} \/ online = {}
Selects(l) == l \in online \cap sockets

\* The first half of _send_to_vps: the packet gets its number.
NumberPacket(h, op, k) ==
    /\ Len(sent) < MaxPackets
    /\ sent' = Append(sent, [op |-> op, of |-> h, k |-> k])
    /\ sending' = [sending EXCEPT ![h] = Len(sent')]
    /\ Goto(h, "sending")

\* writer.close: at once, or when the backlog has been flushed.
AfterClose(c) == IF c = "open" THEN "lost" ELSE IF c = "backlog" THEN "flushing" ELSE c
CloseLocal(H) == local' = [h \in Handler |-> IF h \in H THEN AfterClose(local[h])
                                                      ELSE local[h]]

\* The test of the relay loop.
LoopHead(h) == IF active[h] THEN "read" ELSE "finally"

\* Anything but a valid CONNECT request ends the handler: no session yet.
Refuse(h) ==
    /\ pc[h] = "handshake"
    /\ Goto(h, "refused")
    /\ CloseLocal({h})
    /\ UNCHANGED <<active, sessions, reads, sent, sending, linkVars, stop>>

\* A session is made and the success reply written.
Open(h) ==
    /\ pc[h] = "handshake"
    /\ active' = [active EXCEPT ![h] = TRUE]
    /\ sessions' = sessions \cup {h}
    /\ Goto(h, "replied")
    /\ UNCHANGED <<local, reads, sent, sending, linkVars, stop>>

SendConnect(h) ==
    /\ pc[h] = "replied"
    /\ \E l \in Link : Selects(l)
    /\ NumberPacket(h, "CONNECT", 0)
    /\ UNCHANGED <<active, sessions, local, reads, linkVars, stop>>

\* A read returns data, and the packet is sent: at once, or on a simulated
\* link after its delay.
ReadData(h) ==
    /\ pc[h] = "read"
    /\ reads[h] < MaxData
    /\ \A g \in Handler \ {h} : reads[g] + reads[h] < MaxData
    /\ reads' = [reads EXCEPT ![h] = @ + 1]
    /\ \E l \in Link :
         /\ Selects(l)
         /\ \/ l \notin Simulated /\ NumberPacket(h, "DATA", reads[h] + 1)
            \/ l \in Simulated /\ Goto(h, "delayed") /\ UNCHANGED <<sent, sending>>
    /\ UNCHANGED <<active, sessions, local, linkVars, stop>>

\* Mutant: an error in the relay loop is caught there, and the loop goes on.
SendDelayedOrSkip(h) ==
    /\ pc[h] = "delayed"
    /\ \/ sockets # {} /\ NumberPacket(h, "DATA", reads[h])
       \/ Goto(h, LoopHead(h)) /\ UNCHANGED <<sent, sending>>
    /\ UNCHANGED <<active, sessions, local, reads, linkVars, stop>>

\* The delay is over; stop may have closed the socket.
SendDelayed(h) ==
    /\ pc[h] = "delayed"
    /\ \/ sockets # {} /\ NumberPacket(h, "DATA", reads[h])
       \/ sockets = {} /\ Goto(h, LoopHead(h)) /\ UNCHANGED <<sent, sending>>
    /\ UNCHANGED <<active, sessions, local, reads, linkVars, stop>>

\* The end of the local stream, or an exception in the try block.
EndOfTry(h) ==
    /\ pc[h] \in {"replied", "read", "delayed"}
    /\ Goto(h, "finally")
    /\ UNCHANGED <<active, sessions, local, reads, sent, sending, linkVars, stop>>

\* Mutants: the handler ends without the wait for its CLOSE, and the session
\* stays; the session leaves the map before the CLOSE is tried.
FinishKeepsSession(h) ==
    /\ pc[h] = "finally"
    /\ \E l \in Link : Selects(l)
    /\ sent' = Append(sent, [op |-> "CLOSE", of |-> h, k |-> MaxData + 1])
    /\ Goto(h, "done")
    /\ CloseLocal({h})
    /\ UNCHANGED <<active, sessions, reads, sending, linkVars, stop>>

FinishPopsFirst(h) ==
    /\ pc[h] = "finally"
    /\ \/ /\ \E l \in Link : Selects(l)
          /\ NumberPacket(h, "CLOSE", MaxData + 1)
       \/ /\ SelectRaises
          /\ Goto(h, "leaked")
          /\ UNCHANGED <<sent, sending>>
    /\ sessions' = sessions \ {h}
    /\ UNCHANGED <<active, local, reads, linkVars, stop>>

\* The finally block.  When it raises, the handler ends there and the connection
\* is not closed.
Finish(h) ==
    /\ pc[h] = "finally"
    /\ \/ /\ \E l \in Link : Selects(l)
          /\ NumberPacket(h, "CLOSE", MaxData + 1)
       \/ /\ SelectRaises
          /\ Goto(h, "leaked")
          /\ UNCHANGED <<sent, sending>>
    /\ UNCHANGED <<active, sessions, local, reads, linkVars, stop>>

\* The second half of _send_to_vps, which may have had to wait for the socket:
\* the datagram goes out, or an error is logged, and the handler goes on, after
\* CLOSE to its own end.
Transmit(h) ==
    /\ pc[h] = "sending"
    /\ sending' = [sending EXCEPT ![h] = 0]
    /\ IF sent[sending[h]].op = "CLOSE"
       THEN sessions' = sessions \ {h} /\ CloseLocal({h}) /\ Goto(h, "done")
       ELSE UNCHANGED <<sessions, local>> /\ Goto(h, LoopHead(h))
    /\ UNCHANGED <<active, reads, sent, linkVars, stop>>

\* Mutant: the session is left without closing its writer.
ServerCloseKeepsWriter(h) ==
    /\ h \in sessions
    /\ active' = [active EXCEPT ![h] = FALSE]
    /\ sessions' = sessions \ {h}
    /\ UNCHANGED <<pc, local, reads, sent, sending, linkVars, stop>>

\* _handle_reordered_server_packet: CLOSE.
ServerClose(h) ==
    /\ h \in sessions
    /\ active' = [active EXCEPT ![h] = FALSE]
    /\ sessions' = sessions \ {h}
    /\ CloseLocal({h})
    /\ UNCHANGED <<pc, reads, sent, sending, linkVars, stop>>

\* The local connection of h becomes c.
Local(h, c) ==
    /\ local' = [local EXCEPT ![h] = c]
    /\ UNCHANGED <<pc, active, sessions, reads, sent, sending, linkVars, stop>>

\* session.write: the task of a DATA of the server writes more than the local
\* program takes.
WriteQueues(h) == active[h] /\ local[h] = "open" /\ Local(h, "backlog")

\* Its drain raises, the connection being lost.
WriteFails(h) ==
    /\ active[h]
    /\ local[h] = "lost"
    /\ active' = [active EXCEPT ![h] = FALSE]
    /\ UNCHANGED <<pc, sessions, local, reads, sent, sending, linkVars, stop>>

\* The local program takes what was written to it.
ProgramTakes(h) ==
    \/ local[h] = "backlog" /\ Local(h, "open")
    \/ local[h] = "flushing" /\ Local(h, "lost")

\* The local program is gone, or resets the connection.
ProgramGone(h) == local[h] # "lost" /\ Local(h, "lost")

\* stop, once the local server has closed, closes what is left.
StopCloses ==
    /\ stop = "no"
    /\ stop' = "closed"
    /\ active' = [h \in Handler |-> active[h] /\ h \notin sessions]
    /\ CloseLocal(sessions)
    /\ sessions' = {}
    /\ sockets' = {}
    /\ UNCHANGED <<pc, reads, sent, sending, online, toggles>>

\* The path monitor takes a link offline or finds it again.
Toggle(l) ==
    /\ toggles < MaxToggles
    /\ toggles' = toggles + 1
    /\ online' = IF l \in online THEN online \ {l} ELSE online \cup {l}
    /\ UNCHANGED <<pc, active, sessions, local, reads, sent, sending, sockets, stop>>

Works(h) ==
    \/ Refuse(h) \/ Open(h) \/ SendConnect(h) \/ ReadData(h) \/ SendDelayed(h)
    \/ EndOfTry(h) \/ Finish(h)

ClientNext ==
    \/ \E h \in Handler : Works(h) \/ Transmit(h) \/ ServerClose(h)
    \/ \E h \in Handler : WriteQueues(h) \/ WriteFails(h)
                            \/ ProgramTakes(h) \/ ProgramGone(h)
    \/ StopCloses
    \/ \E l \in Link : Toggle(l)

\* The event loop runs every handler that does not wait for the local program,
\* as a read does until the connection is lost.
ClientFairness ==
    \A h \in Handler :
      /\ WF_clientVars(pc[h] # "read" /\ (SendConnect(h) \/ SendDelayed(h) \/ EndOfTry(h)))
      /\ WF_clientVars(pc[h] = "read" /\ local[h] = "lost" /\ (ReadData(h) \/ EndOfTry(h)))
      /\ WF_clientVars(Finish(h) \/ Transmit(h))

ClientSpec == ClientInit /\ [][ClientNext]_clientVars /\ ClientFairness

----------------------------------------------------------------------------
ClientTypeOK ==
    /\ pc \in [Handler -> {"handshake", "replied", "read", "delayed", "sending",
                           "finally", "refused", "done", "leaked"}]
    /\ active \in [Handler -> BOOLEAN]
    /\ sessions \subseteq Handler
    /\ local \in [Handler -> {"open", "backlog", "flushing", "lost"}]
    /\ reads \in [Handler -> 0..MaxData]
    /\ sent \in Seq(Message)
    /\ sending \in [Handler -> 0..Len(sent)]
    /\ online \subseteq Link
    /\ sockets \subseteq Link
    /\ toggles \in 0..MaxToggles
    /\ stop \in {"no", "closed"}

(* The packets of a session are numbered in the order of its commands: CONNECT
   first, then the data as it was read, CLOSE last, none twice, although its
   sends suspend and other sessions take numbers in between.  Of the data none
   is left out: the tunnel may lose a packet, the client does not number the
   data that follows one that it read and did not send. *)
InOrder == \A i, j \in DOMAIN sent :
             i < j /\ sent[i].of = sent[j].of => sent[i].k < sent[j].k
Preceded(i) == \E j \in DOMAIN sent :
                 j < i /\ sent[j].of = sent[i].of /\ sent[j].k = sent[i].k - 1
NumberedInOrder ==
    InOrder /\ \A i \in DOMAIN sent : sent[i].op = "DATA" => Preceded(i)

(* A session leaves the map before its handler ends, so that none stays there
   for ever; the exception is a handler whose finally block raised. *)
NoneForgotten == \A h \in sessions : pc[h] \notin {"handshake", "refused", "done"}

(* A local connection that was not closed has its session in the map, where a
   CLOSE of the server and stop find it, also when its handler has ended because
   its finally block raised. *)
NoneStranded ==
    \A h \in Handler :
      pc[h] # "handshake" /\ local[h] \in {"open", "backlog"} => h \in sessions

(* The handler of a session that was taken out of the map, by the server or by
   stop, ends: it does not go on waiting for the local program, unless that
   leaves what was written to it unread, so that closing does not take effect. *)
IsOrphan(h) == pc[h] \notin {"handshake", "refused"} /\ h \notin sessions
OrphanEnds ==
    \A h \in Handler : IsOrphan(h) /\ local[h] # "flushing" ~> pc[h] \in {"done", "leaked"}
=============================================================================
