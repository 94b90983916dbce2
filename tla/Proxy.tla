------------------------------- MODULE Proxy -------------------------------
(***************************************************************************)
(* One connection of Socks5Proxy (client/proxy.py): the SOCKS handshake,   *)
(* the connection to the target over the link the Scheduler picks, and two *)
(* relay tasks, each of which closes the stream it writes to when the one  *)
(* it reads from ends.  Closing an asyncio stream closes the whole         *)
(* connection: what the far side sends from then on is not read any more.  *)
(*                                                                         *)
(* Connections share only the Scheduler (module Steering), so that one is  *)
(* enough.  The units of a stream are counted.                             *)
(***************************************************************************)
EXTENDS Naturals, Sequences

CONSTANT MaxUnits  \* bound: units that each side sends

ASSUME ProxyAssumption == MaxUnits \in Nat

Dir == {"up", "down"}
Conn == {"client", "remote"}
Source == [up |-> "client", down |-> "remote"]
Sink == [up |-> "remote", down |-> "client"]

VARIABLES is_running,
          pc,       \* the handler: "hello", "request", "resolve", "connect",
                    \*   "relay", "closing", "closed"
          is_sim,   \* whether the link picked is a simulated one
          replies,  \* what _send_reply wrote
          conn,     \* "none", "open", "closing", "lost" or "reset"
          sent,     \* direction -> units its source has sent
          fin,      \* directions whose source has ended its stream
          end,      \* direction -> how many units can be read at most
          got,      \* direction -> units read
          out,      \* direction -> units written to the sink
          relay,    \* direction -> its task: "none", "read", "pace", "drain",
                    \*   "ending", "waiting", "done"
          failed,   \* directions whose relay raised
          first     \* the direction that came to its finally block first

handlerVars == <<pc, is_sim, replies>>
envVars == <<sent, fin>>
relayVars == <<got, out, relay, failed, first>>
vars == <<is_running, handlerVars, conn, envVars, end, relayVars>>

Init ==
    /\ is_running = TRUE
    /\ pc = "hello"
    /\ is_sim = FALSE
    /\ replies = <<>>
    /\ conn = [c \in Conn |-> IF c = "client" THEN "open" ELSE "none"]
    /\ sent = [d \in Dir |-> 0]
    /\ fin = {}
    /\ end = [d \in Dir |-> MaxUnits]
    /\ got = [d \in Dir |-> 0]
    /\ out = [d \in Dir |-> 0]
    /\ relay = [d \in Dir |-> "none"]
    /\ failed = {}
    /\ first = "none"

----------------------------------------------------------------------------
(* The two programs, and Socks5Proxy.stop. *)

Alive(d) == conn[Source[d]] \in {"open", "closing"} /\ d \notin fin

SourceSends(d) ==
    /\ pc = "relay" /\ Alive(d)
    /\ sent[d] < MaxUnits
    /\ sent' = [sent EXCEPT ![d] = @ + 1]
    /\ UNCHANGED <<is_running, handlerVars, conn, fin, end, relayVars>>

SourceEnds(d) ==
    /\ Alive(d)
    /\ fin' = fin \cup {d}
    /\ UNCHANGED <<is_running, handlerVars, conn, sent, end, relayVars>>

Reset(c) ==
    /\ pc = "relay"
    /\ conn[c] \in {"open", "closing"}
    /\ conn' = [conn EXCEPT ![c] = "reset"]
    /\ UNCHANGED <<is_running, handlerVars, envVars, end, relayVars>>

Stop ==
    /\ is_running
    /\ is_running' = FALSE
    /\ UNCHANGED <<handlerVars, conn, envVars, end, relayVars>>

----------------------------------------------------------------------------
(* _handle_client up to the relays. *)

\* StreamWriter.close: the connection is read no further, so that of what its
\* far side sent only what is buffered already (k units) remains.
Close(c) ==
    LET d == CHOOSE d \in Dir : Source[d] = c
    IN  IF conn[c] = "open"
        THEN /\ conn' = [conn EXCEPT ![c] = "closing"]
             /\ \E k \in got[d]..sent[d] : end' = [end EXCEPT ![d] = k]
        ELSE UNCHANGED <<conn, end>>

Advance(from, to) ==
    /\ pc = from
    /\ pc' = to
    /\ UNCHANGED <<is_running, is_sim, replies, conn, envVars, end, relayVars>>

\* A refusal: a reply, or none when an exception or a wrong version ends the
\* handshake; either way the connection is closed.
Refuse(statuses) ==
    /\ pc' = "closing"
    /\ \/ \E s \in statuses : replies' = Append(replies, s)
       \/ UNCHANGED replies
    /\ Close("client")
    /\ UNCHANGED <<is_running, is_sim, envVars, relayVars>>

\* Version, methods, request: 7 for a command, 8 for an address type it does not
\* know; 4 when there is no link or no address for the name.  The draw of the
\* link is outside of the inner try: without a link there, no reply.
Greeted == Advance("hello", "request") \/ (pc = "hello" /\ Refuse({}))
Requested == Advance("request", "resolve") \/ (pc = "request" /\ Refuse({7, 8}))
Resolved ==
    \/ /\ pc = "resolve"
       /\ pc' = "connect"
       /\ is_sim' \in BOOLEAN
       /\ UNCHANGED <<is_running, replies, conn, envVars, end, relayVars>>
    \/ pc = "resolve" /\ Refuse({4})

\* A physical link that fails to connect: 3; a simulated one: no reply.
ConnectFails == pc = "connect" /\ Refuse(IF is_sim THEN {} ELSE {3})

\* The head of a relay's loop.
Loop == IF is_running THEN "read" ELSE "ending"

Connected ==
    /\ pc = "connect"
    /\ conn' = [conn EXCEPT !["remote"] = "open"]
    /\ replies' = Append(replies, 0)
    /\ relay' = [d \in Dir |-> Loop]
    /\ pc' = "relay"
    /\ UNCHANGED <<is_running, is_sim, envVars, end, got, out, failed, first>>

----------------------------------------------------------------------------
(* _relay_stream. *)

Goto(d, l) == relay' = [relay EXCEPT ![d] = l]

\* Coming to the finally block.
Ending(d) == first' = IF first = "none" THEN d ELSE first
Raise(d) == Goto(d, "ending") /\ Ending(d) /\ failed' = failed \cup {d}

Readable(d) == IF sent[d] < end[d] THEN sent[d] ELSE end[d]

\* read returns some of what is there.
Read(d) ==
    /\ relay[d] = "read"
    /\ conn[Source[d]] # "reset"
    /\ \E n \in (got[d] + 1)..Readable(d) : got' = [got EXCEPT ![d] = n]
    /\ Goto(d, "pace")
    /\ UNCHANGED <<is_running, handlerVars, conn, envVars, end, out, failed, first>>

\* Mutant: a source that has ended is not read to its end.
ReadEofEarly(d) ==
    /\ relay[d] = "read"
    /\ conn[Source[d]] # "reset"
    /\ d \in fin \/ (got[d] = Readable(d) /\ conn[Source[d]] = "lost")
    /\ Goto(d, "ending") /\ Ending(d)
    /\ UNCHANGED <<is_running, handlerVars, conn, envVars, end, got, out, failed>>

\* It returns nothing: the source has ended, or was closed on this side.
ReadEof(d) ==
    /\ relay[d] = "read"
    /\ conn[Source[d]] # "reset"
    /\ got[d] = Readable(d)
    /\ d \in fin \/ conn[Source[d]] = "lost"
    /\ Goto(d, "ending") /\ Ending(d)
    /\ UNCHANGED <<is_running, handlerVars, conn, envVars, end, got, out, failed>>

\* simulate_delay and throttle_stream, on a simulated link, then the write.
Write(d) ==
    /\ relay[d] = "pace"
    /\ out' = [out EXCEPT ![d] = got[d]]
    /\ Goto(d, "drain")
    /\ UNCHANGED <<is_running, handlerVars, conn, envVars, end, got, failed, first>>

\* drain returns, and the loop looks at is_running.
Drained(d) ==
    /\ relay[d] = "drain"
    /\ conn[Sink[d]] # "reset"
    /\ Goto(d, Loop)
    /\ IF is_running THEN UNCHANGED first ELSE Ending(d)
    /\ UNCHANGED <<is_running, handlerVars, conn, envVars, end, got, out, failed>>

\* The link raises, or the connection read or written was reset.
RelayRaises(d) ==
    /\ \/ relay[d] = "pace" /\ is_sim
       \/ relay[d] = "read" /\ conn[Source[d]] = "reset"
       \/ relay[d] = "drain" /\ conn[Sink[d]] = "reset"
    /\ Raise(d)
    /\ UNCHANGED <<is_running, handlerVars, conn, envVars, end, got, out>>

\* Mutant: a relay that raised does not close its stream.
FinallyOnSuccess(d) ==
    /\ relay[d] = "ending"
    /\ IF d \in failed THEN Goto(d, "done") /\ UNCHANGED <<conn, end>>
       ELSE Goto(d, "waiting") /\ Close(Sink[d])
    /\ UNCHANGED <<is_running, handlerVars, envVars, got, out, failed, first>>

\* finally: the stream written to is closed, and waited for.
Finally(d) ==
    /\ relay[d] = "ending"
    /\ Goto(d, "waiting")
    /\ Close(Sink[d])
    /\ UNCHANGED <<is_running, handlerVars, envVars, got, out, failed, first>>

Waited(d) ==
    /\ relay[d] = "waiting"
    /\ conn[Sink[d]] \in {"lost", "reset"}
    /\ Goto(d, "done")
    /\ UNCHANGED <<is_running, handlerVars, conn, envVars, end, got, out, failed, first>>

\* A closed connection has sent what was buffered, and is gone.
Lost(c) ==
    /\ conn[c] = "closing"
    /\ conn' = [conn EXCEPT ![c] = "lost"]
    /\ UNCHANGED <<is_running, handlerVars, envVars, end, relayVars>>

\* Mutant: the handler waits for one of the relays only.
GatherFirst ==
    /\ pc = "relay"
    /\ \E d \in Dir : relay[d] = "done"
    /\ pc' = "closing"
    /\ Close("client")
    /\ UNCHANGED <<is_running, is_sim, replies, envVars, relayVars>>

\* gather returns; the outer finally closes the client's connection.
Gather ==
    /\ pc = "relay"
    /\ \A d \in Dir : relay[d] = "done"
    /\ pc' = "closing"
    /\ Close("client")
    /\ UNCHANGED <<is_running, is_sim, replies, envVars, relayVars>>

Closed ==
    /\ pc = "closing"
    /\ conn["client"] \in {"lost", "reset"}
    /\ pc' = "closed"
    /\ UNCHANGED <<is_running, is_sim, replies, conn, envVars, end, relayVars>>

RelayStep(d) ==
    \/ Read(d) \/ ReadEof(d) \/ Write(d) \/ Drained(d) \/ RelayRaises(d)
    \/ Finally(d) \/ Waited(d)

Next ==
    \/ \E d \in Dir : SourceSends(d) \/ SourceEnds(d) \/ RelayStep(d)
    \/ \E c \in Conn : Reset(c) \/ Lost(c)
    \/ Stop
    \/ Greeted \/ Requested \/ Resolved \/ ConnectFails \/ Connected
    \/ Gather \/ Closed

\* The tasks run, and both programs read what they are sent; a name is resolved
\* and a connection made or refused in the end.
Fairness ==
    /\ \A d \in Dir : WF_vars(RelayStep(d))
    /\ \A c \in Conn : WF_vars(Lost(c))
    /\ WF_vars(Resolved) /\ WF_vars(ConnectFails \/ Connected)
    /\ WF_vars(Gather) /\ WF_vars(Closed)

Spec == Init /\ [][Next]_vars
FairSpec == Spec /\ Fairness

----------------------------------------------------------------------------
TypeOK ==
    /\ is_running \in BOOLEAN /\ is_sim \in BOOLEAN
    /\ pc \in {"hello", "request", "resolve", "connect", "relay", "closing", "closed"}
    /\ replies \in Seq({0, 3, 4, 7, 8})
    /\ conn \in [Conn -> {"none", "open", "closing", "lost", "reset"}]
    /\ sent \in [Dir -> 0..MaxUnits] /\ end \in [Dir -> 0..MaxUnits]
    /\ got \in [Dir -> 0..MaxUnits] /\ out \in [Dir -> 0..MaxUnits]
    /\ relay \in [Dir -> {"none", "read", "pace", "drain", "ending", "waiting", "done"}]
    /\ fin \subseteq Dir /\ failed \subseteq Dir
    /\ first \in Dir \cup {"none"}

(* The direction that ends first, unless by an error or because the proxy
   stops, has passed on everything its source sent: no read, no pacing on a
   simulated link and no write loses the tail of a stream.  (The other
   direction may be cut off: a client that ends its side after the request
   closes the target's connection, answer or no answer, proxy.py:206.) *)
FirstEndIsWhole ==
    \A d \in Dir : first = d /\ d \notin failed /\ is_running =>
        d \in fin /\ out[d] = sent[d]

(* A client hears at most one status, "success" only with the target's
   connection made and before any of its data, and a client that was refused
   has no connection behind it. *)
OneStatus ==
    /\ Len(replies) <= 1
    /\ (replies = <<0>>) <=> (conn["remote"] # "none")
    /\ out["down"] > 0 => replies = <<0>>

(* When the handler has ended, by whatever error, both connections are gone and
   no relay runs on. *)
NoOrphan ==
    pc = "closed" => /\ \A c \in Conn : conn[c] \notin {"open", "closing"}
                     /\ \A d \in Dir : relay[d] \in {"none", "done"}

(* The end of either program, or the loss of either connection, ends both: a
   client is not kept waiting for a target that is gone, nor the reverse. *)
EndsTogether ==
    (pc = "relay" /\ (fin # {} \/ \E c \in Conn : conn[c] = "reset")) ~> (pc = "closed")
=============================================================================
