------------------------------- MODULE Router -------------------------------
(***************************************************************************)
(* AetherRouter and UserSpaceSession of aetherbond/server/router.py: the   *)
(* aggregator's end of the tunnel.  Payloads come out of the resequencer   *)
(* in order; each becomes an asyncio task, and the tasks start in order.   *)
(* Nobody sees a payload before its task starts, so its arrival and that   *)
(* task's first step are one action.  CONNECT, CLOSE, the shutdown and     *)
(* every reply of a target take one router-wide asyncio.Lock, DATA takes   *)
(* none.                                                                   *)
(*                                                                         *)
(* A command is known by its place in `log`, a session object by the       *)
(* command that created it.  An action runs from one point where the event *)
(* loop may switch tasks to the next.  asyncio.Lock is fair: `lockq` holds *)
(* the lock's owner at its head and its waiters in FIFO order behind it;   *)
(* a task that finds it empty goes on without switching.  A cancelled      *)
(* waiter leaves the queue.  phase is what the owner is suspended in, or   *)
(* "idle" when it was handed the lock and has not run since.               *)
(*                                                                         *)
(* Wire format, encryption and addresses are left out.  UDP sessions       *)
(* connect and close without suspending.                                   *)
(***************************************************************************)
EXTENDS Naturals, Sequences, FiniteSets

CONSTANTS Sid,          \* session ids
          Unreachable,  \* ids of sessions whose connect may fail: the target refuses, or
                        \* no UDP socket can be made
          MaxCmds,      \* bound: commands the client sends
          MaxReplies    \* bound: messages of one target

ASSUME RouterAssumption ==
    /\ Unreachable \subseteq Sid
    /\ MaxCmds \in Nat
    /\ MaxReplies \in Nat

Op == {"CONNECT_TCP", "CONNECT_UDP", "DATA", "CLOSE"}
Connects == {"CONNECT_TCP", "CONNECT_UDP"}
Command == [op : Op, sid : Sid]
Object == 1..MaxCmds
NoObject == 0

CmdTask(i) == [task |-> "cmd", id |-> i]
RelayTask(o) == [task |-> "relay", id |-> o]
CleanupTask == [task |-> "cleanup", id |-> 0]
Task == {CmdTask(i) : i \in Object} \cup {RelayTask(o) : o \in Object}
          \cup {CleanupTask}

VARIABLES log,       \* history: the commands whose tasks have started, in order
          lockq,     \* _lock: its owner and, behind it, its waiters
          phase,     \* what the owner is suspended in
          sessions,  \* session id -> object, or NoObject
          conn,      \* object -> state of its connection
          target,    \* history: object -> the DATA its target received
          reads,     \* object -> messages its relay task has read
          toClient,  \* history: replies sent, with their sequence numbers
          shutdown   \* whether cleanup was called

vars == <<log, lockq, phase, sessions, conn, target, reads, toClient,
          shutdown>>

lockVars == <<lockq, phase>>
objVars == <<sessions, conn>>
dataVars == <<target, reads, toClient>>

----------------------------------------------------------------------------
IsActive(o) == o # NoObject /\ conn[o] = "active"

IsTcp(o) == log[o].op = "CONNECT_TCP"

\* UserSpaceSession.close of the objects O, up to its first suspension: the
\* active ones become inactive and their relay tasks are cancelled.
CloseConn(O) ==
    [o \in Object |-> IF o \in O /\ conn[o] = "active" THEN "closed" ELSE conn[o]]

\* Mutant: close leaves the relay task alone.
CancelsNothing(q, O) == q

\* The entries of q at the positions K, in their order.
Entries(q, K) ==
    [i \in 1..Cardinality(K) |->
        q[CHOOSE k \in K : Cardinality({j \in K : j <= k}) = i]]

CancelRelays(q, O) ==
    Entries(q, {k \in DOMAIN q :
                  ~ (q[k].task = "relay" /\ IsActive(q[k].id) /\ q[k].id \in O)})

\* Only a stream that was open makes close wait (wait_closed).
CloseSuspends(o) == IsActive(o) /\ IsTcp(o)

\* The owner of lock queue q leaves the critical section.
Leave(q) == lockq' = Tail(q) /\ phase' = "idle"

\* It stays in it, suspended in p.
Hold(q, p) == lockq' = q /\ phase' = p

----------------------------------------------------------------------------
(* The critical sections, entered by the head of lock queue q.             *)

\* connect returns False.  The CONNECT task calls _send_back_to_client, which
\* waits for the lock that the task itself holds.
FailConnect(i, q, cn) ==
    /\ conn' = [cn EXCEPT ![i] = "failed"]
    /\ Hold(Append(q, CmdTask(i)), "notifying")

\* CONNECT number i, the command c, from the creation of the session object
\* on; cn is conn by then.
OpenSession(i, c, q, cn) ==
    /\ sessions' = [sessions EXCEPT ![c.sid] = i]
    /\ \/ /\ c.op = "CONNECT_TCP"
          /\ conn' = [cn EXCEPT ![i] = "opening"]
          /\ Hold(q, "connecting")
       \/ /\ c.op = "CONNECT_UDP"
          /\ conn' = [cn EXCEPT ![i] = "active"]
          /\ Leave(q)
       \/ /\ c.op = "CONNECT_UDP"
          /\ c.sid \in Unreachable
          /\ FailConnect(i, q, cn)

\* Mutant: a CONNECT does not close the session that had the id.
ConnectKeepsOld(i, c, q) == OpenSession(i, c, q, conn)

EnterConnect(i, c, q) ==
    LET old == sessions[c.sid]
        rest == CancelRelays(q, {old})
    IN  \/ /\ CloseSuspends(old)
           /\ conn' = CloseConn({old})
           /\ Hold(rest, "closing_old")
           /\ UNCHANGED sessions
        \/ /\ ~ CloseSuspends(old)
           /\ OpenSession(i, c, rest, CloseConn({old}))

\* Mutant: CLOSE only removes the session from the map.
CloseOnlyPops(c, q) ==
    /\ sessions' = [sessions EXCEPT ![c.sid] = NoObject]
    /\ Leave(q)
    /\ UNCHANGED conn

EnterClose(c, q) ==
    LET old == sessions[c.sid]
        rest == CancelRelays(q, {old})
    IN  /\ sessions' = [sessions EXCEPT ![c.sid] = NoObject]
        /\ conn' = CloseConn({old})
        /\ IF CloseSuspends(old) THEN Hold(rest, "closing") ELSE Leave(rest)

\* Mutant: cleanup stops after the first stream.
CleanupStopsEarly(q) ==
    LET open == {o \in Object : IsActive(o) /\ sessions[log[o].sid] = o}
    IN  \/ \E o \in open :
             /\ IsTcp(o)
             /\ conn' = CloseConn({o})
             /\ Hold(CancelRelays(q, {o}), "closing")
             /\ UNCHANGED sessions
        \/ /\ \A o \in open : ~ IsTcp(o)
           /\ conn' = CloseConn(open)
           /\ sessions' = [s \in Sid |-> NoObject]
           /\ Leave(CancelRelays(q, open))

\* cleanup closes the sessions one after the other: the UDP ones as it comes
\* to them, a stream with a suspension.  After the last it clears the map.
EnterCleanup(q) ==
    LET open == {o \in Object : IsActive(o) /\ sessions[log[o].sid] = o}
        tcp == {o \in open : IsTcp(o)}
    IN  \/ \E o \in tcp, U \in SUBSET (open \ tcp) :
             /\ conn' = CloseConn({o} \cup U)
             /\ Hold(CancelRelays(q, {o} \cup U), "cleaning")
             /\ UNCHANGED sessions
        \/ /\ tcp = {}
           /\ conn' = CloseConn(open)
           /\ sessions' = [s \in Sid |-> NoObject]
           /\ Leave(CancelRelays(q, open))

EnterCmd(i, c, q) ==
    \/ c.op \in Connects /\ EnterConnect(i, c, q)
    \/ c.op = "CLOSE" /\ EnterClose(c, q)

\* The second half of _send_back_to_client: the next sequence number, and the
\* datagram, which goes out without another suspension.
SendReply(o, n) ==
    toClient' = Append(toClient, [seq |-> Len(toClient), obj |-> o, n |-> n])

----------------------------------------------------------------------------
Init ==
    /\ log = <<>>
    /\ lockq = <<>>
    /\ phase = "idle"
    /\ sessions = [s \in Sid |-> NoObject]
    /\ conn = [o \in Object |-> "none"]
    /\ target = [o \in Object |-> <<>>]
    /\ reads = [o \in Object |-> 0]
    /\ toClient = <<>>
    /\ shutdown = FALSE

\* _handle_reordered_packet and the first step of _process_payload.
Starts(op, sid) ==
    /\ Len(log) < MaxCmds
    /\ log' = Append(log, [op |-> op, sid |-> sid])

\* Mutant: a write that fails is ignored.
StartDataIgnoringErrors(sid) ==
    /\ Starts("DATA", sid)
    /\ LET o == sessions[sid]
       IN  target' \in {target} \cup
             {[target EXCEPT ![x] = Append(@, Len(log'))] : x \in {o} \cap Object}
    /\ UNCHANGED <<lockVars, objVars, reads, toClient, shutdown>>

StartData(sid) ==
    /\ Starts("DATA", sid)
    /\ LET o == sessions[sid]
       IN  target' = IF IsActive(o)
                     THEN [target EXCEPT ![o] = Append(@, Len(log'))] ELSE target
    /\ UNCHANGED <<lockVars, objVars, reads, toClient, shutdown>>

StartLocked(op, sid) ==
    /\ op # "DATA"
    /\ Starts(op, sid)
    /\ LET i == Len(log')
       IN  \/ /\ lockq = <<>>
              /\ EnterCmd(i, log'[i], <<CmdTask(i)>>)
           \/ /\ lockq # <<>>
              /\ lockq' = Append(lockq, CmdTask(i))
              /\ UNCHANGED <<phase, objVars>>
    /\ UNCHANGED <<dataVars, shutdown>>

\* cleanup, once.
Shutdown ==
    /\ ~ shutdown
    /\ shutdown' = TRUE
    /\ \/ lockq = <<>> /\ EnterCleanup(<<CleanupTask>>)
       \/ /\ lockq # <<>>
          /\ lockq' = Append(lockq, CleanupTask)
          /\ UNCHANGED <<phase, objVars>>
    /\ UNCHANGED <<log, dataVars>>

\* The task that was handed the lock runs.
Resume ==
    /\ lockq # <<>>
    /\ phase = "idle"
    /\ LET t == Head(lockq)
       IN  \/ /\ t.task = "cmd"
              /\ EnterCmd(t.id, log[t.id], lockq)
              /\ UNCHANGED dataVars
           \/ /\ t.task = "cleanup"
              /\ EnterCleanup(lockq)
              /\ UNCHANGED dataVars
           \/ /\ t.task = "relay"
              /\ SendReply(t.id, reads[t.id])
              /\ Leave(lockq)
              /\ UNCHANGED <<objVars, target, reads>>
    /\ UNCHANGED <<log, shutdown>>

\* wait_closed returns.
StreamClosed ==
    /\ \/ /\ phase = "closing_old"
          /\ LET i == Head(lockq).id IN OpenSession(i, log[i], lockq, conn)
       \/ /\ phase = "closing"
          /\ Leave(lockq)
          /\ UNCHANGED objVars
       \/ /\ phase = "cleaning"
          /\ EnterCleanup(lockq)
    /\ UNCHANGED <<log, dataVars, shutdown>>

\* Mutant: the lock is not released after the connect.
ConnectKeepsLock ==
    /\ phase = "connecting"
    /\ conn' = [conn EXCEPT ![Head(lockq).id] = "active"]
    /\ UNCHANGED <<log, lockVars, sessions, dataVars, shutdown>>

ConnectOk ==
    /\ phase = "connecting"
    /\ conn' = [conn EXCEPT ![Head(lockq).id] = "active"]
    /\ Leave(lockq)
    /\ UNCHANGED <<log, sessions, dataVars, shutdown>>

\* open_connection raises.
ConnectFails ==
    /\ phase = "connecting"
    /\ LET i == Head(lockq).id
       IN  /\ log[i].sid \in Unreachable
           /\ FailConnect(i, lockq, conn)
    /\ UNCHANGED <<log, sessions, dataVars, shutdown>>

IsWaiting(o) == \E k \in DOMAIN lockq : lockq[k] = RelayTask(o)

\* Mutant: a reply that finds the lock taken is dropped.
ReplyDropped(o) ==
    /\ IsActive(o)
    /\ reads[o] < MaxReplies
    /\ reads' = [reads EXCEPT ![o] = @ + 1]
    /\ \/ lockq = <<>> /\ SendReply(o, reads[o] + 1)
       \/ lockq # <<>> /\ UNCHANGED toClient
    /\ UNCHANGED <<log, lockVars, objVars, target, shutdown>>

\* The relay task of o reads a message of its target and sends it back.
TargetReply(o) ==
    /\ IsActive(o)
    /\ ~ IsWaiting(o)
    /\ reads[o] < MaxReplies
    /\ reads' = [reads EXCEPT ![o] = @ + 1]
    /\ \/ /\ lockq = <<>>
          /\ SendReply(o, reads[o] + 1)
          /\ UNCHANGED lockq
       \/ /\ lockq # <<>>
          /\ lockq' = Append(lockq, RelayTask(o))
          /\ UNCHANGED toClient
    /\ UNCHANGED <<log, phase, objVars, target, shutdown>>

\* The relay task reads the end of the stream, or an error, and closes the
\* session.  The object stays in the map.
TargetEof(o) ==
    /\ IsActive(o)
    /\ ~ IsWaiting(o)
    /\ conn' = CloseConn({o})
    /\ UNCHANGED <<log, lockVars, sessions, dataVars, shutdown>>

\* The write of a DATA task fails: it closes the session without the lock and
\* cancels the relay task, wherever that is.
SendFails(o) ==
    /\ IsActive(o)
    /\ target[o] # <<>>
    /\ conn' = CloseConn({o})
    /\ lockq' = CancelRelays(lockq, {o})
    /\ UNCHANGED <<log, phase, sessions, dataVars, shutdown>>

Next ==
    \/ \E sid \in Sid : StartData(sid) \/ \E op \in Op : StartLocked(op, sid)
    \/ Shutdown
    \/ Resume
    \/ StreamClosed
    \/ ConnectOk
    \/ ConnectFails
    \/ \E o \in Object : TargetReply(o) \/ TargetEof(o) \/ SendFails(o)

\* The event loop runs the task that was handed the lock, an attempt to connect
\* ends one way or the other, and a closed stream is reported closed.
Fairness ==
    /\ WF_vars(Resume)
    /\ WF_vars(StreamClosed)
    /\ WF_vars(ConnectOk \/ ConnectFails)

Spec == Init /\ [][Next]_vars
FairSpec == Spec /\ Fairness

----------------------------------------------------------------------------
TypeOK ==
    /\ log \in Seq(Command) /\ Len(log) <= MaxCmds
    /\ lockq \in Seq(Task)
    /\ phase \in {"idle", "closing_old", "connecting", "notifying", "closing",
                  "cleaning"}
    /\ sessions \in [Sid -> Object \cup {NoObject}]
    /\ conn \in [Object -> {"none", "opening", "active", "closed", "failed"}]
    /\ target \in [Object -> Seq(Object)]
    /\ reads \in [Object -> 0..MaxReplies]
    /\ toClient \in Seq([seq : Nat, obj : Object, n : 1..MaxReplies])
    /\ shutdown \in BOOLEAN

(* A connection that is open is the one the map holds for its session id: a
   CLOSE, a second CONNECT and the shutdown all find it, so that none is left
   open with nobody to close it. *)
ActiveIsMapped ==
    \A o \in Object : conn[o] = "active" => sessions[log[o].sid] = o

(* What reaches a target has no hole: once a DATA of a connection got through,
   every later one for it does, as long as the connection is open.  (The first
   ones may be missing: they are dropped while the connection opens.) *)
NoHole ==
    \A o \in Object : IsActive(o) =>
      \A k \in DOMAIN target[o] : \A i \in (target[o][k] + 1)..Len(log) :
        log[i] = [op |-> "DATA", sid |-> log[o].sid]
          => \E m \in DOMAIN target[o] : target[o][m] = i

(* The replies of a target go out in the order it sent them, none missing and
   none twice; only the one whose task waits for the lock, or was cancelled
   there, has not gone out. *)
Sent(o, k) == {j \in 1..k : toClient[j].obj = o}
NoReplyLost ==
    \A o \in Object :
      /\ \A k \in DOMAIN toClient :
           toClient[k].obj = o => toClient[k].n = Cardinality(Sent(o, k))
      /\ IsActive(o) =>
           Cardinality(Sent(o, Len(toClient)))
             = IF IsWaiting(o) THEN reads[o] - 1 ELSE reads[o]

(* No reply of a session leaves after the session was closed, although its
   relay task may have been waiting for the lock at that moment: closing
   cancels it. *)
SendsOnlyActive ==
    toClient' # toClient => IsActive(toClient'[Len(toClient')].obj)
NoReplyFromClosed == [][SendsOnlyActive]_vars

(* When cleanup is done no connection is open, whatever was connecting or
   closing when it was called. *)
LeavesNothingOpen ==
    /\ lockq # <<>> /\ Head(lockq) = CleanupTask
    /\ lockq' = <<>> \/ Head(lockq') # CleanupTask
    => \A o \in Object : conn'[o] # "active"
CleanupClosesAll == [][LeavesNothingOpen]_vars

(* A CLOSE ends the connections opened before it for its session id, even when
   it has to wait for a CONNECT that is under way; the exception is a router
   that has locked itself out reporting a failed connect. *)
IsStarted(i, op) == i <= Len(log) /\ log[i].op = op
CloseTakesEffect ==
    \A i \in Object :
      IsStarted(i, "CLOSE")
        ~> \/ /\ i <= Len(log)
              /\ \A o \in 1..(i - 1) : IsActive(o) => log[o].sid # log[i].sid
           \/ phase = "notifying"

(* A relay task that waits for the lock gets it, or its session is closed:
   connects and closes of other sessions hold it up but do not starve it. *)
ReplyGetsOut ==
    \A o \in Object : IsWaiting(o) ~> (~ IsWaiting(o) \/ phase = "notifying")

(* router.py:188, "Notify client of failure": a connect that failed is reported
   to the client, which otherwise waits on an open local socket. *)
FailureNotified ==
    \A i \in Object :
      conn[i] = "failed" ~> \E k \in DOMAIN toClient : toClient[k].obj = i
=============================================================================
