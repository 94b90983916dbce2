------------------------------ MODULE Steering ------------------------------
(***************************************************************************)
(* How a transfer finds a link that works: PathMonitor of                  *)
(* client/metrics.py, with a probing task per link; Scheduler of           *)
(* client/scheduler.py, which picks among the links by what the tasks      *)
(* wrote last; LinkSimulator of common/simulator.py, through which a       *)
(* transfer uses a simulated link; and a transfer that tries again when a  *)
(* link fails it, as the downloader does.                                  *)
(*                                                                         *)
(* Of a link's numbers only what decides is kept: whether its score is     *)
(* above 0.                                                                *)
(***************************************************************************)
EXTENDS FiniteSets, Naturals

CONSTANTS Sim,        \* simulated links
          Lossy,      \* those with a loss_rate above 0
          Phy,        \* physical links
          NoLink,     \* not a link
          MaxChanges  \* bound: changes of the links

ASSUME SteeringAssumption ==
    /\ Lossy \subseteq Sim /\ Sim \cap Phy = {} /\ NoLink \notin Sim \cup Phy
    /\ MaxChanges \in Nat

Link == Sim \cup Phy

VARIABLES path,       \* "up"; "silent": sends work, nothing answers; "down"
          changes,    \* how often a path changed
          stop,       \* PathMonitor.stop: "no", "called", "returned"
          probe,      \* each link's task: "new", "waiting", "sleeping", "ended"
          is_online,  \* the links' flags
          scored,     \* the links whose score is above 0
          user,       \* the transfer: "select", "delay", "physical",
                      \*   "failed", "done"
          using       \* the link of its attempt

pathVars == <<path, changes>>
metricVars == <<is_online, scored>>
userVars == <<user, using>>
steerVars == <<pathVars, stop, probe, metricVars, userVars>>

SteerInit ==
    /\ path \in {p \in [Link -> {"up", "silent", "down"}] :
                   \A l \in Sim : p[l] # "silent"}
    /\ changes = 0
    /\ stop = "no"
    /\ probe = [l \in Link |-> "new"]
    /\ is_online = Link
    /\ scored = {}
    /\ user = "select"
    /\ using = NoLink

----------------------------------------------------------------------------
(* The links and the monitor. *)

\* SimulatedInterface.toggle, or a physical path that changes.
Toggle(l, p) ==
    /\ changes < MaxChanges
    /\ p # path[l]
    /\ l \in Sim => p # "silent"
    /\ path' = [path EXCEPT ![l] = p]
    /\ changes' = changes + 1
    /\ UNCHANGED <<stop, probe, metricVars, userVars>>

\* What a probe may write, update_score included.
Alive(l) == is_online' = is_online \cup {l} /\ scored' = scored \cup {l}
Dead(l) == is_online' = is_online \ {l} /\ scored' = scored \ {l}

Sleep(l) == probe' = [probe EXCEPT ![l] = "sleeping"]

\* The head of the loop: stop has not been called, the task starts or wakes.
Awake(l) == stop = "no" /\ probe[l] \in {"new", "sleeping"}

\* Mutant: a simulated link that is back does not get its flag back.
ProbeSimulatedForgets(l) ==
    /\ Awake(l)
    /\ Sleep(l)
    /\ IF path[l] = "up"
       THEN /\ scored' = scored \cup ({l} \cap is_online)
            /\ UNCHANGED is_online
       ELSE Dead(l)
    /\ UNCHANGED <<pathVars, stop, userVars>>

\* A round of a simulated link; one that counts as lost changes only numbers.
ProbeSimulated(l) ==
    /\ Awake(l)
    /\ Sleep(l)
    /\ IF path[l] = "up" THEN Alive(l) ELSE Dead(l)
    /\ UNCHANGED <<pathVars, stop, userVars>>

\* _ping_physical up to its wait for an answer.
SendPing(l) ==
    /\ Awake(l)
    /\ path[l] # "down"
    /\ probe' = [probe EXCEPT ![l] = "waiting"]
    /\ UNCHANGED <<pathVars, stop, metricVars, userVars>>

\* Mutant: a failure is taken for a lost answer.
PingFailsQuietly(l) ==
    /\ path[l] = "down"
    /\ Awake(l) \/ probe[l] = "waiting"
    /\ scored' = scored \cup ({l} \cap is_online)
    /\ Sleep(l)
    /\ UNCHANGED <<pathVars, stop, is_online, userVars>>

\* bind, the send or the receive raises: the link has no address any more.
PingFails(l) ==
    /\ path[l] = "down"
    /\ Awake(l) \/ probe[l] = "waiting"
    /\ Dead(l)
    /\ Sleep(l)
    /\ UNCHANGED <<pathVars, stop, userVars>>

\* An answer.  Like an error, it is handled even when stop is called in the same
\* turn of the event loop: wait_for, before Python 3.12, then prefers it.
PingAnswered(l) ==
    /\ probe[l] = "waiting"
    /\ path[l] = "up"
    /\ Alive(l)
    /\ Sleep(l)
    /\ UNCHANGED <<pathVars, stop, userVars>>

\* 1.5 seconds without one: is_online stays as it was.
PingTimesOut(l) ==
    /\ probe[l] = "waiting"
    /\ stop = "no"
    /\ scored' = scored \cup ({l} \cap is_online)
    /\ Sleep(l)
    /\ UNCHANGED <<pathVars, stop, is_online, userVars>>

StopCalled ==
    /\ stop = "no"
    /\ stop' = "called"
    /\ UNCHANGED <<pathVars, probe, metricVars, userVars>>

\* A cancelled task ends, in its ping or in its sleep.
ProbeEnds(l) ==
    /\ stop = "called"
    /\ probe[l] # "ended"
    /\ probe' = [probe EXCEPT ![l] = "ended"]
    /\ UNCHANGED <<pathVars, stop, metricVars, userVars>>

\* Mutant: stop does not wait for the tasks it cancelled.
StopHurries ==
    /\ stop = "called"
    /\ stop' = "returned"
    /\ UNCHANGED <<pathVars, probe, metricVars, userVars>>

\* gather has seen the end of all of them.
StopReturns ==
    /\ stop = "called"
    /\ \A l \in Link : probe[l] = "ended"
    /\ stop' = "returned"
    /\ UNCHANGED <<pathVars, probe, metricVars, userVars>>

----------------------------------------------------------------------------
(* The scheduler, and a transfer over the link it picks. *)

\* get_active_links.
Active == is_online \cap scored

\* What an attempt over l comes to at once: simulate_delay raises on a link that
\* is down and for a lost packet, or sleeps.
Outcome(l) ==
    IF l \in Phy THEN {"physical"}
    ELSE {o \in {"delay", "failed"} :
            IF o = "delay" THEN path[l] = "up" ELSE path[l] = "down" \/ l \in Lossy}

\* select_interface_wrr: every active link has its share of the draw.
Select(l) ==
    /\ user = "select"
    /\ l \in Active
    /\ using' = l
    /\ user' \in Outcome(l)
    /\ UNCHANGED <<pathVars, stop, probe, metricVars>>

\* The attempt is done if the link works when it is used: throttle_stream looks
\* again after the delay; a silent physical path ends a connection by a timeout.
Use ==
    /\ user \in {"delay", "physical"}
    /\ user' = IF path[using] = "up" THEN "done" ELSE "failed"
    /\ UNCHANGED <<pathVars, stop, probe, metricVars, using>>

\* The exception handler has slept for a second.
Retry ==
    /\ user = "failed"
    /\ user' = "select" /\ using' = NoLink
    /\ UNCHANGED <<pathVars, stop, probe, metricVars>>

ProbeStep(l) ==
    \/ l \in Sim /\ ProbeSimulated(l)
    \/ l \in Phy /\ (SendPing(l) \/ PingFails(l) \/ PingAnswered(l) \/ PingTimesOut(l))
    \/ ProbeEnds(l)

SteerNext ==
    \/ \E l \in Link : ProbeStep(l) \/ Select(l)
    \/ \E l \in Link, p \in {"up", "silent", "down"} : Toggle(l, p)
    \/ StopCalled \/ StopReturns
    \/ Use \/ Retry

\* Tasks run; a path that stays up does not lose every answer, nor a lossy one
\* every packet; the draw gives every active link its share, again and again.
SteerFairness ==
    /\ \A l \in Link : /\ WF_steerVars(ProbeStep(l))
                       /\ SF_steerVars(Select(l) /\ user' # "failed")
    /\ \A l \in Phy : SF_steerVars(PingAnswered(l))
    /\ WF_steerVars(StopReturns)
    /\ WF_steerVars(Use) /\ WF_steerVars(Retry)

SteerSpec == SteerInit /\ [][SteerNext]_steerVars
SteerFairSpec == SteerSpec /\ SteerFairness

----------------------------------------------------------------------------
SteerTypeOK ==
    /\ path \in [Link -> {"up", "silent", "down"}]
    /\ changes \in 0..MaxChanges
    /\ stop \in {"no", "called", "returned"}
    /\ probe \in [Link -> {"new", "waiting", "sleeping", "ended"}]
    /\ is_online \subseteq Link
    /\ scored \subseteq Link
    /\ user \in {"select", "delay", "physical", "failed", "done"}
    /\ using \in Link \cup {NoLink}

(* Failover, first half: a link that goes down for good leaves the choice for
   good, whatever its metrics were and whatever ping was under way.  (Not so a
   link that only falls silent: a ping without an answer does not take it
   offline, metrics.py:187.) *)
DeadLinkLeaves ==
    \A l \in Link : <>[](path[l] = "down" /\ stop = "no") => <>[](l \notin Active)

(* Failover, second half: a transfer that tries again gets through as soon as
   one link is up for good, although it may be drawn to links that look alive
   and are not, and although the good one may have been down before. *)
TransferGetsThrough ==
    \A l \in Link : <>[](path[l] = "up" /\ stop = "no") => <>(user = "done")

(* No task is left when stop returns: what the scheduler of the next monitor is
   compared with, and what it reads, no longer moves. *)
QuietAfterStop == [][stop = "returned" => UNCHANGED <<probe, metricVars>>]_steerVars
=============================================================================
