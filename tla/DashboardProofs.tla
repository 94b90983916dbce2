-------------------------- MODULE DashboardProofs --------------------------
(***************************************************************************)
(* Proofs about Dashboard, for any number of requests in any order: the    *)
(* dashboard always has a monitor, and requests that do not overlap leave  *)
(* a whole download; and about Steering, which is what a monitor and its   *)
(* scheduler do, for any links: a monitor whose stop has returned writes   *)
(* nothing any more.                                                       *)
(***************************************************************************)
EXTENDS Dashboard, Steering, TLAPS, FiniteSetTheorems

----------------------------------------------------------------------------
InFlight(r) == pc[r] \in {"stopping", "initializing", "initialized"}

(* A monitor is made once, after its request has waited for the old one. *)
MonitorsFresh == \A r \in Request : pc[r] \in {"idle", "stopping"} => r \notin made

(* A session at work has been started. *)
WorkIsStarted == \A s \in Request : downloading[s] > 0 => s \in is_started

(* What a request in flight may rely on. *)
FlightWhole(r) ==
    /\ \A s \in Request : pending[s] = 0 /\ downloading[s] = 0
    /\ \A s \in Request : InFlight(s) => s = r
    /\ r \notin is_started
    /\ is_enabled = use[r]
    /\ pc[r] = "stopping" => active_monitor \in stopped
    /\ pc[r] # "stopping" => r = active_monitor /\ r = active_session /\ r \notin stopped
    /\ pc[r] = "initialized" => r \in ready

(* A session that was launched, before or after its first step. *)
SessionWhole(s) ==
    /\ s = active_session /\ s = active_monitor
    /\ s \in ready /\ s \notin stopped
    /\ is_enabled = use[s]

(* Without an overlap: one request in flight, or one session launched or at
   work, or nothing. *)
Alone ==
    /\ made \ stopped \subseteq {active_monitor}
    /\ \A r \in Request : InFlight(r) => FlightWhole(r)
    /\ \A r \in Request : pc[r] = "idle" => r \notin is_started
    /\ \A s \in Request : pending[s] > 0 =>
         /\ SessionWhole(s) /\ pending[s] = 1 /\ s \notin is_started
         /\ \A t \in Request : downloading[t] = 0
    /\ \A s \in Request : downloading[s] > 0 =>
         /\ SessionWhole(s) /\ downloading[s] = 1 /\ s \notin is_completed

IInv == /\ TypeOK /\ MonitorsFresh /\ WorkIsStarted /\ AlwaysMonitored
        /\ ~ overlapped => Alone

----------------------------------------------------------------------------
USE DashboardAssumption

(* The inductive invariant holds at first. *)
LEMMA InitIInv == Init => IInv
<1>. SUFFICES ASSUME Init PROVE IInv
  OBVIOUS
<1>1. TypeOK
  BY DEF Init, TypeOK
<1>2. MonitorsFresh /\ WorkIsStarted /\ AlwaysMonitored
  BY DEF Init, MonitorsFresh, WorkIsStarted, AlwaysMonitored
<1>3. Alone
  BY DEF Init, Alone, InFlight
<1>. QED  BY <1>1, <1>2, <1>3 DEF IInv

(* The types, with what they rest on: a session at work was started. *)
LEMMA TypeStep ==
    ASSUME TypeOK, WorkIsStarted, [Next]_vars
    PROVE  TypeOK' /\ WorkIsStarted'
<1>. USE DEF TypeOK, WorkIsStarted
<1>1. ASSUME NEW r \in Request, Refuse(r) PROVE TypeOK' /\ WorkIsStarted'
  BY <1>1 DEF Refuse, Goto, Answer, handlerVars, monitorVars, sessionVars
<1>2. ASSUME NEW r \in Request, Accept(r) PROVE TypeOK' /\ WorkIsStarted'
  BY <1>2 DEF Accept, SetSimulator, Goto, Answer, handlerVars, monitorVars, sessionVars
<1>3. ASSUME NEW r \in Request, Replace(r) PROVE TypeOK' /\ WorkIsStarted'
  BY <1>3 DEF Replace, Goto, Answer, handlerVars, monitorVars, sessionVars
<1>4. ASSUME NEW r \in Request, Initialized(r) PROVE TypeOK' /\ WorkIsStarted'
  BY <1>4 DEF Initialized, Goto, Answer, handlerVars, monitorVars, sessionVars
<1>5. ASSUME NEW r \in Request, InitializeFails(r) PROVE TypeOK' /\ WorkIsStarted'
  BY <1>5 DEF InitializeFails, Goto, Answer, handlerVars, monitorVars, sessionVars
<1>6. ASSUME NEW r \in Request, Launch(r) PROVE TypeOK' /\ WorkIsStarted'
  <2>1. pending' \in [Request -> Nat]
    <3>1. CASE active_session \in Request
      BY <1>6, <3>1 DEF Launch
    <3>2. CASE active_session \notin Request
      BY <1>6, <3>2 DEF Launch
    <3>. QED  BY <3>1, <3>2
  <2>. QED  BY <1>6, <2>1 DEF Launch, Goto, Answer, handlerVars, monitorVars, sessionVars
<1>7. ASSUME NEW s \in Request, Start(s) PROVE TypeOK' /\ WorkIsStarted'
  BY <1>7 DEF Start, Goto, Answer, handlerVars, monitorVars, sessionVars
<1>8. ASSUME NEW s \in Request, Complete(s) PROVE TypeOK' /\ WorkIsStarted'
  BY <1>8 DEF Complete, Goto, Answer, handlerVars, monitorVars, sessionVars
<1>9. CASE UNCHANGED vars
  BY <1>9 DEF vars, handlerVars, monitorVars, sessionVars
<1>10. CASE LinksToggle
  BY <1>10 DEF LinksToggle, handlerVars, monitorVars, sessionVars
<1>. QED  BY <1>1, <1>2, <1>3, <1>4, <1>5, <1>6, <1>7, <1>8, <1>9, <1>10 DEF Next

(* A request makes its monitor once. *)
LEMMA FreshStep ==
    ASSUME TypeOK, MonitorsFresh, [Next]_vars
    PROVE  MonitorsFresh'
<1>. USE DEF TypeOK, MonitorsFresh
<1>1. ASSUME NEW r \in Request, Refuse(r) PROVE MonitorsFresh'
  BY <1>1 DEF Refuse, Goto, Answer, handlerVars, monitorVars, sessionVars
<1>2. ASSUME NEW r \in Request, Accept(r) PROVE MonitorsFresh'
  BY <1>2 DEF Accept, SetSimulator, Goto, Answer, handlerVars, monitorVars, sessionVars
<1>3. ASSUME NEW r \in Request, Replace(r) PROVE MonitorsFresh'
  BY <1>3 DEF Replace, Goto, Answer, handlerVars, monitorVars, sessionVars
<1>4. ASSUME NEW r \in Request, Initialized(r) PROVE MonitorsFresh'
  BY <1>4 DEF Initialized, Goto, Answer, handlerVars, monitorVars, sessionVars
<1>5. ASSUME NEW r \in Request, InitializeFails(r) PROVE MonitorsFresh'
  BY <1>5 DEF InitializeFails, Goto, Answer, handlerVars, monitorVars, sessionVars
<1>6. ASSUME NEW r \in Request, Launch(r) PROVE MonitorsFresh'
  BY <1>6 DEF Launch, Goto, Answer, handlerVars, monitorVars, sessionVars
<1>7. ASSUME NEW s \in Request, Start(s) PROVE MonitorsFresh'
  BY <1>7 DEF Start, Goto, Answer, handlerVars, monitorVars, sessionVars
<1>8. ASSUME NEW s \in Request, Complete(s) PROVE MonitorsFresh'
  BY <1>8 DEF Complete, Goto, Answer, handlerVars, monitorVars, sessionVars
<1>9. CASE UNCHANGED vars
  BY <1>9 DEF vars, handlerVars, monitorVars, sessionVars
<1>10. CASE LinksToggle
  BY <1>10 DEF LinksToggle, handlerVars, monitorVars, sessionVars
<1>. QED  BY <1>1, <1>2, <1>3, <1>4, <1>5, <1>6, <1>7, <1>8, <1>9, <1>10 DEF Next

(* The monitor in use is stopped only by a request that will replace it, and the
   one that replaces it is new. *)
LEMMA MonitoredStep ==
    ASSUME TypeOK, MonitorsFresh, AlwaysMonitored, [Next]_vars
    PROVE  AlwaysMonitored'
<1>. USE DEF TypeOK, MonitorsFresh, AlwaysMonitored
<1>1. ASSUME NEW r \in Request, Refuse(r) PROVE AlwaysMonitored'
  BY <1>1 DEF Refuse, Goto, Answer, handlerVars, monitorVars, sessionVars
<1>2. ASSUME NEW r \in Request, Accept(r) PROVE AlwaysMonitored'
  BY <1>2 DEF Accept, SetSimulator, Goto, Answer, handlerVars, monitorVars, sessionVars
<1>3. ASSUME NEW r \in Request, Replace(r) PROVE AlwaysMonitored'
  BY <1>3 DEF Replace, Goto, Answer, handlerVars, monitorVars, sessionVars
<1>4. ASSUME NEW r \in Request, Initialized(r) PROVE AlwaysMonitored'
  BY <1>4 DEF Initialized, Goto, Answer, handlerVars, monitorVars, sessionVars
<1>5. ASSUME NEW r \in Request, InitializeFails(r) PROVE AlwaysMonitored'
  BY <1>5 DEF InitializeFails, Goto, Answer, handlerVars, monitorVars, sessionVars
<1>6. ASSUME NEW r \in Request, Launch(r) PROVE AlwaysMonitored'
  BY <1>6 DEF Launch, Goto, Answer, handlerVars, monitorVars, sessionVars
<1>7. ASSUME NEW s \in Request, Start(s) PROVE AlwaysMonitored'
  BY <1>7 DEF Start, Goto, Answer, handlerVars, monitorVars, sessionVars
<1>8. ASSUME NEW s \in Request, Complete(s) PROVE AlwaysMonitored'
  BY <1>8 DEF Complete, Goto, Answer, handlerVars, monitorVars, sessionVars
<1>9. CASE UNCHANGED vars
  BY <1>9 DEF vars, handlerVars, monitorVars, sessionVars
<1>10. CASE LinksToggle
  BY <1>10 DEF LinksToggle, handlerVars, monitorVars, sessionVars
<1>. QED  BY <1>1, <1>2, <1>3, <1>4, <1>5, <1>6, <1>7, <1>8, <1>9, <1>10 DEF Next

(* Without an overlap a request finds nothing under way, and hands on to its
   session what it set up. *)
LEMMA AloneStep ==
    ASSUME TypeOK, MonitorsFresh, WorkIsStarted, [Next]_vars,
           ~ overlapped', ~ overlapped => Alone
    PROVE  Alone'
<1>. USE DEF TypeOK, MonitorsFresh, WorkIsStarted
<1>1. ASSUME NEW r \in Request, Refuse(r) PROVE Alone'
  BY <1>1 DEF Refuse, Goto, Answer, handlerVars, monitorVars, sessionVars, Alone, InFlight, FlightWhole, SessionWhole
<1>2. ASSUME NEW r \in Request, Accept(r) PROVE Alone'
  <2>1. /\ ~ overlapped /\ Alone /\ pc[r] = "idle"
        /\ \A s \in Request : ~ InFlight(s) /\ pending[s] = 0
    <3>1. ~ overlapped /\ ~ Underway /\ pc[r] = "idle"
      BY <1>2, Zenon DEF Accept
    <3>. QED  BY <3>1 DEF Underway, InFlight
  <2>2. ASSUME NEW s \in Request PROVE downloading[s] = 0
    <3>1. ~ (active_session \in is_started \ is_completed)
      BY <1>2 DEF Accept, Busy
    <3>2. downloading[s] > 0 => s = active_session /\ s \in is_started \ is_completed
      BY <2>1 DEF Alone, SessionWhole
    <3>. QED  BY <3>1, <3>2
  <2>3. /\ made' \ stopped' \subseteq {active_monitor'}
        /\ \A s \in Request : pending'[s] = 0 /\ downloading'[s] = 0
        /\ \A s \in Request : pc'[s] = "idle" => s \notin is_started'
    BY <1>2, <2>1, <2>2 DEF Accept, SetSimulator, Goto, Answer, handlerVars, monitorVars, sessionVars, Alone
  <2>4. ASSUME NEW s \in Request, InFlight(s)' PROVE FlightWhole(s)'
    <3>1. s = r /\ pc'[r] = "stopping" /\ stopped' = stopped \cup {active_monitor}
      BY <1>2, <2>1, <2>4 DEF Accept, SetSimulator, Goto, Answer, InFlight
    <3>2. \A t \in Request : InFlight(t)' => t = r
      BY <1>2, <2>1 DEF Accept, SetSimulator, Goto, Answer, InFlight
    <3>3. /\ is_enabled' = use'[r] /\ r \notin is_started'
          /\ active_monitor' \in stopped'
      BY <1>2, <2>1, <3>1 DEF Accept, SetSimulator, sessionVars, Alone
    <3>. QED  BY <2>3, <3>1, <3>2, <3>3 DEF FlightWhole
  <2>. QED  BY <2>3, <2>4 DEF Alone
<1>3. ASSUME NEW r \in Request, Replace(r) PROVE Alone'
  BY <1>3 DEF Replace, Goto, Answer, handlerVars, monitorVars, sessionVars, Alone, InFlight, FlightWhole, SessionWhole
<1>4. ASSUME NEW r \in Request, Initialized(r) PROVE Alone'
  BY <1>4 DEF Initialized, Goto, Answer, handlerVars, monitorVars, sessionVars, Alone, InFlight, FlightWhole, SessionWhole
<1>5. ASSUME NEW r \in Request, InitializeFails(r) PROVE Alone'
  BY <1>5 DEF InitializeFails, Goto, Answer, handlerVars, monitorVars, sessionVars, Alone, InFlight, FlightWhole, SessionWhole
<1>6. ASSUME NEW r \in Request, Launch(r) PROVE Alone'
  BY <1>6 DEF Launch, Goto, Answer, handlerVars, monitorVars, sessionVars, Alone, InFlight, FlightWhole, SessionWhole
<1>7. ASSUME NEW s \in Request, Start(s) PROVE Alone'
  <2>1. /\ ~ overlapped /\ Alone /\ pending[s] > 0
        /\ \A t \in Request : ~ InFlight(t)
    BY <1>7 DEF Start, Alone, FlightWhole
  <2>1a. /\ pending[s] = 1 /\ SessionWhole(s)
         /\ s \notin is_started /\ s \notin is_completed
         /\ \A t \in Request : downloading[t] = 0
         /\ \A t \in Request : t # s => pending[t] = 0
    BY <2>1 DEF Alone, SessionWhole
  <2>2. /\ pending' = [pending EXCEPT ![s] = 0]
        /\ downloading' = [downloading EXCEPT ![s] = 1]
        /\ is_started' = is_started \cup {s}
        /\ UNCHANGED <<is_completed, handlerVars, monitorVars, is_enabled,
                       active_session, ready>>
    BY <1>7, <2>1a DEF Start, SessionWhole
  <2>3. pc[s] # "idle"
    BY <2>1a DEF SessionWhole
  <2>4. SessionWhole(s)'
    BY <2>1a, <2>2 DEF SessionWhole, handlerVars, monitorVars
  <2>. QED  BY <2>1, <2>1a, <2>2, <2>3, <2>4 DEF Alone, InFlight, handlerVars, monitorVars
<1>8. ASSUME NEW s \in Request, Complete(s) PROVE Alone'
  BY <1>8 DEF Complete, Goto, Answer, handlerVars, monitorVars, sessionVars, Alone, InFlight, FlightWhole, SessionWhole
<1>9. CASE UNCHANGED vars
  BY <1>9 DEF vars, handlerVars, monitorVars, sessionVars, Alone, InFlight, FlightWhole, SessionWhole
<1>10. CASE LinksToggle
  BY <1>10 DEF LinksToggle, handlerVars, monitorVars, sessionVars, Alone, InFlight, FlightWhole, SessionWhole
<1>. QED  BY <1>1, <1>2, <1>3, <1>4, <1>5, <1>6, <1>7, <1>8, <1>9, <1>10 DEF Next

(* Every step keeps it. *)
LEMMA NextIInv == IInv /\ [Next]_vars => IInv'
  BY TypeStep, FreshStep, MonitoredStep, AloneStep DEF IInv

(* IInv holds in every reachable state. *)
THEOREM Invariant == Spec => []IInv
<1>. QED  BY InitIInv, NextIInv, PTL DEF Spec

(* The variables keep their types. *)
THEOREM TypeCorrect == Spec => []TypeOK
<1>1. IInv => TypeOK
  BY DEF IInv
<1>. QED  BY <1>1, Invariant, PTL

(* AlwaysMonitored: however requests overlap, start_download never leaves the
   dashboard with a monitor that was stopped and nobody replaces. *)
THEOREM MonitoredTheorem == Spec => []AlwaysMonitored
<1>1. IInv => AlwaysMonitored
  BY DEF IInv
<1>. QED  BY <1>1, Invariant, PTL

(* AloneIsWhole: requests that do not overlap leave one monitor, and one download
   at most, of the session shown, with its own monitor and its own simulator. *)
THEOREM AloneTheorem == Spec => []AloneIsWhole
<1>1. ASSUME IInv PROVE AloneIsWhole
  <2>. SUFFICES ASSUME ~ overlapped PROVE AloneIsWhole
    BY DEF AloneIsWhole
  <2>1. Alone
    BY <1>1 DEF IInv
  <2>2. Cardinality(made \ stopped) <= 1
    <3>1. IsFiniteSet({active_monitor}) /\ Cardinality({active_monitor}) = 1
      BY FS_Singleton
    <3>2. /\ Cardinality(made \ stopped) <= Cardinality({active_monitor})
          /\ IsFiniteSet(made \ stopped)
      BY <2>1, <3>1, FS_Subset DEF Alone
    <3>. QED  BY <3>1, <3>2, FS_CardinalityType
  <2>. QED  BY <2>1, <2>2 DEF AloneIsWhole, Alone, SessionWhole
<1>. QED  BY <1>1, Invariant, PTL

----------------------------------------------------------------------------
(* stop returns when every probing task has ended. *)
StopGathers == stop = "returned" => \A l \in Link : probe[l] = "ended"

SteerInv == SteerTypeOK /\ StopGathers

(* The inductive invariant holds at first. *)
LEMMA SteerInitInv == SteerInit => SteerInv
<1>. USE SteeringAssumption
<1>. QED  BY DEF SteerInit, SteerInv, SteerTypeOK, StopGathers, Link

(* Each action, on the types and on the end of the tasks. *)
LEMMA SteerNextInv == SteerInv /\ [SteerNext]_steerVars => SteerInv'
<1>. SUFFICES ASSUME SteerInv, [SteerNext]_steerVars PROVE SteerInv'
  OBVIOUS
<1>. USE SteeringAssumption DEF SteerInv, SteerTypeOK, StopGathers
<1>1. ASSUME NEW l \in Link, ProbeStep(l) PROVE SteerInv'
  <2>1. CASE ProbeSimulated(l)
    BY <2>1 DEF ProbeSimulated, Awake, Alive, Dead, Sleep, pathVars, userVars
  <2>2. CASE SendPing(l)
    BY <2>2 DEF SendPing, Awake, pathVars, metricVars, userVars
  <2>3. CASE PingFails(l)
    BY <2>3 DEF PingFails, Awake, Dead, Sleep, pathVars, userVars
  <2>4. CASE PingAnswered(l)
    BY <2>4 DEF PingAnswered, Alive, Sleep, pathVars, userVars
  <2>5. CASE PingTimesOut(l)
    BY <2>5 DEF PingTimesOut, Sleep, pathVars, userVars
  <2>6. CASE ProbeEnds(l)
    BY <2>6 DEF ProbeEnds, pathVars, metricVars, userVars
  <2>. QED  BY <1>1, <2>1, <2>2, <2>3, <2>4, <2>5, <2>6 DEF ProbeStep
<1>2. ASSUME NEW l \in Link, Select(l) PROVE SteerInv'
  <2>1. user' \in {"delay", "physical", "failed"}
    BY <1>2 DEF Select, Outcome
  <2>. QED  BY <1>2, <2>1 DEF Select, pathVars, metricVars
<1>3. ASSUME NEW l \in Link, NEW p \in {"up", "silent", "down"}, Toggle(l, p)
      PROVE  SteerInv'
  BY <1>3 DEF Toggle, metricVars, userVars
<1>4. CASE StopCalled
  BY <1>4 DEF StopCalled, pathVars, metricVars, userVars
<1>5. CASE StopReturns
  BY <1>5 DEF StopReturns, pathVars, metricVars, userVars
<1>6. CASE Use
  BY <1>6 DEF Use, pathVars, metricVars
<1>7. CASE Retry
  BY <1>7 DEF Retry, pathVars, metricVars
<1>8. CASE UNCHANGED steerVars
  BY <1>8 DEF steerVars, pathVars, metricVars, userVars
<1>. QED  BY <1>1, <1>2, <1>3, <1>4, <1>5, <1>6, <1>7, <1>8 DEF SteerNext

(* SteerInv holds in every reachable state. *)
THEOREM SteerInvariant == SteerSpec => []SteerInv
<1>. QED  BY SteerInitInv, SteerNextInv, PTL DEF SteerSpec

(* The variables keep their types. *)
THEOREM SteerTypeCorrect == SteerSpec => []SteerTypeOK
<1>1. SteerInv => SteerTypeOK
  BY DEF SteerInv
<1>. QED  BY <1>1, SteerInvariant, PTL

(* QuietAfterStop: once PathMonitor.stop has returned, no probing task of it
   writes a link's flag or score again. *)
THEOREM QuietTheorem == SteerSpec => QuietAfterStop
<1>1. ASSUME SteerInv, [SteerNext]_steerVars, stop = "returned"
      PROVE  UNCHANGED <<probe, metricVars>>
  <2>. USE <1>1 DEF SteerInv, StopGathers
  <2>1. ASSUME NEW l \in Link, ProbeStep(l) PROVE FALSE
    BY <2>1 DEF ProbeStep, ProbeSimulated, SendPing, PingFails, PingAnswered,
                PingTimesOut, ProbeEnds, Awake
  <2>2. ASSUME NEW l \in Link, Select(l) PROVE UNCHANGED <<probe, metricVars>>
    BY <2>2 DEF Select
  <2>3. ASSUME NEW l \in Link, NEW p \in {"up", "silent", "down"}, Toggle(l, p)
        PROVE  UNCHANGED <<probe, metricVars>>
    BY <2>3 DEF Toggle
  <2>4. ~ StopCalled /\ ~ StopReturns
    BY DEF StopCalled, StopReturns
  <2>5. Use \/ Retry => UNCHANGED <<probe, metricVars>>
    BY DEF Use, Retry
  <2>6. CASE UNCHANGED steerVars
    BY <2>6 DEF steerVars
  <2>. QED  BY <2>1, <2>2, <2>3, <2>4, <2>5, <2>6 DEF SteerNext
<1>2. SteerInv /\ [SteerNext]_steerVars =>
        [stop = "returned" => UNCHANGED <<probe, metricVars>>]_steerVars
  BY <1>1
<1>. QED  BY <1>2, SteerInvariant, PTL DEF SteerSpec, QuietAfterStop
=============================================================================
