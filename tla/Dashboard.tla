----------------------------- MODULE Dashboard -----------------------------
(***************************************************************************)
(* start_download of gui/server.py: requests that may overlap, around      *)
(* three globals - the path monitor, its scheduler and the download        *)
(* session - which the handler tests once and then reads again after each  *)
(* of its two waits.  What a monitor does is in Steering, what a session   *)
(* does in Downloader; here a monitor runs or has been stopped, and a      *)
(* session comes to its end only if links work and the monitor it was made *)
(* with goes on to see it.                                                 *)
(*                                                                         *)
(* A monitor and a session are named by the request that makes them.       *)
(***************************************************************************)
EXTENDS Naturals, FiniteSets

CONSTANTS Request,  \* requests for a download
          Startup   \* names the monitor startup_event makes

ASSUME DashboardAssumption == Startup \notin Request

VARIABLES pc,             \* the handlers: "idle", "stopping", "initializing",
                          \*   "initialized", "done"
          answer,         \* "none", "busy", "failed" or "started"
          use,            \* what each asked the simulator to be: on or off
          is_enabled,     \* simulator_registry.is_enabled
          active_monitor,
          stopping,       \* handler -> the monitor whose end it waits for
          made, stopped,  \* monitors that were started, that were stopped
          up,             \* a link works
          active_session, \* Startup: None
          ready,          \* sessions whose initialize succeeded
          pending,        \* session -> tasks for its start that have not run yet
          downloading,    \* session -> start calls at work
          is_started, is_completed,  \* the sessions' flags
          overlapped      \* history: requests have overlapped

handlerVars == <<pc, answer, use, stopping>>
monitorVars == <<active_monitor, made, stopped>>
sessionVars == <<pending, downloading, is_started, is_completed>>
vars == <<handlerVars, monitorVars, up, sessionVars, is_enabled, active_session,
          ready, overlapped>>

Init ==
    /\ pc = [r \in Request |-> "idle"]
    /\ answer = [r \in Request |-> "none"]
    /\ use = [r \in Request |-> TRUE]
    /\ is_enabled = TRUE
    /\ active_monitor = Startup
    /\ stopping = [r \in Request |-> Startup]
    /\ made = {Startup}
    /\ stopped = {}
    /\ up \in BOOLEAN
    /\ active_session = Startup
    /\ ready = {}
    /\ pending = [r \in Request |-> 0]
    /\ downloading = [r \in Request |-> 0]
    /\ is_started = {}
    /\ is_completed = {}
    /\ overlapped = FALSE

Goto(r, l) == pc' = [pc EXCEPT ![r] = l]
Answer(r, a) == Goto(r, "done") /\ answer' = [answer EXCEPT ![r] = a]

----------------------------------------------------------------------------
Busy == active_session \in is_started \ is_completed

\* Another request is between its test and its answer, or the download it asked
\* for has yet to take its first step.
Underway == \/ \E r \in Request : pc[r] \in {"stopping", "initializing", "initialized"}
            \/ \E s \in Request : pending[s] > 0

\* The test at the head.
Refuse(r) ==
    /\ pc[r] = "idle"
    /\ Busy
    /\ Answer(r, "busy")
    /\ UNCHANGED <<use, stopping, monitorVars, up, sessionVars, is_enabled,
                   active_session, ready, overlapped>>

\* The simulator is set as the request asks.
SetSimulator(r) ==
    \E b \in BOOLEAN : use' = [use EXCEPT ![r] = b] /\ is_enabled' = b

\* Mutant: a request is accepted whatever is under way.
AcceptAlways(r) ==
    /\ pc[r] = "idle"
    /\ SetSimulator(r)
    /\ overlapped' = (overlapped \/ Underway)
    /\ Goto(r, "stopping")
    /\ stopping' = [stopping EXCEPT ![r] = active_monitor]
    /\ stopped' = stopped \cup {active_monitor}
    /\ UNCHANGED <<answer, active_monitor, made, up, sessionVars, active_session, ready>>

\* Past the test, up to the wait for the old monitor's end; if there is no
\* interface to use, setting the simulator is all.
Accept(r) ==
    /\ pc[r] = "idle"
    /\ ~ Busy
    /\ SetSimulator(r)
    /\ overlapped' = (overlapped \/ Underway)
    /\ \/ /\ Goto(r, "stopping")
          /\ stopping' = [stopping EXCEPT ![r] = active_monitor]
          /\ stopped' = stopped \cup {active_monitor}
          /\ UNCHANGED answer
       \/ Answer(r, "failed") /\ UNCHANGED <<stopping, stopped>>
    /\ UNCHANGED <<active_monitor, made, up, sessionVars, active_session, ready>>

\* Mutant: the new monitor is made and not started.
ReplaceUnstarted(r) ==
    /\ pc[r] = "stopping"
    /\ Goto(r, "initializing")
    /\ active_monitor' = r
    /\ stopped' = stopped \cup {r}
    /\ active_session' = r
    /\ UNCHANGED <<answer, use, stopping, made, up, sessionVars, is_enabled, ready,
                   overlapped>>

\* The old monitor's tasks have ended: a new monitor and scheduler.  Then, if the
\* directory can be made, a session, up to the wait for its initialize.
Replace(r) ==
    /\ pc[r] = "stopping"
    /\ active_monitor' = r
    /\ made' = made \cup {r}
    /\ \/ Goto(r, "initializing") /\ active_session' = r /\ UNCHANGED answer
       \/ Answer(r, "failed") /\ UNCHANGED active_session
    /\ UNCHANGED <<use, stopping, stopped, up, sessionVars, is_enabled, ready, overlapped>>

\* initialize has made the chunks of the request's own session and closes its
\* connection.
Initialized(r) ==
    /\ pc[r] = "initializing"
    /\ ready' = ready \cup {r}
    /\ Goto(r, "initialized")
    /\ UNCHANGED <<answer, use, stopping, monitorVars, up, sessionVars, is_enabled,
                   active_session, overlapped>>

\* The global session, which may be that of a later request, gets a task for its
\* start.
Launch(r) ==
    /\ pc[r] = "initialized"
    /\ pending' = [pending EXCEPT ![active_session] = @ + 1]
    /\ Answer(r, "started")
    /\ UNCHANGED <<use, stopping, monitorVars, up, downloading, is_started, is_completed,
                   is_enabled, active_session, ready, overlapped>>

InitializeFails(r) ==
    /\ pc[r] = "initializing"
    /\ Answer(r, "failed")
    /\ UNCHANGED <<use, stopping, monitorVars, up, sessionVars, is_enabled, active_session,
                   ready, overlapped>>

\* A task for start takes its first step; a session without chunks is complete
\* at once.
Start(s) ==
    /\ pending[s] > 0
    /\ pending' = [pending EXCEPT ![s] = @ - 1]
    /\ is_started' = is_started \cup {s}
    /\ IF s \in ready
       THEN /\ downloading' = [downloading EXCEPT ![s] = @ + 1]
            /\ UNCHANGED is_completed
       ELSE /\ is_completed' = is_completed \cup {s}
            /\ UNCHANGED downloading
    /\ UNCHANGED <<handlerVars, monitorVars, up, is_enabled, active_session, ready, overlapped>>

Complete(s) ==
    /\ downloading[s] > 0
    /\ downloading' = [downloading EXCEPT ![s] = @ - 1]
    /\ is_completed' = is_completed \cup {s}
    /\ UNCHANGED <<handlerVars, monitorVars, up, pending, is_started, is_enabled,
                   active_session, ready, overlapped>>

\* The last link is lost, or one comes back.
LinksToggle ==
    /\ up' = ~ up
    /\ UNCHANGED <<handlerVars, monitorVars, sessionVars, is_enabled, active_session,
                   ready, overlapped>>

Next ==
    \/ \E r \in Request :
         \/ Refuse(r) \/ Accept(r) \/ Replace(r) \/ Initialized(r) \/ InitializeFails(r)
         \/ Launch(r) \/ Start(r) \/ Complete(r)
    \/ LinksToggle

\* Handlers and tasks run.  A download ends if a link stays online in the flags
\* of its monitor (Downloader!Terminates): a running monitor sees one that works
\* (Steering), the flags of a stopped monitor stay as they are.
Fairness ==
    \A r \in Request : /\ WF_vars(Replace(r))
                       /\ WF_vars(Initialized(r) \/ InitializeFails(r))
                       /\ WF_vars(Launch(r))
                       /\ WF_vars(Start(r))
                       /\ WF_vars(up /\ r \notin stopped /\ Complete(r))

Spec == Init /\ [][Next]_vars
FairSpec == Spec /\ Fairness

----------------------------------------------------------------------------
TypeOK ==
    /\ pc \in [Request -> {"idle", "stopping", "initializing", "initialized", "done"}]
    /\ answer \in [Request -> {"none", "busy", "failed", "started"}]
    /\ use \in [Request -> BOOLEAN] /\ is_enabled \in BOOLEAN
    /\ active_monitor \in made /\ made \subseteq Request \cup {Startup}
    /\ stopping \in [Request -> made] /\ stopped \subseteq made
    /\ up \in BOOLEAN
    /\ active_session \in Request \cup {Startup}
    /\ ready \subseteq Request
    /\ pending \in [Request -> Nat] /\ downloading \in [Request -> Nat]
    /\ is_started \subseteq Request /\ is_completed \subseteq is_started
    /\ overlapped \in BOOLEAN

(* Whatever requests overlap: the monitor the scheduler reads is running, or a
   request is about to replace it; a dashboard is never left with a dead one. *)
AlwaysMonitored ==
    active_monitor \in stopped =>
        \E r \in Request : pc[r] = "stopping" /\ stopping[r] = active_monitor

(* Requests that do not overlap are safe, in any number and with any failures:
   the download under way is the only one, of the session the dashboard shows,
   initialized, started once, with its monitor running and the simulator as it
   asked; and no other monitor is left running.  (Overlapping requests break
   each of these, as the test of line 59 is not repeated after the waits.) *)
AloneIsWhole ==
    ~ overlapped =>
      /\ Cardinality(made \ stopped) <= 1
      /\ \A s \in Request : downloading[s] > 0 =>
           /\ s = active_session /\ s = active_monitor
           /\ s \in ready /\ downloading[s] = 1
           /\ s \notin stopped
           /\ is_enabled = use[s]

(* If a link works from some time on: a download that was started and met no
   other request until then ends, whatever is asked of the dashboard later.  No
   request may take its monitor away, which would leave it with the links as
   they were at that moment. *)
StartedCompletes ==
    (<>[]up) =>
      \A r \in Request :
        (answer[r] = "started" /\ ~ overlapped)
          ~> (r \in is_completed \/ (overlapped /\ r \notin is_started))
=============================================================================
