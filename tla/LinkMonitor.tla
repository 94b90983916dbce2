---------------------------- MODULE LinkMonitor ----------------------------
(***************************************************************************)
(* InterfaceMonitor of aetherbond-control/pkg/interfaces (monitor.go and   *)
(* monitor_linux.go): the table of links the control plane reads.  Two     *)
(* goroutines keep it, one on a ticker, one on the kernel's rtnetlink      *)
(* messages.  Both call scanInterfaces, which lists the interfaces before  *)
(* it takes the mutex and reads their addresses after it: a scan is two    *)
(* steps, and the scans of the two goroutines may overlap.                 *)
(*                                                                         *)
(* Of an interface only two facts matter: whether it is up, and whether it *)
(* has an IPv4 address.  Loopback interfaces are left out.                 *)
(***************************************************************************)
EXTENDS Naturals, FiniteSets

CONSTANTS Iface,       \* names of the interfaces
          MaxChanges,  \* bound: changes of interfaces
          MaxEvents    \* bound: rtnetlink messages that one read returns

ASSUME MonitorAssumption == MaxChanges \in Nat /\ MaxEvents \in Nat \ {0}

Scanner == {"ticker", "netlink"}

VARIABLES up,        \* the interfaces that are up
          addressed, \* the interfaces that have an IPv4 address
          changes,   \* how often they changed
          events,    \* rtnetlink messages not yet read
          online,    \* im.links: the entries with IsOnline
          known,     \* im.links: all entries
          pc,        \* where each goroutine is
          snapshot,  \* what net.Interfaces returned to each
          todo,      \* messages of the last read the listener has not handled
          stop       \* Stop: "no", "called" (stopChan closed), "returned"

vars == <<up, addressed, changes, events, online, known, pc, snapshot, todo, stop>>

osVars == <<up, addressed, changes>>
tableVars == <<online, known>>

\* What a scan of an unchanging system finds.
Usable == up \cap addressed

Init ==
    /\ up \in SUBSET Iface
    /\ addressed \in SUBSET Iface
    /\ changes = 0
    /\ events = 0
    /\ online = {}
    /\ known = {}
    /\ pc = [ticker |-> "scan", netlink |-> "open"]
    /\ snapshot = [g \in Scanner |-> {}]
    /\ todo = 0
    /\ stop = "no"

----------------------------------------------------------------------------
\* A link goes up or down, an address comes or goes; the kernel sends a
\* message to the socket, if there is one (past MaxEvents it has no room).
Toggle(S, i) == IF i \in S THEN S \ {i} ELSE S \cup {i}

OsChange(i) ==
    /\ changes < MaxChanges
    /\ changes' = changes + 1
    /\ events' = IF pc["netlink"] \notin {"open", "done"} /\ events < MaxEvents
                 THEN events + 1 ELSE events
    /\ \/ up' = Toggle(up, i) /\ UNCHANGED addressed
       \/ addressed' = Toggle(addressed, i) /\ UNCHANGED up
    /\ UNCHANGED <<tableVars, pc, snapshot, todo, stop>>

\* scanInterfaces up to the mutex: the list of interfaces, with their flags.
ListInterfaces(g) ==
    /\ pc[g] = "scan"
    /\ snapshot' = [snapshot EXCEPT ![g] = up]
    /\ pc' = [pc EXCEPT ![g] = "update"]
    /\ UNCHANGED <<osVars, events, tableVars, todo, stop>>

\* Where a goroutine goes after a scan: the listener to its next message.
AfterScan(g) ==
    IF g = "ticker" THEN "select" ELSE IF todo > 1 THEN "scan" ELSE "check"

LeaveScan(g) ==
    /\ pc' = [pc EXCEPT ![g] = AfterScan(g)]
    /\ todo' = IF g = "netlink" THEN todo - 1 ELSE todo

\* net.Interfaces fails: the scan ends with an error message.
ListFails(g) ==
    /\ pc[g] = "scan"
    /\ LeaveScan(g)
    /\ UNCHANGED <<osVars, events, tableVars, snapshot, stop>>

\* Mutant: interfaces that are gone are not flagged.
UpdateAddsOnly(g) ==
    /\ pc[g] = "update"
    /\ \E found \in SUBSET (snapshot[g] \cap addressed) : online' = online \cup found
    /\ known' = known \cup online'
    /\ snapshot' = [snapshot EXCEPT ![g] = {}]
    /\ LeaveScan(g)
    /\ UNCHANGED <<osVars, events, stop>>

\* The rest of it, under the mutex: the entries of the interfaces that were
\* listed as up and have an address now are online, the other entries not, and
\* so not the entry of an interface whose addresses could not be read.
UpdateLinks(g) ==
    /\ pc[g] = "update"
    /\ online' \in SUBSET (snapshot[g] \cap addressed)
    /\ known' = known \cup online'
    /\ snapshot' = [snapshot EXCEPT ![g] = {}]
    /\ LeaveScan(g)
    /\ UNCHANGED <<osVars, events, stop>>

AddrsFail(g, i) ==
    UpdateLinks(g) /\ i \in (snapshot[g] \cap addressed) \ online'

\* The ticker's select: a tick, or stopChan.
TickerFires ==
    /\ pc["ticker"] = "select"
    /\ pc' = [pc EXCEPT !["ticker"] = "scan"]
    /\ UNCHANGED <<osVars, events, tableVars, snapshot, todo, stop>>

TickerStops ==
    /\ pc["ticker"] = "select"
    /\ stop = "called"
    /\ pc' = [pc EXCEPT !["ticker"] = "done"]
    /\ UNCHANGED <<osVars, events, tableVars, snapshot, todo, stop>>

\* The listener opens and binds its socket, or gives up.
NetlinkOpen ==
    /\ pc["netlink"] = "open"
    /\ \E next \in {"check", "done"} : pc' = [pc EXCEPT !["netlink"] = next]
    /\ UNCHANGED <<osVars, events, tableVars, snapshot, todo, stop>>

\* Mutant: it does not look.
NetlinkIgnoresStop ==
    /\ pc["netlink"] = "check"
    /\ pc' = [pc EXCEPT !["netlink"] = "read"]
    /\ UNCHANGED <<osVars, events, tableVars, snapshot, todo, stop>>

\* The listener looks at stopChan without waiting, then reads.
NetlinkCheck ==
    /\ pc["netlink"] = "check"
    /\ pc' = [pc EXCEPT !["netlink"] = IF stop = "no" THEN "read" ELSE "done"]
    /\ UNCHANGED <<osVars, events, tableVars, snapshot, todo, stop>>

\* syscall.Read returns with some of the waiting messages; without one it blocks.
NetlinkRead ==
    /\ pc["netlink"] = "read"
    /\ \E n \in 1..events : events' = events - n /\ todo' = n
    /\ pc' = [pc EXCEPT !["netlink"] = "scan"]
    /\ UNCHANGED <<osVars, tableVars, snapshot, stop>>

\* Read fails: more messages came than the socket could hold, and they are
\* gone.
NetlinkReadError ==
    /\ pc["netlink"] = "read"
    /\ events = MaxEvents
    /\ events' = 0
    /\ pc' = [pc EXCEPT !["netlink"] = "check"]
    /\ UNCHANGED <<osVars, tableVars, snapshot, todo, stop>>

StopCalled ==
    /\ stop = "no"
    /\ stop' = "called"
    /\ UNCHANGED <<osVars, events, tableVars, pc, snapshot, todo>>

\* Mutant: the wait group counts the ticker goroutine only.
StopAwaitsTicker ==
    /\ stop = "called"
    /\ pc["ticker"] = "done"
    /\ stop' = "returned"
    /\ UNCHANGED <<osVars, events, tableVars, pc, snapshot, todo>>

\* wg.Wait returns.
StopReturns ==
    /\ stop = "called"
    /\ \A g \in Scanner : pc[g] = "done"
    /\ stop' = "returned"
    /\ UNCHANGED <<osVars, events, tableVars, pc, snapshot, todo>>

Next ==
    \/ \E i \in Iface : OsChange(i)
    \/ \E g \in Scanner : ListInterfaces(g) \/ ListFails(g) \/ UpdateLinks(g)
    \/ TickerFires
    \/ TickerStops
    \/ NetlinkOpen
    \/ NetlinkCheck
    \/ NetlinkRead
    \/ NetlinkReadError
    \/ StopCalled
    \/ StopReturns

\* Both goroutines keep running.  The select of the ticker goroutine chooses
\* at random between a tick and stopChan when both are ready, so a closed
\* stopChan is chosen in the end.  net.Interfaces does not fail for ever.
Fairness ==
    /\ \A g \in Scanner : /\ WF_vars(ListInterfaces(g) \/ ListFails(g))
                         /\ WF_vars(UpdateLinks(g))
    /\ SF_vars(ListInterfaces("ticker"))
    /\ WF_vars(TickerFires)
    /\ SF_vars(TickerStops)
    /\ WF_vars(NetlinkOpen)
    /\ WF_vars(NetlinkCheck)
    /\ WF_vars(NetlinkRead \/ NetlinkReadError)
    /\ WF_vars(StopReturns)

Spec == Init /\ [][Next]_vars
FairSpec == Spec /\ Fairness

----------------------------------------------------------------------------
TypeOK ==
    /\ up \subseteq Iface /\ addressed \subseteq Iface
    /\ changes \in 0..MaxChanges
    /\ events \in 0..MaxEvents
    /\ online \subseteq known /\ known \subseteq Iface
    /\ pc \in [Scanner -> {"open", "scan", "update", "select", "check",
                            "read", "done"}]
    /\ snapshot \in [Scanner -> SUBSET Iface]
    /\ todo \in 0..MaxEvents
    /\ stop \in {"no", "called", "returned"}

(* The table is right in the end, although one goroutine may overwrite the
   other's newer result with an older one: the ticker scans again.  A usable
   interface has to be readable from some time on: an error of one read of its
   addresses flags it offline until the next scan. *)
Readable(i) == <>[][\A g \in Scanner : ~ AddrsFail(g, i)]_vars

EventuallyTracks ==
    \A i \in Iface :
      /\ (<>[](i \in Usable)) /\ Readable(i) => <>([](i \in online) \/ stop # "no")
      /\ (<>[](i \notin Usable)) => <>([](i \notin online) \/ stop # "no")

(* After Stop has returned no goroutine touches the table any more. *)
QuietAfterStop ==
    [][stop = "returned" => UNCHANGED tableVars]_vars

(* Stop returns if a message of the kernel is waiting, or the listener gave
   up: the ticker goroutine never holds it up.  (Without a message the listener
   stays in a read that Stop does not interrupt, monitor_linux.go:47, although
   monitor.go:59 says "Stop safely terminates the interface scanning loops.") *)
StopReturnsOnEvent ==
    (stop = "called" /\ (events > 0 \/ pc["netlink"] # "read"))
      ~> (stop = "returned")
=============================================================================
