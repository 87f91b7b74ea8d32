--------------------------- MODULE ModSupervisor ---------------------------
(***************************************************************************)
(* internal/delivery/modclient/client.go: the life cycle of one delivery   *)
(* module.  supervise()/runChild() start, accept, refuse, reap and restart *)
(* the child process; each child's prober feeds probe(); callers' requests *)
(* and health queries touch the same state under Client.mu; Stop ends it.  *)
(*                                                                         *)
(* Children are numbered in launch order.  The fields of the child struct  *)
(* are kept for the newest child: nothing but the prober of an older one   *)
(* still runs, and that only matters where it locks Client.mu.  Time is    *)
(* abstracted: a bounded wait may end at any moment.  Of requests, only    *)
(* the effect on this state is here; the rest is ModPipe's.                *)
(***************************************************************************)
EXTENDS Integers

CONSTANTS
    MaxChild,   \* bound: launches explored
    Callers,    \* concurrent callers of Health and of other requests
    Periodic    \* whether Config.HealthInterval is positive

ASSUME SupervisorAssumption == MaxChild \in Nat \ {0} /\ Periodic \in BOOLEAN

VARIABLES
    (* Client, under Client.mu *)
    state, suspect, health, cur, started, stopping,
    (* the supervisor goroutine and the goroutine inside Stop *)
    sup, child, stopper, stopCh,
    (* the newest child: process, channels, health strikes *)
    exited, killed, broken, dead, line,
    strikes, deadlineStrikes, readyFired, probeNow,
    (* each child's prober goroutine *)
    prober,
    (* callers *)
    caller, on

clientVars == <<state, suspect, health, cur, started, stopping>>
supVars    == <<sup, child>>
stopVars   == <<stopper, stopCh>>
procVars   == <<exited, killed, broken, dead, line>>
strikeVars == <<strikes, deadlineStrikes, readyFired>>
probeVars  == <<probeNow, prober>>
callerVars == <<caller, on>>
vars == <<clientVars, supVars, stopVars, procVars, strikeVars, probeVars, callerVars>>

Children == 1 .. MaxChild

TypeOK ==
    /\ state \in {"starting", "available", "unavailable", "disabled"}
    /\ suspect \in BOOLEAN /\ started \in BOOLEAN /\ stopping \in BOOLEAN
    /\ health \in 0 .. MaxChild    \* whose answer is stored; 0 for nil
    /\ child \in 0 .. MaxChild /\ cur \in {0, child}
    /\ sup \in {"none", "start", "launch", "hello", "run", "shutdown", "reapRefused",
                "reapEnded", "reapDetached", "reapStopped", "refused", "ended",
                "backoff", "returned"}
    /\ stopper \in {"idle", "closing", "waiting", "done"} /\ stopCh \in BOOLEAN
    /\ exited \in BOOLEAN /\ killed \in BOOLEAN /\ broken \in BOOLEAN /\ dead \in BOOLEAN
    /\ line \in {"none", "good", "bad"}
    /\ strikes \in 0 .. 2 /\ deadlineStrikes \in 0 .. 2    \* 2: two or more
    /\ readyFired \in BOOLEAN /\ probeNow \in BOOLEAN
    /\ prober \in [Children -> {"off", "probing", "missed", "waiting", "gone"}]
    /\ caller \in [Callers -> {"idle", "asked", "answered", "nudging"}]
    /\ on \in [Callers -> 0 .. MaxChild]

Init ==
    /\ state = "starting" /\ suspect = FALSE /\ health = 0 /\ cur = 0
    /\ started = FALSE /\ stopping = FALSE
    /\ sup = "none" /\ child = 0 /\ stopper = "idle" /\ stopCh = FALSE
    /\ exited = FALSE /\ killed = FALSE /\ broken = FALSE /\ dead = FALSE
    /\ line = "none" /\ strikes = 0 /\ deadlineStrikes = 0
    /\ readyFired = FALSE /\ probeNow = FALSE
    /\ prober = [c \in Children |-> "off"]
    /\ caller = [i \in Callers |-> "idle"] /\ on = [i \in Callers |-> 0]

-----------------------------------------------------------------------------
(* supervise() and runChild().                                              *)

\* Client.Start.
Start ==
    /\ ~ started /\ ~ stopping
    /\ started' = TRUE /\ sup' = "start"
    /\ UNCHANGED <<state, suspect, health, cur, stopping, child, stopVars, procVars,
                   strikeVars, probeVars, callerVars>>

\* runChild's first select.
CheckStop ==
    /\ sup = "start"
    /\ sup' = IF stopCh THEN "returned" ELSE "launch"
    /\ UNCHANGED <<clientVars, child, stopVars, procVars, strikeVars, probeVars, callerVars>>

LaunchFails ==
    /\ sup = "launch"
    /\ cur' = 0 /\ state' = "unavailable" /\ sup' = "backoff"
    /\ UNCHANGED <<suspect, health, started, stopping, child, stopVars, procVars,
                   strikeVars, probeVars, callerVars>>

\* The launcher starts a process: newChild(), every field as it begins.
Launch ==
    /\ sup = "launch" /\ child < MaxChild
    /\ child' = child + 1
    /\ exited' = FALSE /\ killed' = FALSE /\ broken' = FALSE /\ dead' = FALSE
    /\ line' = "none" /\ strikes' = 0 /\ deadlineStrikes' = 0
    /\ readyFired' = FALSE /\ probeNow' = FALSE
    /\ state' = "starting" /\ sup' = "hello"
    /\ UNCHANGED <<suspect, health, cur, started, stopping, stopVars, prober, callerVars>>

\* A hello line in time that ParseHello accepts: a new generation.
HelloAccepted ==
    /\ sup = "hello" /\ line = "good"
    /\ line' = "none"
    /\ cur' = child /\ health' = 0 /\ suspect' = FALSE /\ state' = "starting"
    /\ sup' = "run"
    /\ prober' = [prober EXCEPT ![child] = "probing"]
    /\ UNCHANGED <<started, stopping, child, stopVars, exited, killed, broken, dead,
                   strikeVars, probeNow, callerVars>>

\* refuse(): a line ParseHello refuses, or HelloTimeout, which may beat a line
\* that has just arrived.  Kill; the reap comes next.
HelloRefused ==
    /\ sup = "hello"
    /\ killed' = TRUE
    /\ sup' = "reapRefused"
    /\ UNCHANGED <<clientVars, child, stopVars, exited, broken, dead, line,
                   strikeVars, probeVars, callerVars>>

\* ended(): the child is gone and left no line.
EndedBeforeHello ==
    /\ sup = "hello" /\ line = "none"
    /\ exited \/ broken
    /\ killed' = TRUE
    /\ sup' = "reapEnded"
    /\ UNCHANGED <<clientVars, child, stopVars, exited, broken, dead, line,
                   strikeVars, probeVars, callerVars>>

\* Mutant: a child whose pipe broke is detached without being killed.
DetachEndedKeepsProcess ==
    /\ sup = "run" /\ (exited \/ broken)
    /\ cur' = IF cur = child THEN 0 ELSE cur
    /\ suspect' = FALSE /\ state' = "unavailable"
    /\ sup' = "reapDetached"
    /\ UNCHANGED <<health, started, stopping, child, stopVars, procVars,
                   strikeVars, probeVars, callerVars>>

\* detachEnded() after exit or, once killed, after a broken pipe.
DetachEnded ==
    /\ sup = "run"
    /\ \/ exited /\ UNCHANGED killed
       \/ broken /\ killed' = (killed \/ ~ exited)
    /\ cur' = IF cur = child THEN 0 ELSE cur
    /\ suspect' = FALSE /\ state' = "unavailable"
    /\ sup' = "reapDetached"
    /\ UNCHANGED <<health, started, stopping, child, stopVars, exited, broken, dead,
                   line, strikeVars, probeVars, callerVars>>

\* Mutant: only the wait for the hello watches stopCh.
ShutdownBeginsBeforeHello ==
    /\ sup = "hello" /\ stopCh
    /\ sup' = "shutdown"
    /\ UNCHANGED <<clientVars, child, stopVars, procVars, strikeVars, probeVars, callerVars>>

\* The stopCh branches: shutdown() closes stdin and waits ...
ShutdownBegins ==
    /\ sup \in {"hello", "run"} /\ stopCh
    /\ sup' = "shutdown"
    /\ UNCHANGED <<clientVars, child, stopVars, procVars, strikeVars, probeVars, callerVars>>

\* ... for the exit or, after ShutdownGrace, kills.
ShutdownEnds ==
    /\ sup = "shutdown"
    /\ killed' = (killed \/ ~ exited)
    /\ cur' = IF cur = child THEN 0 ELSE cur
    /\ sup' = "reapStopped"
    /\ UNCHANGED <<state, suspect, health, started, stopping, child, stopVars,
                   exited, broken, dead, line, strikeVars, probeVars, callerVars>>

\* reap(): every wait in it is bounded; it closes child.dead.
Reap ==
    /\ sup \in {"reapRefused", "reapEnded", "reapDetached", "reapStopped"}
    /\ dead' = TRUE
    /\ sup' = CASE sup = "reapRefused" -> "refused"
                [] sup = "reapEnded" -> "ended"
                [] sup = "reapDetached" -> "backoff"
                [] OTHER -> "returned"
    /\ UNCHANGED <<clientVars, child, stopVars, exited, killed, broken, line,
                   strikeVars, probeVars, callerVars>>

\* refuse(), after the reap: the module is off for the daemon's life.
Refused ==
    /\ sup = "refused"
    /\ cur' = 0 /\ suspect' = FALSE /\ state' = "disabled" /\ sup' = "returned"
    /\ UNCHANGED <<health, started, stopping, child, stopVars, procVars, strikeVars,
                   probeVars, callerVars>>

\* ended(), after the reap.
Ended ==
    /\ sup = "ended"
    /\ state' = "unavailable" /\ sup' = "backoff"
    /\ UNCHANGED <<suspect, health, cur, started, stopping, child, stopVars, procVars,
                   strikeVars, probeVars, callerVars>>

\* supervise(): the backoff timer, or Stop.
Backoff ==
    /\ sup = "backoff"
    /\ \/ sup' = "start"
       \/ stopCh /\ sup' = "returned"
    /\ UNCHANGED <<clientVars, child, stopVars, procVars, strikeVars, probeVars, callerVars>>

-----------------------------------------------------------------------------
(* Stop().                                                                  *)

StopBegins ==
    /\ stopper = "idle"
    /\ stopping' = TRUE /\ stopper' = "closing"
    /\ UNCHANGED <<state, suspect, health, cur, started, stopCh, supVars, procVars,
                   strikeVars, probeVars, callerVars>>

StopCloses ==
    /\ stopper = "closing"
    /\ stopCh' = started /\ stopper' = "waiting"
    /\ UNCHANGED <<clientVars, supVars, procVars, strikeVars, probeVars, callerVars>>

\* After supDone, when there is a supervisor.
StopEnds ==
    /\ stopper = "waiting"
    /\ started => sup = "returned"
    /\ state' = "disabled" /\ suspect' = FALSE /\ stopper' = "done"
    /\ UNCHANGED <<health, cur, started, stopping, stopCh, supVars, procVars,
                   strikeVars, probeVars, callerVars>>

-----------------------------------------------------------------------------
(* A child's prober goroutine and probe().                                  *)

Live(c) == c = cur /\ ~ stopping

Strike(n) == IF n < 2 THEN n + 1 ELSE n

\* Mutant: an answer is applied whichever child gave it.
ProbeOKUnchecked(c) ==
    /\ prober[c] = "probing"
    /\ prober' = [prober EXCEPT ![c] = "waiting"]
    /\ strikes' = 0
    /\ deadlineStrikes' = 0
    /\ health' = c /\ suspect' = FALSE /\ state' = "available"
    /\ readyFired' = TRUE
    /\ UNCHANGED <<cur, started, stopping, supVars, stopVars, procVars, probeNow, callerVars>>

\* ok:true; OnReady fires with the first of a generation.
ProbeOK(c) ==
    /\ prober[c] = "probing"
    /\ prober' = [prober EXCEPT ![c] = "waiting"]
    /\ IF Live(c)
       THEN /\ strikes' = 0
            /\ deadlineStrikes' = 0
            /\ health' = c /\ suspect' = FALSE /\ state' = "available"
            /\ readyFired' = TRUE
       ELSE UNCHANGED <<strikeVars, health, suspect, state>>
    /\ UNCHANGED <<cur, started, stopping, supVars, stopVars, procVars, probeNow, callerVars>>

\* ok:false: unavailable at once, the child kept.
ProbeNotOK(c) ==
    /\ prober[c] = "probing"
    /\ prober' = [prober EXCEPT ![c] = "waiting"]
    /\ IF Live(c)
       THEN /\ strikes' = Strike(strikes)
            /\ deadlineStrikes' = 0
            /\ health' = c /\ state' = "unavailable"
       ELSE UNCHANGED <<strikes, deadlineStrikes, health, state>>
    /\ UNCHANGED <<suspect, cur, started, stopping, readyFired, supVars, stopVars,
                   procVars, probeNow, callerVars>>

\* deadlineMissed(ch, internal) runs, and unlocks, before probe() locks again.
ProbeMisses(c) ==
    /\ prober[c] = "probing"
    /\ prober' = [prober EXCEPT ![c] = "missed"]
    /\ suspect' = (suspect \/ Live(c))
    /\ UNCHANGED <<state, health, cur, started, stopping, supVars, stopVars, procVars,
                   strikeVars, probeNow, callerVars>>

\* Mutant: missed deadlines never break the connection.
ProbeErrorKeepsChild(c) ==
    /\ prober[c] \in {"probing", "missed"}
    /\ prober' = [prober EXCEPT ![c] = "waiting"]
    /\ IF Live(c)
       THEN /\ strikes' = Strike(strikes)
            /\ deadlineStrikes' = IF prober[c] = "missed" THEN Strike(deadlineStrikes)
                                  ELSE 0
            /\ state' = IF strikes' = 2 \/ state = "starting" THEN "unavailable"
                        ELSE state
       ELSE UNCHANGED <<strikes, deadlineStrikes, state>>
    /\ UNCHANGED <<suspect, health, cur, started, stopping, readyFired, supVars, stopVars,
                   procVars, probeNow, callerVars>>

\* probe()'s error branch, after a missed deadline or another error; the second
\* missed deadline in a row marks the connection broken.
ProbeError(c) ==
    /\ prober[c] \in {"probing", "missed"}
    /\ prober' = [prober EXCEPT ![c] = "waiting"]
    /\ IF Live(c)
       THEN /\ strikes' = Strike(strikes)
            /\ deadlineStrikes' = IF prober[c] = "missed" THEN Strike(deadlineStrikes)
                                  ELSE 0
            /\ state' = IF strikes' = 2 \/ state = "starting" THEN "unavailable"
                        ELSE state
            /\ broken' = (broken \/ deadlineStrikes' = 2)
       ELSE UNCHANGED <<strikes, deadlineStrikes, state, broken>>
    /\ UNCHANGED <<suspect, health, cur, started, stopping, readyFired, supVars, stopVars,
                   exited, killed, dead, line, probeNow, callerVars>>

\* prober(): the interval or, after a failure, the retry timer; or probeNow.
\* (Of an older child: whatever its own strikes were.)
ProbeAgain(c) ==
    /\ prober[c] = "waiting"
    /\ \/ (Periodic \/ strikes > 0 \/ c # child) /\ UNCHANGED probeNow
       \/ c = child /\ probeNow /\ probeNow' = FALSE
    /\ prober' = [prober EXCEPT ![c] = "probing"]
    /\ UNCHANGED <<clientVars, supVars, stopVars, procVars, strikeVars, callerVars>>

ProberReturns(c) ==
    /\ prober[c] = "waiting" /\ (c = child => dead)
    /\ prober' = [prober EXCEPT ![c] = "gone"]
    /\ UNCHANGED <<clientVars, supVars, stopVars, procVars, strikeVars, probeNow, callerVars>>

-----------------------------------------------------------------------------
(* Callers: roundTrip with its own deadline, and Client.Health.             *)

Ask(i) ==
    /\ caller[i] = "idle" /\ cur # 0 /\ ~ stopping
    /\ caller' = [caller EXCEPT ![i] = "asked"] /\ on' = [on EXCEPT ![i] = cur]
    /\ UNCHANGED <<clientVars, supVars, stopVars, procVars, strikeVars, probeVars>>

Back(i) == caller' = [caller EXCEPT ![i] = "idle"] /\ on' = [on EXCEPT ![i] = 0]

\* An answer, or an error that is no missed deadline.  A module-wide Health
\* query has its result still to store.
Answered(i) ==
    /\ caller[i] = "asked"
    /\ \/ Back(i)
       \/ caller' = [caller EXCEPT ![i] = "answered"] /\ UNCHANGED on
    /\ UNCHANGED <<clientVars, supVars, stopVars, procVars, strikeVars, probeVars>>

\* Client.Health, back under Client.mu: stored if there is a current child.
StoreHealth(i) ==
    /\ caller[i] = "answered"
    /\ health' = IF cur # 0 /\ ~ stopping THEN on[i] ELSE health
    /\ Back(i)
    /\ UNCHANGED <<state, suspect, cur, started, stopping, supVars, stopVars, procVars,
                   strikeVars, probeVars>>

\* deadlineMissed() for a caller: suspect under the lock ...
CallMisses(i) ==
    /\ caller[i] = "asked"
    /\ suspect' = (suspect \/ Live(on[i]))
    /\ IF Live(on[i])
       THEN caller' = [caller EXCEPT ![i] = "nudging"] /\ UNCHANGED on
       ELSE Back(i)
    /\ UNCHANGED <<state, health, cur, started, stopping, supVars, stopVars, procVars,
                   strikeVars, probeVars>>

\* Mutant: a caller's miss leaves the prober asleep.
NudgeForgotten(i) ==
    /\ caller[i] = "nudging"
    /\ Back(i)
    /\ UNCHANGED <<clientVars, supVars, stopVars, procVars, strikeVars, probeVars>>

\* ... and, after the unlock, a non-blocking send on that child's probeNow.
Nudge(i) ==
    /\ caller[i] = "nudging"
    /\ probeNow' = (probeNow \/ on[i] = child)
    /\ Back(i)
    /\ UNCHANGED <<clientVars, supVars, stopVars, procVars, strikeVars, prober>>

-----------------------------------------------------------------------------
(* The module process, until it has been reaped: nobody looks at it later.  *)

Running == child > 0 /\ ~ dead

ProcessExits ==
    /\ Running /\ ~ exited
    /\ exited' = TRUE
    /\ UNCHANGED <<clientVars, supVars, stopVars, killed, broken, dead, line,
                   strikeVars, probeVars, callerVars>>

\* The reader or the writer finds the pipe closed.
PipeBreaks ==
    /\ Running /\ ~ broken
    /\ broken' = TRUE
    /\ UNCHANGED <<clientVars, supVars, stopVars, exited, killed, dead, line,
                   strikeVars, probeVars, callerVars>>

SaysHello ==
    /\ Running /\ sup = "hello" /\ line = "none" /\ ~ broken
    /\ \E l \in {"good", "bad"} : line' = l
    /\ UNCHANGED <<clientVars, supVars, stopVars, exited, killed, broken, dead,
                   strikeVars, probeVars, callerVars>>

-----------------------------------------------------------------------------
Supervisor ==
    \/ CheckStop \/ LaunchFails \/ Launch
    \/ HelloAccepted \/ HelloRefused \/ EndedBeforeHello \/ DetachEnded
    \/ ShutdownBegins \/ ShutdownEnds \/ Reap \/ Refused \/ Ended \/ Backoff

Stopper == StopBegins \/ StopCloses \/ StopEnds

Prober(c) ==
    \/ ProbeOK(c) \/ ProbeNotOK(c) \/ ProbeMisses(c) \/ ProbeError(c)
    \/ ProbeAgain(c) \/ ProberReturns(c)

Caller(i) == Ask(i) \/ Answered(i) \/ StoreHealth(i) \/ CallMisses(i) \/ Nudge(i)

Process == ProcessExits \/ PipeBreaks \/ SaysHello

Next ==
    \/ Start \/ Supervisor \/ Stopper \/ Process
    \/ \E c \in Children : Prober(c)
    \/ \E i \in Callers : Caller(i)

Spec == Init /\ [][Next]_vars

(* The supervisor and the goroutine inside Stop run; probes end (do() has a  *)
(* deadline), timers fire, callers' deadlines end their calls.  Nothing is   *)
(* assumed of the module, and nobody has to call Stop.                       *)
Fairness ==
    /\ WF_vars(Supervisor) /\ WF_vars(StopCloses) /\ WF_vars(StopEnds)
    /\ \A c \in Children :
         /\ WF_vars(ProbeOK(c) \/ ProbeNotOK(c) \/ ProbeMisses(c) \/ ProbeError(c))
         /\ WF_vars(ProbeAgain(c) \/ ProberReturns(c))
    /\ \A i \in Callers : WF_vars(Caller(i))

FairSpec == Spec /\ Fairness

-----------------------------------------------------------------------------
(***************************************************************************)
(* What ties the supervisor's place to the rest of the client: a child is  *)
(* current only while it is served, the one before it is over whenever the *)
(* next may be launched, and the supervisor shuts a child down for Stop.   *)
(***************************************************************************)
Serving == sup \in {"run", "shutdown"}
Attending == Serving \/ sup = "hello"

SupervisorInvariant ==
    /\ cur # 0 => Serving /\ prober[cur] \in {"probing", "missed", "waiting"}
    /\ Attending => child > 0 /\ ~ dead
    /\ ~ Attending => child = 0 \/ exited \/ killed
    /\ ~ started => sup = "none"
    /\ stopCh \/ stopper # "idle" \/ sup \in {"shutdown", "reapStopped"} => stopping

(* Properties.                                                              *)

\* "available" is always earned: until Stop, the module is available only while
\* a child is connected that itself answered a health probe ok:true, so Usable
\* never speaks for a child that is gone or has not been heard.
AvailableIsEarned ==
    state = "available" /\ ~ stopping => cur # 0 /\ readyFired

\* Suspicion never outlives what can lift it: while the module is suspect, its
\* current child's prober is probing, or it is waiting and has been or is about
\* to be nudged or has a failed probe to repeat, even with the periodic loop off.
SuspicionIsWatched ==
    suspect /\ cur # 0 /\ ~ stopping =>
        \/ prober[cur] \in {"probing", "missed"}
        \/ /\ prober[cur] = "waiting"
           /\ \/ probeNow \/ strikes > 0
              \/ \E i \in Callers : caller[i] = "nudging" /\ on[i] = cur

\* What readers of the health are told: a module is available only if a probe of
\* this very child said so, and one that is under suspicion is being looked at.
HealthIsTrue == AvailableIsEarned /\ SuspicionIsWatched

\* A module is one process: the next child is launched only when the one before
\* it has exited or been told to die, also when reap gave up waiting for it.
OneProcess == [][child' # child => child = 0 \/ exited \/ killed]_vars

\* Stop returns, whatever the module does.
StopReturns == stopper = "closing" ~> stopper = "done"

\* A module that misses two health deadlines running loses its process: the
\* restart path runs and ends in another launch attempt, or Stop came.
HungChildIsReplaced ==
    \A c \in Children :
        (cur = c /\ deadlineStrikes = 2) ~> (cur # c /\ sup \in {"launch", "returned"})
=============================================================================
