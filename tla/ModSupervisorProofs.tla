------------------------ MODULE ModSupervisorProofs ------------------------
(***************************************************************************)
(* Theorems about ModSupervisor, for any number of launches, any callers,  *)
(* and with the periodic probe on or off.                                  *)
(***************************************************************************)
EXTENDS ModSupervisor, TLAPS

(* TypeOK in two parts: the flags, and the rest.                            *)
FlagTypes ==
    /\ suspect \in BOOLEAN /\ started \in BOOLEAN /\ stopping \in BOOLEAN
    /\ stopCh \in BOOLEAN
    /\ exited \in BOOLEAN /\ killed \in BOOLEAN /\ broken \in BOOLEAN /\ dead \in BOOLEAN
    /\ readyFired \in BOOLEAN /\ probeNow \in BOOLEAN

DataTypes ==
    /\ state \in {"starting", "available", "unavailable", "disabled"}
    /\ health \in 0 .. MaxChild
    /\ child \in 0 .. MaxChild /\ cur \in {0, child}
    /\ sup \in {"none", "start", "launch", "hello", "run", "shutdown", "reapRefused",
                "reapEnded", "reapDetached", "reapStopped", "refused", "ended",
                "backoff", "returned"}
    /\ stopper \in {"idle", "closing", "waiting", "done"}
    /\ line \in {"none", "good", "bad"}
    /\ strikes \in 0 .. 2 /\ deadlineStrikes \in 0 .. 2
    /\ prober \in [Children -> {"off", "probing", "missed", "waiting", "gone"}]
    /\ caller \in [Callers -> {"idle", "asked", "answered", "nudging"}]
    /\ on \in [Callers -> 0 .. MaxChild]

(* The type invariant, in the parts that steps disturb.                     *)
LEMMA TypesSplit == TypeOK <=> FlagTypes /\ DataTypes
  BY DEF TypeOK, FlagTypes, DataTypes

IndInv ==
    DataTypes /\ FlagTypes /\ SupervisorInvariant /\ AvailableIsEarned /\ SuspicionIsWatched

(* The inductive invariant holds at first.                                  *)
LEMMA Initially == Init => IndInv
<1> USE SupervisorAssumption DEF SupervisorAssumption
<1> SUFFICES ASSUME Init PROVE IndInv
  OBVIOUS
<1>1. DataTypes
  BY DEF Init, DataTypes, Children
<1>2. FlagTypes
  BY DEF Init, FlagTypes
<1>3. SupervisorInvariant
  BY DEF Init, SupervisorInvariant, Serving, Attending
<1>4. AvailableIsEarned /\ SuspicionIsWatched
  BY DEF Init, AvailableIsEarned, SuspicionIsWatched
<1> QED
  BY <1>1, <1>2, <1>3, <1>4 DEF IndInv


(* The supervisor: the child it serves is the current one, and over when the next comes.*)
LEMMA SupervisorStep == IndInv /\ Supervisor => IndInv'
<1> SUFFICES ASSUME IndInv, Supervisor PROVE IndInv'
  OBVIOUS
<1> USE SupervisorAssumption DEF SupervisorAssumption, Children, Serving, Attending, clientVars, supVars,
         stopVars, procVars, strikeVars, probeVars, callerVars,
         IndInv, DataTypes, FlagTypes, SupervisorInvariant, AvailableIsEarned, SuspicionIsWatched
<1>1. CASE CheckStop
  BY <1>1 DEF CheckStop
<1>2. CASE LaunchFails
  BY <1>2 DEF LaunchFails
<1>3. CASE Launch
  <2>1. DataTypes'
    BY <1>3 DEF Launch
  <2>2. FlagTypes'
    BY <1>3 DEF Launch
  <2>3. SupervisorInvariant'
    BY <1>3 DEF Launch
  <2>4. AvailableIsEarned'
    BY <1>3 DEF Launch
  <2>5. SuspicionIsWatched'
    BY <1>3 DEF Launch
  <2> QED
    BY <2>1, <2>2, <2>3, <2>4, <2>5
<1>4. CASE HelloAccepted
  <2>1. DataTypes'
    BY <1>4 DEF HelloAccepted
  <2>2. FlagTypes'
    BY <1>4 DEF HelloAccepted
  <2>3. SupervisorInvariant'
    BY <1>4 DEF HelloAccepted
  <2>4. AvailableIsEarned'
    BY <1>4 DEF HelloAccepted
  <2>5. SuspicionIsWatched'
    BY <1>4 DEF HelloAccepted
  <2> QED
    BY <2>1, <2>2, <2>3, <2>4, <2>5
<1>5. CASE HelloRefused
  BY <1>5 DEF HelloRefused
<1>6. CASE EndedBeforeHello
  BY <1>6 DEF EndedBeforeHello
<1>7. CASE DetachEnded
  BY <1>7, ZenonT(60) DEF DetachEnded
<1>8. CASE ShutdownBegins
  BY <1>8 DEF ShutdownBegins
<1>9. CASE ShutdownEnds
  BY <1>9 DEF ShutdownEnds
<1>10. CASE Reap
  BY <1>10 DEF Reap
<1>11. CASE Refused
  BY <1>11, ZenonT(60) DEF Refused
<1>12. CASE Ended
  BY <1>12 DEF Ended
<1>13. CASE Backoff
  BY <1>13 DEF Backoff
<1> QED
  BY <1>1, <1>2, <1>3, <1>4, <1>5, <1>6, <1>7, <1>8, <1>9, <1>10, <1>11, <1>12, <1>13 DEF Supervisor

(* Stop.                                                                    *)
LEMMA StopperStep == IndInv /\ Stopper => IndInv'
<1> SUFFICES ASSUME IndInv, Stopper PROVE IndInv'
  OBVIOUS
<1> USE SupervisorAssumption DEF SupervisorAssumption, Children, Serving, Attending, clientVars, supVars,
         stopVars, procVars, strikeVars, probeVars, callerVars,
         IndInv, DataTypes, FlagTypes, SupervisorInvariant, AvailableIsEarned, SuspicionIsWatched
<1>1. CASE StopBegins
  BY <1>1 DEF StopBegins
<1>2. CASE StopCloses
  BY <1>2 DEF StopCloses
<1>3. CASE StopEnds
  BY <1>3, ZenonT(60) DEF StopEnds
<1> QED
  BY <1>1, <1>2, <1>3 DEF Stopper

(* What the process does is seen only later.                                *)
LEMMA ProcessStep == IndInv /\ Process => IndInv'
<1> SUFFICES ASSUME IndInv, Process PROVE IndInv'
  OBVIOUS
<1> USE SupervisorAssumption DEF SupervisorAssumption, Children, Serving, Attending, clientVars, supVars,
         stopVars, procVars, strikeVars, probeVars, callerVars,
         IndInv, DataTypes, FlagTypes, SupervisorInvariant, AvailableIsEarned, SuspicionIsWatched
<1>1. CASE ProcessExits
  BY <1>1 DEF ProcessExits, Running
<1>2. CASE PipeBreaks
  BY <1>2 DEF PipeBreaks, Running
<1>3. CASE SaysHello
  BY <1>3 DEF SaysHello, Running
<1> QED
  BY <1>1, <1>2, <1>3 DEF Process

(* A probe counts for the child that is current when it ends.               *)
LEMMA ProberStep == IndInv /\ (\E c \in Children : Prober(c)) => IndInv'
<1> SUFFICES ASSUME IndInv, (\E c \in Children : Prober(c)) PROVE IndInv'
  OBVIOUS
<1> USE SupervisorAssumption DEF SupervisorAssumption, Children, Serving, Attending, clientVars, supVars,
         stopVars, procVars, strikeVars, probeVars, callerVars,
         IndInv, DataTypes, FlagTypes, SupervisorInvariant, AvailableIsEarned, SuspicionIsWatched
<1>1. ASSUME NEW c \in Children, ProbeOK(c) PROVE IndInv'
  <2>1. DataTypes'
    BY <1>1 DEF ProbeOK, Live
  <2>2. FlagTypes'
    BY <1>1 DEF ProbeOK, Live
  <2>3. SupervisorInvariant'
    BY <1>1 DEF ProbeOK, Live
  <2>4. AvailableIsEarned'
    BY <1>1 DEF ProbeOK, Live
  <2>5. SuspicionIsWatched'
    <3>1. CASE Live(c)
      <4>1. suspect' = FALSE
        BY <1>1, <3>1 DEF ProbeOK
      <4> QED
        BY <4>1
    <3>2. CASE ~Live(c)
      <4>1. UNCHANGED <<suspect, strikes, probeNow, caller, on, cur, stopping>>
        BY <1>1, <3>2 DEF ProbeOK
      <4>2. c # cur => prober'[cur] = prober[cur]
        BY <1>1 DEF ProbeOK
      <4>3. c # cur \/ stopping
        BY <3>2 DEF Live
      <4> QED
        BY <4>1, <4>2, <4>3
    <3> QED
      BY <3>1, <3>2
  <2> QED
    BY <2>1, <2>2, <2>3, <2>4, <2>5
<1>2. ASSUME NEW c \in Children, ProbeNotOK(c) PROVE IndInv'
  BY <1>2 DEF ProbeNotOK, Live, Strike
<1>3. ASSUME NEW c \in Children, ProbeMisses(c) PROVE IndInv'
  BY <1>3 DEF ProbeMisses, Live
<1>4. ASSUME NEW c \in Children, ProbeError(c) PROVE IndInv'
  BY <1>4 DEF ProbeError, Live, Strike
<1>5. ASSUME NEW c \in Children, ProbeAgain(c) PROVE IndInv'
  <2>1. DataTypes'
    BY <1>5 DEF ProbeAgain
  <2>2. FlagTypes'
    BY <1>5 DEF ProbeAgain
  <2>3. SupervisorInvariant'
    BY <1>5 DEF ProbeAgain
  <2>4. AvailableIsEarned'
    BY <1>5 DEF ProbeAgain
  <2>5. SuspicionIsWatched'
    BY <1>5 DEF ProbeAgain
  <2> QED
    BY <2>1, <2>2, <2>3, <2>4, <2>5
<1>6. ASSUME NEW c \in Children, ProberReturns(c) PROVE IndInv'
  BY <1>6 DEF ProberReturns
<1> QED
  BY <1>1, <1>2, <1>3, <1>4, <1>5, <1>6 DEF Prober

(* Callers raise suspicion, and nudge the prober of the child they asked.   *)
LEMMA CallerStep == IndInv /\ (\E i \in Callers : Caller(i)) => IndInv'
<1> SUFFICES ASSUME IndInv, (\E i \in Callers : Caller(i)) PROVE IndInv'
  OBVIOUS
<1> USE SupervisorAssumption DEF SupervisorAssumption, Children, Serving, Attending, clientVars, supVars,
         stopVars, procVars, strikeVars, probeVars, callerVars,
         IndInv, DataTypes, FlagTypes, SupervisorInvariant, AvailableIsEarned, SuspicionIsWatched
<1>1. ASSUME NEW i \in Callers, Ask(i) PROVE IndInv'
  BY <1>1 DEF Ask
<1>2. ASSUME NEW i \in Callers, Answered(i) PROVE IndInv'
  <2>1. DataTypes'
    BY <1>2, SMTT(30) DEF Answered, Back
  <2>2. FlagTypes'
    BY <1>2 DEF Answered, Back
  <2>3. SupervisorInvariant'
    BY <1>2 DEF Answered, Back
  <2>4. AvailableIsEarned'
    BY <1>2 DEF Answered, Back
  <2>5. SuspicionIsWatched'
    BY <1>2 DEF Answered, Back
  <2> QED
    BY <2>1, <2>2, <2>3, <2>4, <2>5
<1>3. ASSUME NEW i \in Callers, StoreHealth(i) PROVE IndInv'
  BY <1>3 DEF StoreHealth, Back
<1>4. ASSUME NEW i \in Callers, CallMisses(i) PROVE IndInv'
  <2>1. DataTypes'
    BY <1>4 DEF CallMisses, Live, Back
  <2>2. FlagTypes'
    BY <1>4 DEF CallMisses, Live, Back
  <2>3. SupervisorInvariant'
    BY <1>4 DEF CallMisses, Live, Back
  <2>4. AvailableIsEarned'
    BY <1>4 DEF CallMisses, Live, Back
  <2>5. SuspicionIsWatched'
    BY <1>4 DEF CallMisses, Live, Back
  <2> QED
    BY <2>1, <2>2, <2>3, <2>4, <2>5
<1>5. ASSUME NEW i \in Callers, Nudge(i) PROVE IndInv'
  BY <1>5 DEF Nudge, Back
<1> QED
  BY <1>1, <1>2, <1>3, <1>4, <1>5 DEF Caller

(* The invariant is inductive.                                              *)
LEMMA Inductive == IndInv /\ [Next]_vars => IndInv'
<1> SUFFICES ASSUME IndInv, [Next]_vars PROVE IndInv'
  OBVIOUS
<1>1. CASE UNCHANGED vars
  <2> USE DEF IndInv, vars, clientVars, supVars, stopVars, procVars, strikeVars, probeVars, callerVars
  <2>1. DataTypes' /\ FlagTypes'
    BY <1>1 DEF DataTypes, FlagTypes
  <2>2. SupervisorInvariant'
    BY <1>1 DEF SupervisorInvariant, Attending, Serving
  <2>3. AvailableIsEarned' /\ SuspicionIsWatched'
    BY <1>1 DEF AvailableIsEarned, SuspicionIsWatched
  <2> QED
    BY <2>1, <2>2, <2>3
<1>2. CASE Start
  BY <1>2 DEF Start, Serving, Attending, clientVars, supVars, stopVars, procVars, strikeVars, probeVars,
     callerVars, IndInv, DataTypes, FlagTypes, SupervisorInvariant, AvailableIsEarned, SuspicionIsWatched
<1> QED
  BY <1>1, <1>2, SupervisorStep, StopperStep, ProcessStep, ProberStep, CallerStep DEF Next

(* The inductive invariant of the supervisor.                               *)
LEMMA InvariantHolds == Spec => []IndInv
<1> QED
  BY Initially, Inductive, PTL DEF Spec

(* Every variable keeps its type.                                           *)
THEOREM SupervisorTypeCorrect == Spec => []TypeOK
<1>1. IndInv => TypeOK
  BY TypesSplit DEF IndInv
<1> QED
  BY <1>1, InvariantHolds, PTL

(***************************************************************************)
(* "available" is earned by the child that is current, and a suspicion is  *)
(* always being looked into, however many children there were before.      *)
(***************************************************************************)
THEOREM HealthIsAlwaysTrue == Spec => []HealthIsTrue
<1>1. IndInv => HealthIsTrue
  BY DEF IndInv, HealthIsTrue
<1> QED
  BY <1>1, InvariantHolds, PTL

(***************************************************************************)
(* A module is one process: by SupervisorInvariant the child before is     *)
(* over wherever the supervisor may launch the next.                       *)
(***************************************************************************)
THEOREM OneProcessAtATime == Spec => OneProcess
<1>1. IndInv /\ [Next]_vars => [child' # child => child = 0 \/ exited \/ killed]_vars
  <2> SUFFICES ASSUME IndInv, [Next]_vars, child' # child PROVE child = 0 \/ exited \/ killed
    OBVIOUS
  <2>1. Launch
    BY DEF vars, clientVars, supVars, stopVars, procVars, strikeVars, probeVars, callerVars,
           Next, Start, Supervisor, Stopper, Process, Prober, Caller, CheckStop, LaunchFails,
           HelloAccepted, HelloRefused, EndedBeforeHello, DetachEnded, ShutdownBegins, ShutdownEnds,
           Reap, Refused, Ended, Backoff, StopBegins, StopCloses, StopEnds, ProcessExits, PipeBreaks,
           SaysHello, ProbeOK, ProbeNotOK, ProbeMisses, ProbeError, ProbeAgain, ProberReturns,
           Ask, Answered, StoreHealth, CallMisses, Nudge, Back
  <2> QED
    BY <2>1 DEF IndInv, SupervisorInvariant, Attending, Serving, Launch
<1> QED
  BY <1>1, InvariantHolds, PTL DEF Spec, OneProcess
=============================================================================
