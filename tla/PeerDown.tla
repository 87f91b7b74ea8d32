------------------------------ MODULE PeerDown ------------------------------
(***************************************************************************)
(* The down state of a peer driver (internal/drivers/remote/down.go and    *)
(* the calls in remote.go that feed it): after DownAfter consecutive       *)
(* transport failures the peer is not dialled any more, and a background   *)
(* goroutine probes it until it answers.                                   *)
(*                                                                         *)
(* Every operation on the state is one critical section of down.mu and one *)
(* action here.  The probe goroutines are counted by where they are, so    *)
(* that there is at most one of them is something to check.                *)
(***************************************************************************)
EXTENDS Naturals, FiniteSets

CONSTANTS
    Calls,      \* the calls that may be in flight at the same time
    DownAfter   \* downPolicy.after

ASSUME PeerDownAssumption == IsFiniteSet(Calls) /\ DownAfter \in Nat \ {0}

VARIABLES
    up,         \* is the peer there
    dialing,    \* the calls that were admitted and have not returned
    away,       \* those of them for which the peer was gone at some time
    fails,      \* downState.fails
    down,       \* downState.down
    probing,    \* downState.probing
    stopped,    \* downState.stop is closed
    atTimer, atAsk, atCheck  \* probe goroutines, by where they are in probeLoop

callVars == <<up, dialing, away>>
downVars == <<fails, down>>
loop == <<atTimer, atAsk, atCheck>>
vars == <<callVars, downVars, probing, stopped, loop>>

Init ==
    /\ up = TRUE /\ dialing = {} /\ away = {}
    /\ fails = 0 /\ down = FALSE /\ probing = FALSE /\ stopped = FALSE
    /\ atTimer = 0 /\ atAsk = 0 /\ atCheck = 0

-----------------------------------------------------------------------------
\* Mutant: the count of failures is not reset.
ReachedKeepsFails ==
    /\ fails' = fails /\ down' = FALSE

\* noteReached
Reached ==
    /\ fails' = 0 /\ down' = FALSE

\* noteFailure
Failed(c) ==
    LET trip == ~down /\ fails + 1 >= DownAfter
        start == trip /\ ~probing
    IN  /\ fails' = fails + 1
        /\ down' = (down \/ trip)
        /\ probing' = (probing \/ start)
        /\ atTimer' = IF start THEN atTimer + 1 ELSE atTimer

Returns(c) == dialing' = dialing \ {c} /\ away' = away \ {c}

\* admit: a peer marked down is not dialled.
Admit(c) ==
    /\ c \notin dialing /\ ~down
    /\ dialing' = dialing \union {c}
    /\ away' = IF up THEN away ELSE away \union {c}
    /\ UNCHANGED <<up, downVars, probing, stopped, loop>>

\* Any HTTP response.
Answer(c) ==
    /\ c \in dialing /\ up
    /\ Reached /\ Returns(c)
    /\ UNCHANGED <<up, probing, stopped, loop>>

\* transportFailure, of a call that waited out the driver's own bound.
Fail(c) ==
    /\ c \in dialing /\ c \in away
    /\ Failed(c) /\ Returns(c)
    /\ UNCHANGED <<up, stopped, atAsk, atCheck>>

\* The caller hung up, or its own shorter deadline fired: no evidence.
HangUp(c) ==
    /\ c \in dialing
    /\ Returns(c)
    /\ UNCHANGED <<up, downVars, probing, stopped, loop>>

-----------------------------------------------------------------------------
(* probeLoop *)

ProbeTimer ==
    /\ atTimer > 0
    /\ atTimer' = atTimer - 1 /\ atAsk' = atAsk + 1
    /\ UNCHANGED <<callVars, downVars, probing, stopped, atCheck>>

\* stop is closed: endProbe(true).
ProbeStopped ==
    /\ atTimer > 0 /\ stopped
    /\ atTimer' = atTimer - 1
    /\ probing' = FALSE
    /\ UNCHANGED <<callVars, downVars, stopped, atAsk, atCheck>>

\* probeOnce
ProbeAnswered ==
    /\ atAsk > 0 /\ up
    /\ atAsk' = atAsk - 1 /\ atCheck' = atCheck + 1
    /\ Reached
    /\ UNCHANGED <<up, dialing, away, probing, stopped, atTimer>>

ProbeMissed ==
    /\ atAsk > 0 /\ ~up
    /\ atAsk' = atAsk - 1 /\ atCheck' = atCheck + 1
    /\ UNCHANGED <<callVars, downVars, probing, stopped, atTimer>>

\* Mutant: a probe ends once the peer is there, whatever was noted in between.
MayEndOnAnswer == ~down \/ up

\* endProbe(false): decided under the lock that clears probing.
MayEnd == ~down

ProbeEnds ==
    /\ atCheck > 0 /\ MayEnd
    /\ atCheck' = atCheck - 1
    /\ probing' = FALSE
    /\ UNCHANGED <<callVars, downVars, stopped, atTimer, atAsk>>

\* Mutant: a probe that was not answered is the last one.
ProbeGivesUp ==
    /\ atCheck > 0 /\ ~MayEnd
    /\ atCheck' = atCheck - 1
    /\ UNCHANGED <<callVars, downVars, probing, stopped, atTimer, atAsk>>

ProbeAgain ==
    /\ atCheck > 0 /\ ~MayEnd
    /\ atCheck' = atCheck - 1 /\ atTimer' = atTimer + 1
    /\ UNCHANGED <<callVars, downVars, probing, stopped, atAsk>>

\* Shutdown
Shutdown ==
    /\ stopped' = TRUE
    /\ UNCHANGED <<callVars, downVars, probing, loop>>

PeerGoes ==
    /\ up' = FALSE
    /\ away' = dialing
    /\ UNCHANGED <<dialing, downVars, probing, stopped, loop>>

PeerReturns ==
    /\ up' = TRUE
    /\ UNCHANGED <<dialing, away, downVars, probing, stopped, loop>>

Probe == ProbeTimer \/ ProbeStopped \/ ProbeAnswered \/ ProbeMissed \/ ProbeEnds \/ ProbeAgain

Next ==
    \/ \E c \in Calls : Admit(c) \/ Answer(c) \/ Fail(c) \/ HangUp(c)
    \/ Probe \/ Shutdown \/ PeerGoes \/ PeerReturns

Spec == Init /\ [][Next]_vars

\* The probe's timer fires, its request ends and its goroutine is scheduled.
FairSpec == Spec /\ WF_vars(Probe)
-----------------------------------------------------------------------------
TypeOK ==
    /\ up \in BOOLEAN
    /\ dialing \subseteq Calls /\ away \subseteq dialing
    /\ fails \in Nat
    /\ down \in BOOLEAN /\ probing \in BOOLEAN /\ stopped \in BOOLEAN
    /\ atTimer \in Nat /\ atAsk \in Nat /\ atCheck \in Nat

(***************************************************************************)
(* A peer that is marked down has its probe, or nothing would ever clear   *)
(* it: whatever answers and failures fall between a probe's answer and the *)
(* check that ends it (probeLoop, endProbe).                               *)
(***************************************************************************)
DownIsProbed == down /\ ~stopped => atTimer + atAsk + atCheck = 1

(***************************************************************************)
(* Why: probing says exactly whether the goroutine is there, and a trip    *)
(* finds either it or the flag.                                            *)
(***************************************************************************)
ProbeInvariant ==
    /\ atTimer + atAsk + atCheck = IF probing THEN 1 ELSE 0
    /\ down /\ ~stopped => probing

\* However the calls and probes interleave, one goroutine probes (noteFailure).
OneProbe == atTimer + atAsk + atCheck <= 1

\* The peer is down only for failures that no answer has interrupted (noteReached).
DownIsEarned == down <=> fails >= DownAfter

\* A peer that is back for good is dialled again (down.go, "The rule").
ClearedWhenBack == <>[](up /\ ~stopped) => []<>~down
=============================================================================
