------------------------------ MODULE FirstPrompt ------------------------------
(***************************************************************************)
(* The prompt a session is created with, from the create to its arrival    *)
(* (settleNewSession and deliverInitialPrompt in tmux.go, and the create   *)
(* records of createrecord.go that a listing reads).  A create returns     *)
(* before the runtime has painted anything; a settler polls the screen,    *)
(* answers the boot question the caller consented to, and sends.           *)
(***************************************************************************)
EXTENDS Naturals, Sequences, FiniteSets

CONSTANTS
    PromptNames,           \* names of sessions
    PromptEnvironments     \* what may happen, a set of records

(***************************************************************************)
(*   may       a session is renamed ("rename"), its process exits          *)
(*             ("exit"), it is closed ("close") and its name is taken      *)
(*             again ("reuse"); the service restarts ("restart"); a look   *)
(*             at the screens fails ("blind"); the runtime swallows a      *)
(*             keystroke or a confirmation is not seen ("lost"); records   *)
(*             outlive their retention ("forget")                          *)
(*   creates   sessions that are created                                   *)
(*   consents  the creates that consent to the boot question               *)
(*   typings   how often a person puts text of their own in a composer     *)
(***************************************************************************)
ASSUME PromptAssumption ==
    \A e \in PromptEnvironments :
       /\ e.may \subseteq {"rename", "exit", "close", "reuse", "restart", "blind", "lost", "forget"}
       /\ e.creates \in Nat /\ e.consents \subseteq Nat /\ e.typings \in Nat

VARIABLES
    firstEnv,     \* the environment of this behaviour
    spawned,      \* the sessions, in the order of their creates
    createRecords, \* createRecords: by name; "of" is the create it was made for
    settlers,     \* settleNewSession, one for each create
    typed         \* how often a person typed

firstVars == <<firstEnv, spawned, createRecords, settlers, typed>>

FirstMay(what) == what \in firstEnv.may
Creates == DOMAIN spawned
NoCreate == [of |-> 0, outcome |-> "none", why |-> "none"]
UnderName(n) == {s \in Creates : spawned[s].there /\ spawned[s].name = n}

FirstInit ==
    /\ firstEnv \in PromptEnvironments
    /\ spawned = <<>> /\ settlers = <<>> /\ typed = 0
    /\ createRecords = [n \in PromptNames |-> NoCreate]

-----------------------------------------------------------------------------
(* Create, and what happens to a session *)

(* A settler keeps the name of its session and never asks for another.     *)
NewSettler(n) == [name |-> n, at |-> "new", gone |-> 0, saw |-> "nothing", said |-> "none", answered |-> FALSE]

(* The session is started under a name that is free.                       *)
Launches(n) ==
    /\ Len(spawned) < firstEnv.creates /\ UnderName(n) = {}
    /\ (\E s \in Creates : n \in {spawned[s].name, settlers[s].name}) => FirstMay("reuse")
    /\ spawned' = Append(spawned, [name |-> n, there |-> TRUE, screen |-> "starting", got |-> {}])
    /\ settlers' = Append(settlers, NewSettler(n))
    /\ UNCHANGED <<firstEnv, createRecords, typed>>

(* noteCreateRecord, and the settler starts.                               *)
NotesCreate(s) ==
    /\ settlers[s].at = "new"
    /\ createRecords' = [createRecords EXCEPT ![settlers[s].name] =
                           [of |-> s, outcome |-> "pending", why |-> "none"]]
    /\ settlers' = [settlers EXCEPT ![s].at = "look"]
    /\ UNCHANGED <<firstEnv, spawned, typed>>

Screen(s, from, to) ==
    /\ s \in Creates /\ spawned[s].there /\ spawned[s].screen \in from
    /\ spawned' = [spawned EXCEPT ![s].screen = to]
    /\ UNCHANGED <<firstEnv, createRecords, settlers>>

(* The runtime paints a boot question or a composer; a person answers a    *)
(* question, types in a composer, or clears it.                            *)
AsksFirst(s) == Screen(s, {"starting"}, "question") /\ UNCHANGED typed
Paints(s) == Screen(s, {"starting", "question", "other"}, "empty") /\ UNCHANGED typed
Types(s) == Screen(s, {"empty"}, "other") /\ typed < firstEnv.typings /\ typed' = typed + 1
AgentExits(s) == Screen(s, {"starting", "question", "other", "empty", "stranded"}, "dead")
            /\ FirstMay("exit") /\ UNCHANGED typed

IsClosed(s) ==
    /\ FirstMay("close") /\ spawned[s].there
    /\ spawned' = [spawned EXCEPT ![s].there = FALSE]
    /\ UNCHANGED <<firstEnv, createRecords, settlers, typed>>

(* Rename moves the session and leaves the create record where it was.     *)
IsRenamed(s, n) ==
    /\ FirstMay("rename") /\ spawned[s].there
    /\ \A other \in Creates : n \notin {spawned[other].name, settlers[other].name}
    /\ spawned' = [spawned EXCEPT ![s].name = n]
    /\ UNCHANGED <<firstEnv, createRecords, settlers, typed>>

(* The records are stored, the settlers are not.                           *)
Restarts ==
    /\ FirstMay("restart")
    /\ \E s \in Creates : settlers[s].at \notin {"done", "lost"}
    /\ settlers' = [s \in Creates |-> IF settlers[s].at = "done" THEN settlers[s]
                                      ELSE [settlers[s] EXCEPT !.at = "lost"]]
    /\ UNCHANGED <<firstEnv, spawned, createRecords, typed>>

(* sweepCreateRecordsLocked.                                               *)
Forgets(n) ==
    /\ FirstMay("forget") /\ createRecords[n] # NoCreate
    /\ createRecords' = [createRecords EXCEPT ![n] = NoCreate]
    /\ UNCHANGED <<firstEnv, spawned, settlers, typed>>

-----------------------------------------------------------------------------
(* The records *)

(* notePromptDelivered, notePromptPending.                                 *)
ResolvedAsQueued(n, outcome) ==
    IF createRecords[n] = NoCreate THEN createRecords
    ELSE [createRecords EXCEPT ![n].outcome = IF outcome = "unknown" THEN "queued" ELSE outcome]
ResolvedWhenKnown(n, outcome) ==
    IF createRecords[n] = NoCreate \/ outcome = "unknown" THEN createRecords
     ELSE [createRecords EXCEPT ![n].outcome = outcome]
Resolved(n, outcome) ==
    IF createRecords[n] = NoCreate THEN createRecords ELSE [createRecords EXCEPT ![n].outcome = outcome]
StillWaiting(n, why) ==
    IF createRecords[n].outcome # "pending" THEN createRecords ELSE [createRecords EXCEPT ![n].why = why]

(* sessionFactsFor: what a listing shows of the session's prompt.          *)
ShownOf(s) == createRecords[spawned[s].name]

-----------------------------------------------------------------------------
(* The settler *)

Settler(s, new) == settlers' = [settlers EXCEPT ![s] = new]

(* promptReadiness.                                                        *)
Readiness(n) ==
    IF UnderName(n) = {} THEN "absent" ELSE LET screen == spawned[CHOOSE s \in UnderName(n) : TRUE].screen IN
       CASE screen = "dead" -> "absent"
         [] screen \in {"other", "stranded"} -> "other"
         [] OTHER -> screen

(* How many polls in a row found it absent; a poll that could not look is  *)
(* no evidence.                                                            *)
GoneAfter(st, saw) == IF saw = "absent" THEN st.gone + 1 ELSE 0

Looks(s) ==
    LET st == settlers[s] IN
    /\ st.at = "look"
    /\ \E saw \in {Readiness(st.name)} \cup IF FirstMay("blind") THEN {"nothing"} ELSE {} :
          Settler(s, [st EXCEPT !.at = "acts", !.saw = saw, !.gone = GoneAfter(st, saw)])
    /\ UNCHANGED <<firstEnv, spawned, createRecords, typed>>

SettlerGivesUp(s) ==
    LET st == settlers[s] IN
    /\ st.at = "acts" /\ st.gone >= 2
    /\ createRecords' = Resolved(st.name, "unknown")
    /\ Settler(s, [st EXCEPT !.at = "done"])
    /\ UNCHANGED <<firstEnv, spawned, typed>>

(* affirmativeOption: a question is answered for a caller that consented   *)
(* to its kind, when exactly one option agrees.                            *)
Agrees(s) == s \in firstEnv.consents

(* The question is answered once; Respond asks for the screen to be the    *)
(* one that was looked at.                                                 *)
Consents(s) ==
    LET st == settlers[s]  there == {t \in UnderName(st.name) : spawned[t].screen = "question"} IN
    /\ st.at = "acts" /\ st.gone < 2 /\ st.saw = "question" /\ Agrees(s) /\ ~st.answered
    /\ spawned' = [t \in Creates |->
                     IF t \in there THEN [spawned[t] EXCEPT !.screen = "starting"] ELSE spawned[t]]
    /\ Settler(s, [st EXCEPT !.at = "look", !.answered = TRUE])
    /\ UNCHANGED <<firstEnv, createRecords, typed>>

Waits(s) ==
    LET st == settlers[s] IN
    /\ st.at = "acts" /\ st.gone < 2 /\ st.saw # "empty"
    /\ st.saw = "question" => st.answered \/ ~Agrees(s)
    /\ createRecords' = IF st.saw \in {"nothing", st.said} THEN createRecords ELSE StillWaiting(st.name, st.saw)
    /\ Settler(s, [st EXCEPT !.at = "look", !.said = IF st.saw = "nothing" THEN @ ELSE st.saw])
    /\ UNCHANGED <<firstEnv, spawned, typed>>

(* deliverInitialPrompt: the first send, in the terminal.                  *)
PromptEnds(s, outcome) ==
    /\ createRecords' = Resolved(settlers[s].name, outcome)
    /\ Settler(s, [settlers[s] EXCEPT !.at = "done"])

Receives(t, s) == spawned' = [spawned EXCEPT ![t].got = @ \cup {s}]

Sends(s) ==
    LET st == settlers[s]  there == UnderName(st.name) IN
    /\ st.at = "acts" /\ st.gone < 2 /\ st.saw = "empty"
    /\ \/ there = {} /\ PromptEnds(s, "unknown") /\ UNCHANGED spawned
       \/ \E t \in there : spawned[t].screen # "empty" /\ PromptEnds(s, "refused") /\ UNCHANGED spawned
       \/ \E t \in there : spawned[t].screen = "empty" /\ Receives(t, s) /\ PromptEnds(s, "queued")
       \/ \E t \in there :
             /\ FirstMay("lost") /\ spawned[t].screen = "empty"
             /\ \/ spawned' = [spawned EXCEPT ![t].screen = "stranded"]
                \/ Receives(t, s)
             /\ Settler(s, [st EXCEPT !.at = "retry"]) /\ UNCHANGED createRecords
    /\ UNCHANGED <<firstEnv, typed>>

(* The one retry resumes what the first send left in the composer.         *)
Retries(s) ==
    LET st == settlers[s]  left == {t \in UnderName(st.name) : spawned[t].screen = "stranded"} IN
    /\ st.at = "retry"
    /\ \/ \E t \in left :
             /\ spawned' = [spawned EXCEPT ![t].screen = "empty", ![t].got = @ \cup {s}]
             /\ PromptEnds(s, "queued")
       \/ \E t \in left : FirstMay("lost") /\ PromptEnds(s, "unknown")
             /\ spawned' \in {spawned, [spawned EXCEPT ![t].screen = "empty", ![t].got = @ \cup {s}]}
       \/ left = {} /\ PromptEnds(s, "unknown") /\ UNCHANGED spawned
    /\ UNCHANGED <<firstEnv, typed>>

SettlerSteps(s) ==
    NotesCreate(s) \/ Looks(s) \/ SettlerGivesUp(s) \/ Consents(s) \/ Waits(s) \/ Sends(s) \/ Retries(s)

FirstNext ==
    \/ \E n \in PromptNames : Launches(n) \/ Forgets(n)
    \/ \E s \in Creates : AsksFirst(s) \/ Paints(s) \/ Types(s) \/ AgentExits(s) \/ IsClosed(s)
    \/ \E s \in Creates, n \in PromptNames : IsRenamed(s, n)
    \/ Restarts
    \/ \E s \in Creates : SettlerSteps(s)

FirstSpec == FirstInit /\ [][FirstNext]_firstVars

(* The service polls, the runtime paints, and a person clears a composer.  *)
FirstFairSpec ==
    /\ FirstSpec
    /\ \A s \in 1..3 : WF_firstVars(s \in Creates /\ SettlerSteps(s))
    /\ \A s \in 1..3 : WF_firstVars(s \in Creates /\ Paints(s))

-----------------------------------------------------------------------------
(* Properties *)

(* A prompt reaches no session but the one it was created with.  As long   *)
(* as that keeps its name and the record is kept, what a listing shows is  *)
(* true: it is about this session, it is not pending once its settler has  *)
(* finished (a settler that the service stopped under never does), a       *)
(* prompt that is told as taken was received, one that is told as refused  *)
(* was not, and nothing is unknown but what could not be seen.             *)
PromptIsTold ==
    \A s \in Creates :
       /\ spawned[s].got \subseteq {s}
       /\ (spawned[s].there /\ spawned[s].name = settlers[s].name /\ ShownOf(s) # NoCreate) =>
             LET shown == ShownOf(s) IN
             /\ shown.of = s
             /\ shown.outcome = "pending" => settlers[s].at # "done"
             /\ shown.outcome = "queued" => s \in spawned[s].got
             /\ shown.outcome = "refused" => s \notin spawned[s].got
             /\ shown.outcome = "unknown" => Readiness(spawned[s].name) = "absent" \/ FirstMay("lost")

(* A session that was created with a prompt never reads as one that was    *)
(* not.                                                                    *)
PromptIsNoSecret ==
    \A s \in Creates : spawned[s].there /\ settlers[s].at # "new" => ShownOf(s).of = s

(* Every prompt is settled: the session that was created with it is gone,  *)
(* or the listing shows what became of it.                                 *)
PromptSettled(s) == ~spawned[s].there \/ ShownOf(s).outcome \in {"queued", "refused", "unknown"}
PromptSettles == []<>(\A s \in Creates : PromptSettled(s))
=============================================================================
