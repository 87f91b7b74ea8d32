-------------------------- MODULE OtherDriversProofs ---------------------------
(***************************************************************************)
(* Theorems about the drivers beside tmux: about PeerDown, for every set   *)
(* of calls and every threshold; about OpencodeSessions, for every set of  *)
(* keys and any number of calls and sessions; and about the calls that     *)
(* PeerRelay relays and the events it follows, for any number of them.     *)
(***************************************************************************)
EXTENDS PeerDown, OpencodeSessions, PeerRelay, FiniteSetTheorems, SequenceTheorems, TLAPS


(* Every variable keeps its type.                                           *)
THEOREM PeerTypeCorrect == Spec => []TypeOK
<1> USE PeerDownAssumption
<1>1. Init => TypeOK
  <2> SUFFICES ASSUME Init PROVE TypeOK
    OBVIOUS
  <2>1. /\ dialing \subseteq Calls /\ away \subseteq dialing
        /\ fails \in Nat /\ atTimer \in Nat /\ atAsk \in Nat /\ atCheck \in Nat
    BY DEF Init
  <2>2. /\ up \in BOOLEAN
        /\ down \in BOOLEAN /\ probing \in BOOLEAN /\ stopped \in BOOLEAN
    BY DEF Init
  <2> QED
    BY <2>1, <2>2 DEF TypeOK
<1>2. TypeOK /\ [Next]_vars => TypeOK'
  <2> SUFFICES ASSUME TypeOK, [Next]_vars PROVE TypeOK'
    OBVIOUS
  <2> USE DEF TypeOK, callVars, downVars, loop
  <2>1. ASSUME NEW c \in Calls, Admit(c) PROVE TypeOK'
    BY <2>1 DEF Admit
  <2>2. ASSUME NEW c \in Calls, Answer(c) PROVE TypeOK'
    BY <2>2 DEF Answer, Reached, Returns
  <2>3. ASSUME NEW c \in Calls, Fail(c) PROVE TypeOK'
    <3>0. fails' = fails + 1 /\ (atTimer' = atTimer \/ atTimer' = atTimer + 1)
      <4>1. CASE ~down /\ fails + 1 >= DownAfter /\ ~probing
        BY <2>3, <4>1 DEF Fail, Failed
      <4>2. CASE ~(~down /\ fails + 1 >= DownAfter /\ ~probing)
        BY <2>3, <4>2 DEF Fail, Failed
      <4> QED
        BY <4>1, <4>2
    <3>1. fails' \in Nat /\ atTimer' \in Nat
      BY <3>0
    <3>3. dialing' \subseteq Calls /\ away' \subseteq dialing'
      BY <2>3 DEF Fail, Returns
    <3>2. down' \in BOOLEAN /\ probing' \in BOOLEAN
      <4>2. down' = (down \/ (~down /\ fails + 1 >= DownAfter))
        BY <2>3 DEF Fail, Failed
      <4>3. probing' = (probing \/ (~down /\ fails + 1 >= DownAfter /\ ~probing))
        BY <2>3 DEF Fail, Failed
      <4>4. (fails + 1 >= DownAfter) \in BOOLEAN
        OBVIOUS
      <4> QED
        BY <4>2, <4>3, <4>4
    <3> QED
      BY <2>3, <3>1, <3>2, <3>3 DEF Fail
  <2>4. ASSUME NEW c \in Calls, HangUp(c) PROVE TypeOK'
    BY <2>4 DEF HangUp, Returns
  <2>5. CASE ProbeTimer
    BY <2>5 DEF ProbeTimer
  <2>6. CASE ProbeStopped
    <3>1. atTimer' \in Nat
      BY <2>6 DEF ProbeStopped
    <3>2. up' \in BOOLEAN /\ down' \in BOOLEAN /\ probing' \in BOOLEAN
      BY <2>6 DEF ProbeStopped
    <3> QED
      BY <2>6, <3>1, <3>2 DEF ProbeStopped
  <2>7. CASE ProbeAnswered
    <3>1. atAsk' \in Nat /\ atCheck' \in Nat
      BY <2>7 DEF ProbeAnswered
    <3>2. up' \in BOOLEAN /\ down' \in BOOLEAN /\ probing' \in BOOLEAN
      BY <2>7 DEF ProbeAnswered, Reached
    <3> QED
      BY <2>7, <3>1, <3>2 DEF ProbeAnswered, Reached
  <2>8. CASE ProbeMissed
    BY <2>8 DEF ProbeMissed
  <2>9. CASE ProbeEnds
    <3>1. atCheck' \in Nat
      BY <2>9 DEF ProbeEnds
    <3>2. up' \in BOOLEAN /\ down' \in BOOLEAN /\ probing' \in BOOLEAN
      BY <2>9 DEF ProbeEnds
    <3> QED
      BY <2>9, <3>1, <3>2 DEF ProbeEnds
  <2>10. CASE ProbeAgain
    BY <2>10 DEF ProbeAgain
  <2>11. CASE Shutdown
    BY <2>11 DEF Shutdown
  <2>12. CASE PeerGoes
    BY <2>12 DEF PeerGoes
  <2>13. CASE PeerReturns
    BY <2>13 DEF PeerReturns
  <2>14. CASE UNCHANGED vars
    BY <2>14 DEF vars
  <2> QED
    BY <2>1, <2>2, <2>3, <2>4, <2>5, <2>6, <2>7, <2>8, <2>9, <2>10, <2>11, <2>12, <2>13, <2>14
       DEF Next, Probe
<1> QED
  BY <1>1, <1>2, PTL DEF Spec

-----------------------------------------------------------------------------
(***************************************************************************)
(* The flag probing is the probe goroutine: they change together, in one   *)
(* critical section of down.mu, wherever the calls and the probe meet.     *)
(***************************************************************************)
THEOREM ProbeInvariantHolds == Spec => []ProbeInvariant
<1> USE PeerDownAssumption
<1>1. Init => ProbeInvariant
  BY DEF Init, ProbeInvariant
<1>2. TypeOK /\ ProbeInvariant /\ [Next]_vars => ProbeInvariant'
  <2> SUFFICES ASSUME TypeOK, ProbeInvariant, [Next]_vars PROVE ProbeInvariant'
    OBVIOUS
  <2> USE DEF TypeOK, ProbeInvariant, callVars, downVars, loop
  <2>1. ASSUME NEW c \in Calls, Admit(c) PROVE ProbeInvariant'
    BY <2>1 DEF Admit
  <2>2. ASSUME NEW c \in Calls, Answer(c) PROVE ProbeInvariant'
    BY <2>2 DEF Answer, Reached
  <2>3. ASSUME NEW c \in Calls, Fail(c) PROVE ProbeInvariant'
    <3>1. CASE ~down /\ fails + 1 >= DownAfter
      <4>1. down' /\ probing'
        BY <2>3, <3>1 DEF Fail, Failed
      <4>2. atTimer' = IF probing THEN atTimer ELSE atTimer + 1
        BY <2>3, <3>1 DEF Fail, Failed
      <4> QED
        BY <2>3, <4>1, <4>2 DEF Fail
    <3>2. CASE ~(~down /\ fails + 1 >= DownAfter)
      <4>1. down' = down /\ probing' = probing /\ atTimer' = atTimer
        BY <2>3, <3>2 DEF Fail, Failed
      <4> QED
        BY <2>3, <4>1 DEF Fail
    <3> QED
      BY <3>1, <3>2
  <2>4. ASSUME NEW c \in Calls, HangUp(c) PROVE ProbeInvariant'
    BY <2>4 DEF HangUp
  <2>5. CASE ProbeTimer
    BY <2>5 DEF ProbeTimer
  <2>6. CASE ProbeStopped
    BY <2>6 DEF ProbeStopped
  <2>7. CASE ProbeAnswered
    BY <2>7 DEF ProbeAnswered, Reached
  <2>8. CASE ProbeMissed
    BY <2>8 DEF ProbeMissed
  <2>9. CASE ProbeEnds
    BY <2>9 DEF ProbeEnds, MayEnd
  <2>10. CASE ProbeAgain
    BY <2>10 DEF ProbeAgain
  <2>11. CASE Shutdown
    BY <2>11 DEF Shutdown
  <2>12. CASE PeerGoes
    BY <2>12 DEF PeerGoes
  <2>13. CASE PeerReturns
    BY <2>13 DEF PeerReturns
  <2>14. CASE UNCHANGED vars
    BY <2>14 DEF vars
  <2> QED
    BY <2>1, <2>2, <2>3, <2>4, <2>5, <2>6, <2>7, <2>8, <2>9, <2>10, <2>11, <2>12, <2>13, <2>14
       DEF Next, Probe
<1> QED
  BY <1>1, <1>2, PeerTypeCorrect, PTL DEF Spec

(* However calls and probes interleave, at most one goroutine probes.       *)
THEOREM AtMostOneProbe == Spec => []OneProbe
<1>1. TypeOK /\ ProbeInvariant => OneProbe
  BY DEF TypeOK, ProbeInvariant, OneProbe
<1> QED
  BY <1>1, PeerTypeCorrect, ProbeInvariantHolds, PTL

(* A peer that is marked down has the probe that will clear it.             *)
THEOREM DownHasItsProbe == Spec => []DownIsProbed
<1>1. TypeOK /\ ProbeInvariant => DownIsProbed
  BY DEF TypeOK, ProbeInvariant, DownIsProbed
<1> QED
  BY <1>1, PeerTypeCorrect, ProbeInvariantHolds, PTL

-----------------------------------------------------------------------------
(***************************************************************************)
(* The peer is down exactly when DownAfter failures followed one another   *)
(* with no answer between them.                                            *)
(***************************************************************************)
THEOREM DownIsAlwaysEarned == Spec => []DownIsEarned
<1> USE PeerDownAssumption
<1>1. Init => DownIsEarned
  BY DEF Init, DownIsEarned
<1>2. TypeOK /\ DownIsEarned /\ [Next]_vars => DownIsEarned'
  <2> SUFFICES ASSUME TypeOK, DownIsEarned, [Next]_vars PROVE DownIsEarned'
    OBVIOUS
  <2> USE DEF TypeOK, DownIsEarned
  <2>1. ASSUME NEW c \in Calls, Fail(c) PROVE DownIsEarned'
    <3>1. fails' = fails + 1
      BY <2>1 DEF Fail, Failed
    <3>2. down' <=> (down \/ fails + 1 >= DownAfter)
      BY <2>1 DEF Fail, Failed
    <3> QED
      BY <3>1, <3>2
  <2>2. CASE Reached
    BY <2>2 DEF Reached
  <2>3. CASE UNCHANGED <<fails, down>>
    BY <2>3
  <2>4. \/ \E c \in Calls : Fail(c)
        \/ Reached
        \/ UNCHANGED <<fails, down>>
    BY DEF Next, Probe, vars, callVars, downVars, Admit, Answer, HangUp, ProbeTimer,
           ProbeStopped, ProbeAnswered, ProbeMissed, ProbeEnds, ProbeAgain, Shutdown,
           PeerGoes, PeerReturns
  <2> QED
    BY <2>1, <2>2, <2>3, <2>4
<1> QED
  BY <1>1, <1>2, PeerTypeCorrect, PTL DEF Spec

-----------------------------------------------------------------------------
(* Sequences *)

(* A sequence with one element replaced.                                    *)
LEMMA SequenceReplaced ==
  ASSUME NEW S, NEW s \in Seq(S), NEW i \in DOMAIN s, NEW r \in S, NEW t,
         t = [s EXCEPT ![i] = r]
  PROVE  /\ t \in Seq(S) /\ DOMAIN t = DOMAIN s /\ Len(t) = Len(s)
         /\ \A j \in DOMAIN s : t[j] = IF j = i THEN r ELSE s[j]
  BY ExceptSeq, LenProperties

(* A sequence with one more element.                                        *)
LEMMA SequenceExtended ==
  ASSUME NEW S, NEW s \in Seq(S), NEW r \in S, NEW t, t = Append(s, r)
  PROVE  /\ t \in Seq(S) /\ DOMAIN t = DOMAIN s \cup {Len(s) + 1} /\ Len(t) = Len(s) + 1
         /\ Len(s) + 1 \notin DOMAIN s /\ Len(s) + 1 \in Nat
         /\ t[Len(s) + 1] = r /\ \A j \in DOMAIN s : t[j] = s[j]
<1>1. /\ t \in Seq(S) /\ Len(t) = Len(s) + 1
      /\ \A j \in 1 .. Len(s) : t[j] = s[j]
      /\ t[Len(s) + 1] = r
  BY AppendProperties
<1>2. Len(s) \in Nat /\ DOMAIN s = 1 .. Len(s) /\ DOMAIN t = 1 .. Len(t)
  BY <1>1, LenProperties
<1> QED
  BY <1>1, <1>2

(* A function on the places of a sequence is a sequence.                    *)
LEMMA SequenceMapped ==
  ASSUME NEW S, NEW s \in Seq(S), NEW T, NEW t, t = [j \in DOMAIN s |-> t[j]],
         \A j \in DOMAIN s : t[j] \in T
  PROVE  t \in Seq(T) /\ DOMAIN t = DOMAIN s /\ Len(t) = Len(s)
<1>1. Len(s) \in Nat /\ DOMAIN s = 1 .. Len(s)
  BY LenProperties
<1>2. t \in [1 .. Len(s) -> T]
  BY <1>1
<1>3. t \in Seq(T)
  BY <1>1, <1>2, SeqDef
<1> QED
  BY <1>1, <1>2, <1>3, LenProperties

-----------------------------------------------------------------------------
(* The calls of the opencode driver *)

(* What a call under way saw stays what it saw, and it sees what is now.    *)
Sees(old, new) ==
    /\ DOMAIN new.saw = DOMAIN old.saw
    /\ \A i \in DOMAIN old.saw : old.saw[i] \subseteq new.saw[i]

(* A call makes no step of its own, and sees one that the server makes.     *)
Stays(c) == LET old == ocCalls[c]  new == ocCalls'[c] IN
    /\ new.op = old.op /\ new.id = old.id /\ new.key = old.key
    /\ new.at = old.at /\ new.reply = old.reply /\ new.body = old.body
    /\ new.answer = old.answer /\ new.shown = old.shown /\ new.failed = old.failed
    /\ new.known = old.known /\ new.over = old.over
    /\ Sees(old, new)
    /\ old.at # "done" => \A i \in DOMAIN old.saw : Was(server', i) \in new.saw[i]

(* Sessions keep their keys and prompts, one that is gone stays so, and     *)
(* only the call `c' may have added a prompt.                               *)
Grows(s, t, c) ==
    /\ DOMAIN s \subseteq DOMAIN t
    /\ \A i \in DOMAIN s :
          /\ t[i].key = s[i].key
          /\ s[i].is = "gone" => t[i].is = "gone"
          /\ s[i].prompts \subseteq t[i].prompts
          /\ t[i].prompts \subseteq s[i].prompts \cup {c}
    /\ \A i \in DOMAIN t : i \notin DOMAIN s => t[i].prompts = {}

(* A call that watches a change of the sessions is a call that saw it.      *)
LEMMA WatchingIs ==
  ASSUME NEW s \in Seq(OcSessions), OpencodeTypeOK, NEW calls, calls = Watched(ocCalls, s)
  PROVE  /\ calls \in Seq(OcCallTypes) /\ DOMAIN calls = OcStarted
         /\ \A c \in OcStarted :
               LET old == ocCalls[c]  new == calls[c] IN
               /\ new.op = old.op /\ new.id = old.id /\ new.key = old.key
               /\ new.at = old.at /\ new.reply = old.reply /\ new.body = old.body
               /\ new.answer = old.answer /\ new.shown = old.shown /\ new.failed = old.failed
               /\ new.known = old.known /\ new.over = old.over
               /\ Sees(old, new)
               /\ old.at # "done" => \A i \in DOMAIN old.saw : Was(s, i) \in new.saw[i]
<1> DEFINE H(old) == [i \in DOMAIN old.saw |-> old.saw[i] \cup {Was(s, i)}]
<1>1. \A i \in Nat : Was(s, i) \in SessionStates \cup {"none"}
  <2> SUFFICES ASSUME NEW i \in Nat PROVE Was(s, i) \in SessionStates \cup {"none"}
    OBVIOUS
  <2>1. CASE i \in DOMAIN s
    <3>1. s[i] \in OcSessions
      BY <2>1, ElementOfSeq, LenProperties
    <3>2. s[i].is \in SessionStates
      BY <3>1 DEF OcSessions
    <3> QED
      BY <2>1, <3>2 DEF Was
  <2>2. CASE i \notin DOMAIN s
    BY <2>2 DEF Was
  <2> QED
    BY <2>1, <2>2
<1>2. \A c \in OcStarted : ocCalls[c] \in OcCallTypes
  BY ElementOfSeq, LenProperties DEF OpencodeTypeOK, OcStarted
<1>3. ASSUME NEW c \in OcStarted, ocCalls[c].at # "done"
      PROVE  H(ocCalls[c]) \in Histories
  <2>1. PICK S \in SUBSET Nat : ocCalls[c].saw \in [S -> SUBSET (SessionStates \cup {"none"})]
    <3>1. ocCalls[c].saw \in Histories
      BY <1>2 DEF OcCallTypes
    <3> QED
      BY <3>1 DEF Histories
  <2>2. H(ocCalls[c]) \in [S -> SUBSET (SessionStates \cup {"none"})]
    BY <1>1, <2>1
  <2> QED
    BY <2>2 DEF Histories
<1>4. calls = [c \in OcStarted |-> IF ocCalls[c].at = "done" THEN ocCalls[c]
                                   ELSE [ocCalls[c] EXCEPT !.saw = H(ocCalls[c])]]
  BY DEF Watched, OcStarted
<1>5. ASSUME NEW c \in OcStarted PROVE calls[c] \in OcCallTypes
  <2>1. CASE ocCalls[c].at = "done"
    BY <1>2, <1>4, <2>1
  <2>2. CASE ocCalls[c].at # "done"
    <3>1. calls[c] = [ocCalls[c] EXCEPT !.saw = H(ocCalls[c])]
      BY <1>4, <2>2
    <3> HIDE DEF H
    <3> QED
      BY <1>2, <1>3, <2>2, <3>1 DEF OcCallTypes
  <2> QED
    BY <2>1, <2>2
<1>6. calls \in Seq(OcCallTypes) /\ DOMAIN calls = OcStarted
  <2>1. ocCalls \in Seq(OcCallTypes) /\ OcStarted = DOMAIN ocCalls
    BY DEF OpencodeTypeOK, OcStarted
  <2>2. calls = [c \in DOMAIN ocCalls |-> calls[c]]
    BY <1>4, <2>1
  <2> QED
    BY <1>5, <2>1, <2>2, SequenceMapped
<1>7. ASSUME NEW c \in OcStarted
      PROVE  LET old == ocCalls[c]  new == calls[c] IN
               /\ new.op = old.op /\ new.id = old.id /\ new.key = old.key
               /\ new.at = old.at /\ new.reply = old.reply /\ new.body = old.body
               /\ new.answer = old.answer /\ new.shown = old.shown /\ new.failed = old.failed
               /\ new.known = old.known /\ new.over = old.over
               /\ Sees(old, new)
               /\ old.at # "done" => \A i \in DOMAIN old.saw : Was(s, i) \in new.saw[i]
  <2>1. CASE ocCalls[c].at = "done"
    BY <1>4, <2>1 DEF Sees
  <2>2. CASE ocCalls[c].at # "done"
    <3>1. calls[c] = [ocCalls[c] EXCEPT !.saw = H(ocCalls[c])]
      BY <1>4, <2>2
    <3>2. calls[c].saw = H(ocCalls[c])
      BY <1>2, <3>1 DEF OcCallTypes
    <3>3. Sees(ocCalls[c], calls[c]) /\ \A i \in DOMAIN ocCalls[c].saw : Was(s, i) \in calls[c].saw[i]
      BY <3>2 DEF Sees
    <3> HIDE DEF H
    <3> QED
      BY <1>2, <3>1, <3>3 DEF OcCallTypes
  <2> QED
    BY <2>1, <2>2
<1> QED
  BY <1>6, <1>7

(* One session changes, another is made, or none does.                      *)
Changed(s, i, r, t) == t = [s EXCEPT ![i] = r]
MovesOn(s, i, x, t) == t = [s EXCEPT ![i].is = x]
MayBecome(x, r, c) ==
    /\ r.key = x.key /\ (x.is = "gone" => r.is = "gone")
    /\ x.prompts \subseteq r.prompts /\ r.prompts \subseteq x.prompts \cup {c}

(* The sessions after one of them has changed.                              *)
LEMMA SessionChanged ==
  ASSUME NEW c, NEW s \in Seq(OcSessions), NEW i \in DOMAIN s, NEW r \in OcSessions,
         MayBecome(s[i], r, c), NEW t, Changed(s, i, r, t)
  PROVE  /\ t \in Seq(OcSessions) /\ Len(t) = Len(s) /\ DOMAIN t = DOMAIN s
         /\ t[i] = r /\ (\A j \in DOMAIN s : j # i => t[j] = s[j])
         /\ Grows(s, t, c)
<1>1. /\ t \in Seq(OcSessions) /\ DOMAIN t = DOMAIN s /\ Len(t) = Len(s)
      /\ \A j \in DOMAIN s : t[j] = IF j = i THEN r ELSE s[j]
  BY SequenceReplaced DEF Changed
<1> QED
  BY <1>1 DEF Grows, MayBecome

(* The sessions after the turn of one has moved on.                         *)
LEMMA SessionMovesOn ==
  ASSUME NEW c, NEW s \in Seq(OcSessions), NEW i \in DOMAIN s, s[i].is # "gone",
         NEW x \in SessionStates, NEW t, MovesOn(s, i, x, t)
  PROVE  /\ t \in Seq(OcSessions) /\ Len(t) = Len(s) /\ DOMAIN t = DOMAIN s
         /\ t[i] = [s[i] EXCEPT !.is = x] /\ (\A j \in DOMAIN s : j # i => t[j] = s[j])
         /\ Grows(s, t, c)
<1> DEFINE r == [s[i] EXCEPT !.is = x]
<1>1. s[i] \in OcSessions
  BY ElementOfSeq, LenProperties
<1>2. r \in OcSessions /\ MayBecome(s[i], r, c)
  BY <1>1 DEF OcSessions, MayBecome
<1>3. Changed(s, i, r, t)
  BY DEF Changed, MovesOn
<1> HIDE DEF r
<1>4. /\ t \in Seq(OcSessions) /\ Len(t) = Len(s) /\ DOMAIN t = DOMAIN s
      /\ t[i] = r /\ (\A j \in DOMAIN s : j # i => t[j] = s[j])
      /\ Grows(s, t, c)
  BY <1>2, <1>3, SessionChanged
<1> QED
  BY <1>4 DEF r

(* The sessions after one more was made.                                    *)
LEMMA SessionMade ==
  ASSUME NEW c, NEW s \in Seq(OcSessions), NEW k \in OpencodeKeys,
         NEW t, t = Append(s, [is |-> "idle", key |-> k, prompts |-> {}])
  PROVE  /\ t \in Seq(OcSessions) /\ Len(t) = Len(s) + 1 /\ DOMAIN t = DOMAIN s \cup {Len(s) + 1}
         /\ Len(s) + 1 \notin DOMAIN s /\ Len(s) + 1 \in Nat
         /\ t[Len(s) + 1] = [is |-> "idle", key |-> k, prompts |-> {}]
         /\ (\A j \in DOMAIN s : t[j] = s[j])
         /\ Grows(s, t, c)
<1>1. [is |-> "idle", key |-> k, prompts |-> {}] \in OcSessions
  BY DEF OcSessions, SessionStates
<1>2. /\ t \in Seq(OcSessions) /\ DOMAIN t = DOMAIN s \cup {Len(s) + 1} /\ Len(t) = Len(s) + 1
      /\ Len(s) + 1 \notin DOMAIN s /\ Len(s) + 1 \in Nat
      /\ t[Len(s) + 1] = [is |-> "idle", key |-> k, prompts |-> {}] /\ \A j \in DOMAIN s : t[j] = s[j]
  BY <1>1, SequenceExtended
<1> QED
  BY <1>2 DEF Grows

(* The sessions after nothing has happened to them.                         *)
LEMMA NoneChanged ==
  ASSUME NEW c, NEW s \in Seq(OcSessions)
  PROVE  Grows(s, s, c)
BY DEF Grows

-----------------------------------------------------------------------------
(* What the server does *)

(* A session that takes a prompt is busy with it.                           *)
Prompted(x, c) == [x EXCEPT !.is = "busy", !.prompts = @ \cup {c}]

(* What is served is one of these.                                          *)
ServedAs(c, s, reply, body) == LET call == ocCalls[c]  i == call.id IN
    \/ /\ call.at = "post" /\ s = Append(server, [is |-> "idle", key |-> call.key, prompts |-> {}])
       /\ reply = "ok" /\ body = {Len(server) + 1}
    \/ /\ call.at = "status" /\ s = server /\ reply = "ok"
       /\ body = {<<j, server[j].is>> : j \in {k \in DOMAIN server : server[k].is \in Busy}}
    \/ call.at \notin {"post", "status"} /\ ~Exists(i) /\ s = server /\ reply = "404" /\ body = {}
    \/ /\ call.at = "prompt" /\ Exists(i) /\ reply = "ok" /\ body = {}
       /\ Changed(server, i, Prompted(server[i], c), s)
    \/ /\ call.at = "abort" /\ Exists(i) /\ reply = "ok" /\ body = {}
       /\ MovesOn(server, i, IF server[i].is \in Busy THEN "idle" ELSE server[i].is, s)
    \/ /\ call.at = "delete" /\ Exists(i) /\ reply = "ok" /\ body = {}
       /\ MovesOn(server, i, "gone", s)
    \/ /\ call.at = "message" /\ Exists(i) /\ reply = "ok" /\ s = server
       /\ body = IF server[i].is = "failed" THEN {"failed"} ELSE {}
    \/ call.at = "get" /\ Exists(i) /\ reply = "ok" /\ body = {} /\ s = server

(* What the server does for a request is one of those.                      *)
LEMMA ServedIs ==
  ASSUME OpencodeTypeOK, NEW c \in OcStarted, ocCalls[c].at \notin {"new", "done"}
  PROVE  ServedAs(c, Served(c).sessions, Served(c).reply, Served(c).body)
<1>1. ocCalls[c].at \in {"post", "prompt", "status", "get", "message", "abort", "delete"}
  <2>1. ocCalls[c] \in OcCallTypes
    BY ElementOfSeq, LenProperties DEF OpencodeTypeOK, OcStarted
  <2> QED
    BY <2>1 DEF OcCallTypes, OcSteps
<1>2. CASE ocCalls[c].at = "post"
  <2>1. Served(c) = [sessions |-> Append(server, [is |-> "idle", key |-> ocCalls[c].key, prompts |-> {}]),
                     reply |-> "ok", body |-> {Len(server) + 1}]
    BY <1>2 DEF Served
  <2> QED
    BY <1>2, <2>1 DEF ServedAs
<1>3. CASE ocCalls[c].at = "status"
  <2>1. Served(c) = [sessions |-> server, reply |-> "ok",
                     body |-> {<<j, server[j].is>> : j \in {k \in DOMAIN server : server[k].is \in Busy}}]
    BY <1>3 DEF Served
  <2> QED
    BY <1>3, <2>1 DEF ServedAs
<1>4. CASE ocCalls[c].at \notin {"post", "status"} /\ ~Exists(ocCalls[c].id)
  <2>1. Served(c) = [sessions |-> server, reply |-> "404", body |-> {}]
    BY <1>4 DEF Served
  <2> QED
    BY <1>4, <2>1 DEF ServedAs
<1>5. CASE ocCalls[c].at = "prompt" /\ Exists(ocCalls[c].id)
  BY <1>5 DEF Served, ServedAs, Changed, MovesOn, Prompted
<1>6. CASE ocCalls[c].at = "abort" /\ Exists(ocCalls[c].id)
  BY <1>6 DEF Served, ServedAs, Changed, MovesOn, Prompted
<1>7. CASE ocCalls[c].at = "delete" /\ Exists(ocCalls[c].id)
  BY <1>7 DEF Served, ServedAs, Changed, MovesOn, Prompted
<1>8. CASE ocCalls[c].at = "message" /\ Exists(ocCalls[c].id)
  BY <1>8 DEF Served, ServedAs
<1>9. CASE ocCalls[c].at = "get" /\ Exists(ocCalls[c].id)
  BY <1>9 DEF Served, ServedAs
<1> QED
  BY <1>1, <1>2, <1>3, <1>4, <1>5, <1>6, <1>7, <1>8, <1>9

(* The server's sessions grow, and the answer has its type.                 *)
LEMMA ServedGrows ==
  ASSUME OpencodeTypeOK, NEW c \in OcStarted, NEW s, NEW reply, NEW body, ServedAs(c, s, reply, body),
         ocCalls[c].at = "post" => Len(server) < ocEnv.sessions, ocEnv.sessions \in Nat
  PROVE  /\ s \in Seq(OcSessions) /\ Len(s) <= ocEnv.sessions /\ Grows(server, s, c)
         /\ reply \in {"ok", "404"} /\ body \in OcBodies
<1> DEFINE call == ocCalls[c]
           i == call.id
<1>1. call \in OcCallTypes /\ c \in Nat
  BY ElementOfSeq, LenProperties DEF OpencodeTypeOK, OcStarted
<1>2. server \in Seq(OcSessions) /\ Len(server) \in Nat /\ Len(server) <= ocEnv.sessions
  BY LenProperties DEF OpencodeTypeOK
<1>3. \A j \in DOMAIN server : server[j] \in OcSessions /\ j \in Nat
  BY <1>2, ElementOfSeq, LenProperties
<1>4. {} \in OcBodies
  BY DEF OcBodies
<1> HIDE DEF call, i
<1>5. CASE /\ call.at = "post" /\ s = Append(server, [is |-> "idle", key |-> call.key, prompts |-> {}])
           /\ reply = "ok" /\ body = {Len(server) + 1}
  <2>1. call.key \in OpencodeKeys
    BY <1>1 DEF OcCallTypes
  <2>2. s \in Seq(OcSessions) /\ Len(s) = Len(server) + 1 /\ Grows(server, s, c)
    BY <1>2, <1>5, <2>1, SessionMade
  <2>3. Len(server) < ocEnv.sessions
    BY <1>5 DEF call
  <2>4. body \in OcBodies
    BY <1>2, <1>5 DEF OcBodies
  <2> QED
    BY <1>2, <1>5, <2>2, <2>3, <2>4
<1>6. CASE /\ call.at = "status" /\ s = server /\ reply = "ok"
           /\ body = {<<j, server[j].is>> : j \in {k \in DOMAIN server : server[k].is \in Busy}}
  <2>1. body \in OcBodies
    BY <1>3, <1>6 DEF OcBodies
  <2> QED
    BY <1>2, <1>6, <2>1, NoneChanged
<1>7. CASE s = server /\ reply \in {"ok", "404"} /\ body = {}
  BY <1>2, <1>4, <1>7, NoneChanged
<1>8. CASE /\ Exists(i) /\ reply = "ok" /\ body = {}
           /\ Changed(server, i, Prompted(server[i], c), s)
  <2>1. i \in DOMAIN server /\ server[i].is # "gone" /\ server[i] \in OcSessions
    BY <1>3, <1>8 DEF Exists
  <2>2. Prompted(server[i], c) \in OcSessions /\ MayBecome(server[i], Prompted(server[i], c), c)
    BY <1>1, <2>1 DEF OcSessions, SessionStates, Busy, MayBecome, Prompted
  <2> DEFINE r == Prompted(server[i], c)
  <2>3. r \in OcSessions /\ MayBecome(server[i], r, c) /\ Changed(server, i, r, s)
    BY <1>8, <2>2
  <2> HIDE DEF r
  <2>4. s \in Seq(OcSessions) /\ Len(s) = Len(server) /\ Grows(server, s, c)
    BY <1>2, <2>1, <2>3, SessionChanged
  <2> QED
    BY <1>2, <1>4, <1>8, <2>4
<1>9. ASSUME NEW x \in SessionStates, Exists(i), MovesOn(server, i, x, s)
      PROVE  s \in Seq(OcSessions) /\ Len(s) = Len(server) /\ Grows(server, s, c)
  <2>1. i \in DOMAIN server /\ server[i].is # "gone"
    BY <1>9 DEF Exists
  <2>2. server \in Seq(OcSessions)
    BY <1>2
  <2> QED
    BY <1>9, <2>1, <2>2, SessionMovesOn
<1>10. CASE /\ call.at = "message" /\ reply = "ok" /\ s = server
            /\ body = IF server[i].is = "failed" THEN {"failed"} ELSE {}
  <2>1. body \in OcBodies
    BY <1>10 DEF OcBodies
  <2> QED
    BY <1>2, <1>10, <2>1, NoneChanged
<1>11. CASE /\ Exists(i) /\ reply = "ok" /\ body = {}
            /\ MovesOn(server, i, IF server[i].is \in Busy THEN "idle" ELSE server[i].is, s)
  <2>1. i \in DOMAIN server /\ server[i].is \in SessionStates
    BY <1>3, <1>11 DEF Exists, OcSessions
  <2>2. (IF server[i].is \in Busy THEN "idle" ELSE server[i].is) \in SessionStates
    BY <2>1 DEF SessionStates
  <2>4. s \in Seq(OcSessions) /\ Len(s) = Len(server) /\ Grows(server, s, c)
    BY <1>9, <1>11, <2>2
  <2> QED
    BY <1>2, <1>4, <1>11, <2>4
<1>12. CASE /\ Exists(i) /\ reply = "ok" /\ body = {}
            /\ MovesOn(server, i, "gone", s)
  <2>1. "gone" \in SessionStates
    BY DEF SessionStates
  <2>2. s \in Seq(OcSessions) /\ Len(s) = Len(server) /\ Grows(server, s, c)
    BY <1>9, <1>12, <2>1
  <2> QED
    BY <1>2, <1>4, <1>12, <2>2
<1> QED
  BY <1>5, <1>6, <1>7, <1>8, <1>10, <1>11, <1>12 DEF ServedAs, call, i

(* One call becomes another record, and the rest stay.                      *)
CallBecomes(calls, c, r) == ocCalls' = [calls EXCEPT ![c] = r]

(* The calls after one of them has become another record.                   *)
LEMMA CallBecomesIs ==
  ASSUME NEW calls \in Seq(OcCallTypes), NEW c \in DOMAIN calls, NEW r \in OcCallTypes,
         CallBecomes(calls, c, r)
  PROVE  /\ ocCalls' \in Seq(OcCallTypes) /\ OcStarted' = DOMAIN calls /\ Len(ocCalls') = Len(calls)
         /\ ocCalls'[c] = r /\ \A d \in DOMAIN calls : d # c => ocCalls'[d] = calls[d]
BY SequenceReplaced DEF CallBecomes, OcStarted

(* What a call keeps when its request is answered.                          *)
Asks(c) == LET old == ocCalls[c]  new == ocCalls'[c] IN
    /\ new.op = old.op /\ new.id = old.id /\ new.key = old.key /\ new.at = old.at
    /\ new.answer = old.answer /\ new.shown = old.shown /\ new.failed = old.failed
    /\ new.known = old.known /\ new.over = old.over
    /\ Sees(old, new) /\ \A i \in DOMAIN old.saw : Was(server', i) \in new.saw[i]

Unanswered(c) ==
    /\ ocCalls'[c].reply = "unreachable" /\ ocCalls'[c].body = {}
    /\ OcMay("lost") \/ server' = server

(* A request: the server's sessions grow by what it served, and the call    *)
(* has the answer or none.                                                  *)
LEMMA RequestIs ==
  ASSUME OpencodeAssumption, OpencodeTypeOK, NEW c \in OcStarted, Request(c)
  PROVE  /\ OpencodeTypeOK' /\ UNCHANGED <<ocEnv, seen, idem>> /\ OcStarted' = OcStarted
         /\ ocCalls[c].at \notin {"new", "done"} /\ ocCalls[c].reply = "none"
         /\ Grows(server, server', c)
         /\ (\A d \in OcStarted : d # c => Stays(d)) /\ Asks(c)
         /\ ServedAs(c, server', ocCalls'[c].reply, ocCalls'[c].body) \/ Unanswered(c)
<1> DEFINE After(s, reply, body) ==
       server' = s /\ ocCalls' = [Watched(ocCalls, s) EXCEPT ![c] = [Watched(ocCalls, s)[c] EXCEPT !.reply = reply, !.body = body]]
<1>1. /\ ocCalls[c].at \notin {"new", "done"} /\ ocCalls[c].reply = "none"
      /\ ocCalls[c].at = "post" => Len(server) < ocEnv.sessions
      /\ UNCHANGED <<ocEnv, seen, idem>>
  BY DEF Request
<1>2. ocEnv.sessions \in Nat /\ server \in Seq(OcSessions) /\ Len(server) <= ocEnv.sessions
  BY DEF OpencodeAssumption, OpencodeTypeOK
<1> DEFINE s == Served(c).sessions
           reply == Served(c).reply
           body == Served(c).body
<1>3. /\ ServedAs(c, s, reply, body)
      /\ \/ After(s, reply, body)
         \/ OcMay("lost") /\ After(s, "unreachable", {})
         \/ After(server, "unreachable", {})
  <2>1. ServedAs(c, s, reply, body)
    BY <1>1, ServedIs
  <2>2. \/ After(s, reply, body)
        \/ OcMay("lost") /\ After(s, "unreachable", {})
        \/ After(server, "unreachable", {})
    BY DEF Request
  <2> HIDE DEF After
  <2> QED
    BY <2>1, <2>2
<1> HIDE DEF s, reply, body
<1>4. /\ s \in Seq(OcSessions) /\ Len(s) <= ocEnv.sessions /\ Grows(server, s, c)
      /\ reply \in OcReplies /\ body \in OcBodies
  <2>1. /\ s \in Seq(OcSessions) /\ Len(s) <= ocEnv.sessions /\ Grows(server, s, c)
        /\ reply \in {"ok", "404"} /\ body \in OcBodies
    BY <1>1, <1>2, <1>3, ServedGrows
  <2> QED
    BY <2>1 DEF OcReplies
<1>5. {} \in OcBodies /\ "unreachable" \in OcReplies /\ Grows(server, server, c)
  BY <1>2, NoneChanged DEF OcBodies, OcReplies
<1>6. PICK t, said, what : /\ t \in Seq(OcSessions) /\ Len(t) <= ocEnv.sessions /\ Grows(server, t, c)
                           /\ said \in OcReplies /\ what \in OcBodies
                           /\ \/ t = s /\ said = reply /\ what = body
                              \/ said = "unreachable" /\ what = {} /\ (OcMay("lost") \/ t = server)
                           /\ After(t, said, what)
  <2>1. CASE After(s, reply, body)
    BY <1>4, <2>1
  <2>2. CASE OcMay("lost") /\ After(s, "unreachable", {})
    BY <1>4, <1>5, <2>2
  <2>3. CASE After(server, "unreachable", {})
    BY <1>2, <1>5, <2>3
  <2> HIDE DEF After
  <2> QED
    BY <1>3, <2>1, <2>2, <2>3
<1> DEFINE calls == Watched(ocCalls, t)
           r == [calls[c] EXCEPT !.reply = said, !.body = what]
<1>7. /\ calls \in Seq(OcCallTypes) /\ DOMAIN calls = OcStarted
      /\ \A d \in OcStarted :
            LET old == ocCalls[d]  new == calls[d] IN
            /\ new.op = old.op /\ new.id = old.id /\ new.key = old.key
            /\ new.at = old.at /\ new.reply = old.reply /\ new.body = old.body
            /\ new.answer = old.answer /\ new.shown = old.shown /\ new.failed = old.failed
            /\ new.known = old.known /\ new.over = old.over
            /\ Sees(old, new)
            /\ old.at # "done" => \A i \in DOMAIN old.saw : Was(t, i) \in new.saw[i]
  BY <1>6, WatchingIs
<1>8. CallBecomes(calls, c, r) /\ server' = t
  BY <1>6 DEF CallBecomes
<1> HIDE DEF calls
<1>9. calls[c] \in OcCallTypes
  BY <1>7, ElementOfSeq, LenProperties
<1>10. r \in OcCallTypes
  BY <1>6, <1>9 DEF OcCallTypes
<1>11. /\ r.op = calls[c].op /\ r.id = calls[c].id /\ r.key = calls[c].key /\ r.at = calls[c].at
       /\ r.answer = calls[c].answer /\ r.shown = calls[c].shown /\ r.failed = calls[c].failed
       /\ r.known = calls[c].known /\ r.over = calls[c].over /\ r.saw = calls[c].saw
       /\ r.reply = said /\ r.body = what
  BY <1>9 DEF OcCallTypes
<1> HIDE DEF r
<1>12. /\ ocCalls' \in Seq(OcCallTypes) /\ OcStarted' = OcStarted
       /\ ocCalls'[c] = r /\ \A d \in OcStarted : d # c => ocCalls'[d] = calls[d]
  BY <1>7, <1>8, <1>10, CallBecomesIs
<1>13. OpencodeTypeOK'
  BY <1>1, <1>6, <1>8, <1>12 DEF OpencodeTypeOK
<1>14. Asks(c)
  BY <1>1, <1>7, <1>8, <1>11, <1>12 DEF Asks, Sees
<1>15. ASSUME NEW d \in OcStarted, d # c PROVE Stays(d)
  BY <1>7, <1>8, <1>12, <1>15 DEF Stays, Sees
<1>16. ServedAs(c, server', ocCalls'[c].reply, ocCalls'[c].body) \/ Unanswered(c)
  BY <1>3, <1>6, <1>8, <1>11, <1>12 DEF Unanswered
<1> QED
  BY <1>1, <1>6, <1>8, <1>12, <1>13, <1>14, <1>15, <1>16

-----------------------------------------------------------------------------
(* What holds of the calls in every environment *)

(* A call makes the requests of its operation, about a session that the     *)
(* server has, and has no answer before it is over.                         *)
CallIsShaped(c) == LET call == ocCalls[c] IN
    /\ call.op = "create" => call.at \in {"new", "post", "prompt", "done"}
    /\ call.op = "send" => call.at \in {"new", "prompt", "done"}
    /\ call.op = "state" => call.at \in {"new", "status", "get", "message", "done"}
    /\ call.op = "interrupt" => call.at \in {"new", "abort", "done"}
    /\ call.op = "close" => call.at \in {"new", "get", "delete", "done"}
    /\ call.op = "list" => call.at \in {"new", "status", "done"}
    /\ call.op \notin {"create", "list"} => call.id \in DOMAIN server
    /\ call.at \in {"new", "done"} => call.reply = "none" /\ call.body = {}
    /\ call.at # "done" => call.answer = "none" /\ ~call.failed
    /\ call.at # "done" \/ call.op # "list" => DOMAIN call.shown = {}

(* A call under way has seen what its sessions are.                         *)
CallSees(c) == LET call == ocCalls[c] IN
    /\ call.op = "state" => DOMAIN call.saw = {call.id}
    /\ call.op = "list" => DOMAIN call.saw = OcIds
    /\ call.at # "done" => \A i \in DOMAIN call.saw : Was(server, i) \in call.saw[i]

AtRest == {"idle", "failed"}
InBody(call, i) == \E x \in Busy : <<i, x>> \in call.body

(* What the read of a state has found was so while it was under way.        *)
StateIsRead(c) == LET call == ocCalls[c] IN call.op = "state" =>
    /\ call.at = "status" /\ call.reply = "ok" =>
          IF InBody(call, call.id) THEN call.saw[call.id] \cap Busy # {}
          ELSE call.saw[call.id] \cap AtRest # {} \/ server[call.id].is = "gone"
    /\ call.at = "get" => call.saw[call.id] \cap AtRest # {} \/ server[call.id].is = "gone"
    /\ call.at = "get" /\ call.reply = "ok" => call.saw[call.id] \cap AtRest # {}
    /\ call.at = "get" /\ call.reply = "404" => "gone" \in call.saw[call.id]
    /\ call.at = "message" => call.saw[call.id] \cap AtRest # {}
    /\ call.at = "message" /\ call.body = {"failed"} => "failed" \in call.saw[call.id]
    /\ call.answer = "working" => call.saw[call.id] \cap Busy # {}
    /\ call.answer = "idle" => call.saw[call.id] \cap AtRest # {}
    /\ call.failed => "failed" \in call.saw[call.id]
    /\ call.answer = "dead" => "gone" \in call.saw[call.id]

(* A send's text is with the server when the server has said so, and is not *)
(* before its request or when the server has no such session.               *)
SendIsDone(c) == LET call == ocCalls[c] IN call.op = "send" =>
    /\ call.at = "prompt" /\ call.reply = "ok" => c \in server[call.id].prompts
    /\ call.answer = "queued" => c \in server[call.id].prompts
    /\ \/ call.at = "new"
       \/ call.at = "prompt" /\ call.reply \in {"none", "404"}
       \/ call.answer = "no such session"
       => \A i \in DOMAIN server : c \notin server[i].prompts

(* A session that the server said was deleted is gone.                      *)
CloseIsDone(c) == LET call == ocCalls[c] IN
    /\ call.op = "close" /\ call.at = "delete" /\ call.reply = "ok" => server[call.id].is = "gone"
    /\ call.answer = "closed" => call.op = "close" /\ server[call.id].is = "gone"

(* A session that a create was told of has the create's key.                *)
CreateIsDone(c) == LET call == ocCalls[c] IN
    /\ call.op = "create" /\ call.at = "post" /\ call.reply = "ok" =>
          \E i \in DOMAIN server : call.body = {i} /\ server[i].key = call.key
    /\ (call.op = "create" /\ call.at = "prompt") \/ call.answer = "created" =>
          call.id \in DOMAIN server /\ server[call.id].key = call.key

(* What holds of each call by itself.                                       *)
CallIsTrue(c) ==
    /\ CallIsShaped(c) /\ CallSees(c)
    /\ StateIsRead(c) /\ SendIsDone(c) /\ CloseIsDone(c) /\ CreateIsDone(c)

(* A key that is remembered is the key of its session.                      *)
KeysAreRight == \A k \in OpencodeKeys : idem[k] # 0 => idem[k] \in DOMAIN server /\ server[idem[k]].key = k

(* A prompt was sent by a call, and a session that is known was made.       *)
PromptsAreOfCalls == \A i \in DOMAIN server : server[i].prompts \subseteq DOMAIN ocCalls

KnownAreMade == seen \subseteq DOMAIN server

OcAnswersInv ==
    /\ \A c \in OcStarted : CallIsTrue(c)
    /\ KeysAreRight /\ PromptsAreOfCalls /\ KnownAreMade


(* A call keeps what holds of it while others move.                         *)
LEMMA OthersKeep ==
  ASSUME OpencodeTypeOK, OpencodeTypeOK', NEW c \in OcStarted, NEW d, d # c,
         Stays(c), Grows(server, server', d), ocEnv' = ocEnv, CallIsTrue(c)
  PROVE  CallIsTrue(c)'
<1>1. ocCalls[c] \in OcCallTypes
  BY ElementOfSeq, LenProperties DEF OpencodeTypeOK, OcStarted
<1>2. CallIsShaped(c)'
  BY DEF CallIsTrue, CallIsShaped, Stays, Grows
<1>3. CallSees(c)'
  BY DEF CallIsTrue, CallSees, Stays, Sees, OcIds
<1>4. StateIsRead(c)'
  <2> SUFFICES ASSUME ocCalls'[c].op = "state" PROVE StateIsRead(c)'
    BY DEF StateIsRead
  <2> DEFINE i == ocCalls[c].id
  <2>1. /\ ocCalls[c].op = "state" /\ ocCalls'[c].id = i /\ i \in DOMAIN server
        /\ ocCalls[c].saw[i] \subseteq ocCalls'[c].saw[i]
    BY DEF CallIsTrue, CallIsShaped, CallSees, Stays, Sees
  <2>2. server[i].is = "gone" => server'[i].is = "gone"
    BY <2>1 DEF Grows
  <2>3. /\ ocCalls[c].saw[i] \cap Busy # {} => ocCalls'[c].saw[i] \cap Busy # {}
        /\ ocCalls[c].saw[i] \cap AtRest # {} => ocCalls'[c].saw[i] \cap AtRest # {}
        /\ "gone" \in ocCalls[c].saw[i] => "gone" \in ocCalls'[c].saw[i]
        /\ "failed" \in ocCalls[c].saw[i] => "failed" \in ocCalls'[c].saw[i]
    BY <2>1
  <2>4. InBody(ocCalls'[c], i) = InBody(ocCalls[c], i)
    BY DEF InBody, Stays
  <2> QED
    BY <2>1, <2>2, <2>3, <2>4 DEF CallIsTrue, StateIsRead, Stays
<1>5. SendIsDone(c)'
  <2> SUFFICES ASSUME ocCalls'[c].op = "send" PROVE SendIsDone(c)'
    BY DEF SendIsDone
  <2>1. ocCalls[c].op = "send" /\ ocCalls'[c].id = ocCalls[c].id /\ ocCalls[c].id \in DOMAIN server
    BY DEF CallIsTrue, CallIsShaped, Stays
  <2>2. server[ocCalls[c].id].prompts \subseteq server'[ocCalls[c].id].prompts
    BY <2>1 DEF Grows
  <2>3. (\A i \in DOMAIN server : c \notin server[i].prompts) => \A i \in DOMAIN server' : c \notin server'[i].prompts
    BY DEF Grows
  <2> QED
    BY <2>1, <2>2, <2>3 DEF CallIsTrue, SendIsDone, Stays
<1>6. CloseIsDone(c)'
  BY DEF CallIsTrue, CallIsShaped, CloseIsDone, Stays, Grows
<1>7. CreateIsDone(c)'
  BY DEF CallIsTrue, CreateIsDone, Stays, Grows
<1> QED
  BY <1>2, <1>3, <1>4, <1>5, <1>6, <1>7 DEF CallIsTrue

(* When a call moves by itself and the server does not, what holds of the   *)
(* others still does.                                                       *)
OnItsOwn(c) ==
    /\ server' = server /\ ocEnv' = ocEnv /\ OcStarted' = OcStarted
    /\ \A d \in OcStarted : d # c => ocCalls'[d] = ocCalls[d]

(* A call that moves by itself leaves what holds of the others.             *)
LEMMA OwnMoveKeeps ==
  ASSUME OpencodeTypeOK, OpencodeTypeOK', OcAnswersInv, NEW c \in OcStarted, OnItsOwn(c),
         CallIsTrue(c)', KeysAreRight', KnownAreMade'
  PROVE  OcAnswersInv'
<1>1. Grows(server, server', c)
  BY NoneChanged DEF OnItsOwn, OpencodeTypeOK
<1>2. ASSUME NEW d \in OcStarted, d # c PROVE CallIsTrue(d)'
  <2>1. Stays(d)
    BY <1>2 DEF OnItsOwn, Stays, Sees, OcAnswersInv, CallIsTrue, CallSees
  <2> QED
    BY <1>1, <1>2, <2>1, OthersKeep DEF OnItsOwn, OcAnswersInv
<1>3. PromptsAreOfCalls'
  BY DEF OnItsOwn, OcAnswersInv, PromptsAreOfCalls, OcStarted
<1> QED
  BY <1>2, <1>3 DEF OcAnswersInv, OnItsOwn

(* A call that is answered, and one that goes on.                           *)
LEMMA CallAnsweredIs ==
  ASSUME NEW call \in OcCallTypes, NEW a \in OcAnswers, NEW r, r = CallAnswered(call, a)
  PROVE  /\ r \in OcCallTypes
         /\ r.op = call.op /\ r.id = call.id /\ r.key = call.key /\ r.shown = call.shown
         /\ r.failed = call.failed /\ r.saw = call.saw /\ r.over = call.over
         /\ r.at = "done" /\ r.reply = "none" /\ r.body = {} /\ r.known = {} /\ r.answer = a
<1>1. {} \in OcBodies /\ "none" \in OcReplies /\ "done" \in OcSteps /\ {} \in SUBSET Nat
  BY DEF OcBodies, OcReplies, OcSteps
<1> QED
  BY <1>1 DEF CallAnswered, OcCallTypes

(* A call that goes on to its next request.                                 *)
LEMMA GoneOnIs ==
  ASSUME NEW call \in OcCallTypes, NEW at \in OcSteps, NEW r, r = GoneOn(call, at)
  PROVE  /\ r \in OcCallTypes
         /\ r.op = call.op /\ r.id = call.id /\ r.key = call.key /\ r.shown = call.shown
         /\ r.failed = call.failed /\ r.saw = call.saw /\ r.over = call.over
         /\ r.known = call.known /\ r.answer = call.answer
         /\ r.at = at /\ r.reply = "none" /\ r.body = {}
<1>1. {} \in OcBodies /\ "none" \in OcReplies
  BY DEF OcBodies, OcReplies
<1> QED
  BY <1>1 DEF GoneOn, OcCallTypes

(* A step of one call that leaves the server alone.                         *)
StepOf(c) ==
    /\ UNCHANGED <<ocEnv, server>>
    /\ seen' \subseteq DOMAIN server /\ idem' \in [OpencodeKeys -> Nat]
    /\ KeysAreRight'

(* A call may become any record of which what holds of a call is so.        *)
LEMMA RecordKeeps ==
  ASSUME OpencodeTypeOK, OcAnswersInv, NEW c \in OcStarted, NEW r \in OcCallTypes,
         CallBecomes(ocCalls, c, r), StepOf(c), CallIsTrue(c)'
  PROVE  OpencodeTypeOK' /\ OcAnswersInv'
<1>1. /\ ocCalls' \in Seq(OcCallTypes) /\ OcStarted' = OcStarted
      /\ ocCalls'[c] = r /\ \A d \in OcStarted : d # c => ocCalls'[d] = ocCalls[d]
  BY CallBecomesIs DEF OpencodeTypeOK, OcStarted
<1>2. seen' \subseteq Nat
  <2>1. DOMAIN server \subseteq Nat
    BY LenProperties DEF OpencodeTypeOK
  <2> QED
    BY <2>1 DEF StepOf
<1>3. OpencodeTypeOK'
  BY <1>1, <1>2 DEF OpencodeTypeOK, StepOf
<1>4. OnItsOwn(c) /\ KeysAreRight' /\ KnownAreMade'
  BY <1>1 DEF OnItsOwn, StepOf, KnownAreMade
<1> QED
  BY <1>3, <1>4, OwnMoveKeeps

(* What has to be so for an answer.                                         *)
MayAnswer(c, a) == LET call == ocCalls[c] IN
    /\ a \in OcAnswers
    /\ call.op = "state" =>
          /\ a = "working" => call.saw[call.id] \cap Busy # {}
          /\ a = "idle" => call.saw[call.id] \cap AtRest # {}
          /\ a = "dead" => "gone" \in call.saw[call.id]
    /\ call.op = "send" =>
          /\ a = "queued" => c \in server[call.id].prompts
          /\ a = "no such session" => \A i \in DOMAIN server : c \notin server[i].prompts
    /\ a = "closed" => call.op = "close" /\ server[call.id].is = "gone"
    /\ a = "created" => call.id \in DOMAIN server /\ server[call.id].key = call.key

(* A call may give an answer that is so.                                    *)
LEMMA AnswersKeep ==
  ASSUME OpencodeTypeOK, OcAnswersInv, NEW c \in OcStarted, ocCalls[c].at # "done", NEW a, MayAnswer(c, a),
         Answers(c, a), StepOf(c)
  PROVE  /\ OpencodeTypeOK' /\ OcAnswersInv'
         /\ ocCalls'[c] = CallAnswered(ocCalls[c], a) /\ OnItsOwn(c)
<1> DEFINE r == CallAnswered(ocCalls[c], a)
<1>1. CallBecomes(ocCalls, c, r)
  BY DEF Answers, CallBecomes
<1>2. ocCalls[c] \in OcCallTypes /\ ocCalls \in Seq(OcCallTypes)
  BY ElementOfSeq, LenProperties DEF OpencodeTypeOK, OcStarted
<1>3. /\ r \in OcCallTypes
      /\ r.op = ocCalls[c].op /\ r.id = ocCalls[c].id /\ r.key = ocCalls[c].key /\ r.shown = ocCalls[c].shown
      /\ r.failed = ocCalls[c].failed /\ r.saw = ocCalls[c].saw /\ r.over = ocCalls[c].over
      /\ r.at = "done" /\ r.reply = "none" /\ r.body = {} /\ r.answer = a
  <2>1. a \in OcAnswers
    BY DEF MayAnswer
  <2> QED
    BY <1>2, <2>1, CallAnsweredIs
<1> HIDE DEF r
<1>4. /\ ocCalls'[c] = r /\ OcStarted' = OcStarted /\ server' = server /\ ocEnv' = ocEnv
      /\ \A d \in OcStarted : d # c => ocCalls'[d] = ocCalls[d]
  BY <1>1, <1>2, <1>3, CallBecomesIs DEF StepOf, OcStarted
<1>5. CallIsTrue(c)
  BY DEF OcAnswersInv
<1>6. CallIsShaped(c)'
  BY <1>3, <1>4, <1>5 DEF CallIsTrue, CallIsShaped
<1>7. CallSees(c)'
  BY <1>3, <1>4, <1>5 DEF CallIsTrue, CallSees, OcIds
<1>8. StateIsRead(c)' /\ SendIsDone(c)'
  BY <1>3, <1>4, <1>5 DEF CallIsTrue, StateIsRead, SendIsDone, MayAnswer, CallIsShaped
<1>9. CloseIsDone(c)' /\ CreateIsDone(c)'
  BY <1>3, <1>4, <1>5 DEF CallIsTrue, CloseIsDone, CreateIsDone, MayAnswer
<1>10. CallIsTrue(c)'
  BY <1>6, <1>7, <1>8, <1>9 DEF CallIsTrue
<1>11. OpencodeTypeOK' /\ OcAnswersInv'
  BY <1>1, <1>3, <1>10, RecordKeeps
<1> QED
  BY <1>4, <1>11 DEF r, OnItsOwn

(* What has to be so for a next request.                                    *)
MayGo(c, at) == LET call == ocCalls[c] IN
    \/ call.op = "create" /\ at = "post"
    \/ call.op = "send" /\ at = "prompt" /\ \A i \in DOMAIN server : c \notin server[i].prompts
    \/ call.op = "state" /\ at = "status"
    \/ call.op = "state" /\ at = "get" /\ (call.saw[call.id] \cap AtRest # {} \/ server[call.id].is = "gone")
    \/ call.op = "state" /\ at = "message" /\ call.saw[call.id] \cap AtRest # {}
    \/ call.op = "interrupt" /\ at = "abort"
    \/ call.op = "close" /\ at \in {"get", "delete"}

(* A call may go on to a request that its operation makes next.             *)
LEMMA GoesKeep ==
  ASSUME OpencodeTypeOK, OcAnswersInv, NEW c \in OcStarted, ocCalls[c].at # "done", NEW at, MayGo(c, at),
         Goes(c, at), StepOf(c)
  PROVE  /\ OpencodeTypeOK' /\ OcAnswersInv'
         /\ ocCalls'[c] = GoneOn(ocCalls[c], at) /\ OnItsOwn(c)
<1> DEFINE r == GoneOn(ocCalls[c], at)
<1>1. CallBecomes(ocCalls, c, r)
  BY DEF Goes, CallBecomes
<1>2. ocCalls[c] \in OcCallTypes /\ ocCalls \in Seq(OcCallTypes) /\ at \in OcSteps
  BY ElementOfSeq, LenProperties DEF OpencodeTypeOK, OcStarted, MayGo, OcSteps
<1>3. /\ r \in OcCallTypes
      /\ r.op = ocCalls[c].op /\ r.id = ocCalls[c].id /\ r.key = ocCalls[c].key /\ r.shown = ocCalls[c].shown
      /\ r.failed = ocCalls[c].failed /\ r.saw = ocCalls[c].saw /\ r.over = ocCalls[c].over
      /\ r.answer = ocCalls[c].answer
      /\ r.at = at /\ r.reply = "none" /\ r.body = {}
  BY <1>2, GoneOnIs
<1> HIDE DEF r
<1>4. /\ ocCalls'[c] = r /\ OcStarted' = OcStarted /\ server' = server /\ ocEnv' = ocEnv
      /\ \A d \in OcStarted : d # c => ocCalls'[d] = ocCalls[d]
  BY <1>1, <1>2, <1>3, CallBecomesIs DEF StepOf, OcStarted
<1>5. CallIsTrue(c)
  BY DEF OcAnswersInv
<1>6. CallIsShaped(c)'
  BY <1>3, <1>4, <1>5 DEF CallIsTrue, CallIsShaped, MayGo
<1>7. CallSees(c)'
  BY <1>3, <1>4, <1>5 DEF CallIsTrue, CallSees, OcIds
<1>8. StateIsRead(c)'
  BY <1>3, <1>4, <1>5 DEF CallIsTrue, StateIsRead, MayGo, CallIsShaped
<1>9. SendIsDone(c)'
  BY <1>3, <1>4, <1>5 DEF CallIsTrue, SendIsDone, MayGo, CallIsShaped
<1>10. CloseIsDone(c)' /\ CreateIsDone(c)'
  BY <1>3, <1>4, <1>5 DEF CallIsTrue, CloseIsDone, CreateIsDone, CallIsShaped, MayGo
<1>11. CallIsTrue(c)'
  BY <1>6, <1>7, <1>8, <1>9, <1>10 DEF CallIsTrue
<1>12. OpencodeTypeOK' /\ OcAnswersInv'
  BY <1>1, <1>3, <1>11, RecordKeeps
<1> QED
  BY <1>4, <1>12 DEF r, OnItsOwn

-----------------------------------------------------------------------------
(* Every step keeps what holds of the calls *)

(* A request.                                                               *)
LEMMA RequestKeeps ==
  ASSUME OpencodeAssumption, OpencodeTypeOK, OcAnswersInv, NEW c \in OcStarted, Request(c)
  PROVE  OpencodeTypeOK' /\ OcAnswersInv'
<1>1. /\ OpencodeTypeOK' /\ UNCHANGED <<ocEnv, seen, idem>> /\ OcStarted' = OcStarted
      /\ ocCalls[c].at \notin {"new", "done"} /\ ocCalls[c].reply = "none"
      /\ Grows(server, server', c)
      /\ (\A d \in OcStarted : d # c => Stays(d)) /\ Asks(c)
      /\ ServedAs(c, server', ocCalls'[c].reply, ocCalls'[c].body) \/ Unanswered(c)
  BY RequestIs
<1>2. ASSUME NEW d \in OcStarted, d # c PROVE CallIsTrue(d)'
  BY <1>1, <1>2, OthersKeep DEF OcAnswersInv
<1>3. KeysAreRight' /\ KnownAreMade'
  BY <1>1 DEF OcAnswersInv, KeysAreRight, KnownAreMade, Grows
<1>4. PromptsAreOfCalls'
  BY <1>1 DEF OcAnswersInv, PromptsAreOfCalls, Grows, OcStarted
<1> DEFINE i == ocCalls[c].id
<1>5. CallIsTrue(c)
  BY DEF OcAnswersInv
<1>6. CallIsShaped(c)'
  BY <1>1, <1>5 DEF CallIsTrue, CallIsShaped, Asks, Grows
<1>7. CallSees(c)'
  BY <1>1, <1>5 DEF CallIsTrue, CallSees, Asks, Sees, OcIds
<1>8. StateIsRead(c)'
  <2> SUFFICES ASSUME ocCalls[c].op = "state" PROVE StateIsRead(c)'
    BY <1>1 DEF StateIsRead, Asks
  <2>1. /\ i \in DOMAIN server /\ i \in DOMAIN ocCalls[c].saw /\ ocCalls[c].at \in {"status", "get", "message"}
        /\ ~ocCalls[c].failed /\ ocCalls[c].answer = "none"
    BY <1>1, <1>5 DEF CallIsTrue, CallIsShaped, CallSees
  <2>2. /\ ocCalls[c].saw[i] \subseteq ocCalls'[c].saw[i] /\ Was(server', i) \in ocCalls'[c].saw[i]
        /\ server[i].is \in ocCalls[c].saw[i]
    BY <1>1, <1>5, <2>1 DEF Asks, Sees, CallIsTrue, CallSees, Was
  <2>3. server[i].is \in SessionStates
    <3>1. server[i] \in OcSessions
      BY <2>1, ElementOfSeq, LenProperties DEF OpencodeTypeOK
    <3> QED
      BY <3>1 DEF OcSessions
  <2>4. /\ ocCalls'[c].at = ocCalls[c].at /\ ocCalls'[c].id = i /\ ocCalls'[c].op = "state"
        /\ ocCalls'[c].answer = "none" /\ ~ocCalls'[c].failed
    BY <1>1, <2>1 DEF Asks
  <2>5. CASE Unanswered(c)
    <3>1. server[i].is = "gone" => server'[i].is = "gone"
      BY <1>1, <2>1 DEF Grows
    <3> QED
      BY <1>5, <2>2, <2>4, <2>5, <3>1 DEF Unanswered, CallIsTrue, StateIsRead
  <2>6. CASE /\ ocCalls[c].at = "status" /\ server' = server /\ ocCalls'[c].reply = "ok"
             /\ ocCalls'[c].body = {<<j, server[j].is>> : j \in {k \in DOMAIN server : server[k].is \in Busy}}
    <3>1. CASE InBody(ocCalls'[c], i)
      <4>1. server[i].is \in Busy
        BY <2>6, <3>1 DEF InBody
      <4>2. ocCalls'[c].saw[i] \cap Busy # {}
        BY <2>2, <4>1
      <4> QED
        BY <2>4, <2>6, <3>1, <4>2 DEF StateIsRead
    <3>2. CASE ~InBody(ocCalls'[c], i)
      <4>1. server[i].is \notin Busy
        BY <2>1, <2>6, <3>2 DEF InBody
      <4>2. ocCalls'[c].saw[i] \cap AtRest # {} \/ server'[i].is = "gone"
        BY <2>2, <2>3, <2>6, <4>1 DEF SessionStates, AtRest
      <4> QED
        BY <2>4, <2>6, <3>2, <4>2 DEF StateIsRead
    <3> QED
      BY <3>1, <3>2
  <2>7. CASE /\ ocCalls[c].at \notin {"post", "status"} /\ ~Exists(i) /\ server' = server
             /\ ocCalls'[c].reply = "404" /\ ocCalls'[c].body = {}
    <3>1. server[i].is = "gone"
      BY <2>1, <2>7 DEF Exists
    <3> QED
      BY <1>5, <2>2, <2>4, <2>7, <3>1 DEF CallIsTrue, StateIsRead
  <2>8. CASE /\ ocCalls[c].at = "message" /\ Exists(i) /\ ocCalls'[c].reply = "ok" /\ server' = server
             /\ ocCalls'[c].body = IF server[i].is = "failed" THEN {"failed"} ELSE {}
    BY <1>5, <2>2, <2>4, <2>8 DEF CallIsTrue, StateIsRead
  <2>9. CASE /\ ocCalls[c].at = "get" /\ Exists(i) /\ ocCalls'[c].reply = "ok" /\ ocCalls'[c].body = {}
             /\ server' = server
    BY <1>5, <2>2, <2>4, <2>9 DEF CallIsTrue, StateIsRead, Exists
  <2> QED
    BY <1>1, <2>1, <2>5, <2>6, <2>7, <2>8, <2>9 DEF ServedAs
<1>9. SendIsDone(c)'
  <2> SUFFICES ASSUME ocCalls[c].op = "send" PROVE SendIsDone(c)'
    BY <1>1 DEF SendIsDone, Asks
  <2>1. i \in DOMAIN server /\ ocCalls[c].at = "prompt" /\ ocCalls[c].answer = "none"
    BY <1>1, <1>5 DEF CallIsTrue, CallIsShaped
  <2>2. \A j \in DOMAIN server : c \notin server[j].prompts
    BY <1>1, <1>5, <2>1 DEF CallIsTrue, SendIsDone
  <2>3. /\ ocCalls'[c].at = "prompt" /\ ocCalls'[c].id = i /\ ocCalls'[c].op = "send" /\ ocCalls'[c].answer = "none"
    BY <1>1, <2>1 DEF Asks
  <2>4. CASE Unanswered(c)
    BY <2>3, <2>4 DEF Unanswered, SendIsDone
  <2>5. CASE ~Exists(i) /\ server' = server /\ ocCalls'[c].reply = "404"
    BY <2>2, <2>3, <2>5 DEF SendIsDone
  <2>6. CASE /\ Exists(i) /\ ocCalls'[c].reply = "ok"
             /\ Changed(server, i, Prompted(server[i], c), server')
    <3>1. server[i] \in OcSessions /\ server \in Seq(OcSessions)
      BY <2>1, ElementOfSeq, LenProperties DEF OpencodeTypeOK
    <3>2. c \in Prompted(server[i], c).prompts
      BY <3>1 DEF Prompted, OcSessions
    <3>3. server'[i] = Prompted(server[i], c)
      BY <2>1, <2>6, <3>1 DEF Changed
    <3> QED
      BY <2>3, <2>6, <3>2, <3>3 DEF SendIsDone
  <2> QED
    BY <1>1, <2>1, <2>4, <2>5, <2>6 DEF ServedAs
<1>10. CloseIsDone(c)'
  <2>1. ocCalls'[c].answer = "none"
    BY <1>1, <1>5 DEF Asks, CallIsTrue, CallIsShaped
  <2> SUFFICES ASSUME ocCalls[c].op = "close", ocCalls[c].at = "delete", ocCalls'[c].reply = "ok"
               PROVE  server'[i].is = "gone"
    BY <1>1, <2>1 DEF CloseIsDone, Asks
  <2>2. Exists(i) /\ MovesOn(server, i, "gone", server')
    BY <1>1 DEF ServedAs, Unanswered
  <2>3. i \in DOMAIN server /\ server \in Seq(OcSessions)
    BY <2>2 DEF Exists, OpencodeTypeOK
  <2>4. server'[i] = [server[i] EXCEPT !.is = "gone"]
    BY <2>2, <2>3 DEF MovesOn
  <2>5. server[i] \in OcSessions
    BY <2>3, ElementOfSeq, LenProperties
  <2> QED
    BY <2>4, <2>5 DEF OcSessions
<1>11. CreateIsDone(c)'
  <2>1. CASE ocCalls[c].op = "create" /\ ocCalls[c].at = "post" /\ ocCalls'[c].reply = "ok"
    <3>1. /\ server' = Append(server, [is |-> "idle", key |-> ocCalls[c].key, prompts |-> {}])
          /\ ocCalls'[c].body = {Len(server) + 1}
      BY <1>1, <2>1 DEF ServedAs, Unanswered
    <3>2. ocCalls[c].key \in OpencodeKeys /\ server \in Seq(OcSessions)
      <4>1. ocCalls[c] \in OcCallTypes
        BY ElementOfSeq, LenProperties DEF OpencodeTypeOK, OcStarted
      <4> QED
        BY <4>1 DEF OcCallTypes, OpencodeTypeOK
    <3>3. /\ DOMAIN server' = DOMAIN server \cup {Len(server) + 1}
          /\ server'[Len(server) + 1] = [is |-> "idle", key |-> ocCalls[c].key, prompts |-> {}]
      BY <3>1, <3>2, SessionMade
    <3> QED
      BY <1>1, <1>5, <2>1, <3>1, <3>3 DEF CreateIsDone, Asks, CallIsTrue, CallIsShaped
  <2>2. CASE ~(ocCalls[c].op = "create" /\ ocCalls[c].at = "post" /\ ocCalls'[c].reply = "ok")
    BY <1>1, <1>5, <2>2 DEF CreateIsDone, Asks, CallIsTrue, Grows
  <2> QED
    BY <2>1, <2>2
<1> QED
  BY <1>1, <1>2, <1>3, <1>4, <1>6, <1>7, <1>8, <1>9, <1>10, <1>11 DEF OcAnswersInv, CallIsTrue

(* A session of the server takes a step that no call asked for.             *)
LEMMA ServerMovesKeep ==
  ASSUME OpencodeTypeOK, OcAnswersInv, TurnMoves \/ DeletedByAnother
  PROVE  /\ OpencodeTypeOK' /\ OcAnswersInv'
         /\ Grows(server, server', 0) /\ UNCHANGED <<ocEnv, seen, idem>> /\ OcStarted' = OcStarted
         /\ DOMAIN server' = DOMAIN server /\ \A c \in OcStarted : Stays(c)
         /\ DeletedByAnother \/ \A i \in DOMAIN server : server'[i].is = "gone" => server[i].is = "gone"
<1>1. PICK i \in DOMAIN server : \E x \in SessionStates :
         /\ server[i].is # "gone" /\ ServerBecomes([server EXCEPT ![i].is = x])
         /\ DeletedByAnother \/ x # "gone"
  <2>1. CASE TurnMoves
    BY <2>1 DEF TurnMoves, SessionStates, Busy
  <2>2. CASE DeletedByAnother
    BY <2>2 DEF DeletedByAnother, SessionStates
  <2> QED
    BY <2>1, <2>2
<1>2. PICK x \in SessionStates :
         /\ server[i].is # "gone" /\ ServerBecomes([server EXCEPT ![i].is = x])
         /\ DeletedByAnother \/ x # "gone"
  BY <1>1
<1>3. MovesOn(server, i, x, server') /\ ocCalls' = Watched(ocCalls, server')
  BY <1>2 DEF ServerBecomes, MovesOn
<1>4. server \in Seq(OcSessions) /\ i \in DOMAIN server /\ server[i].is # "gone"
  BY <1>2 DEF OpencodeTypeOK
<1>5. /\ server' \in Seq(OcSessions) /\ Len(server') = Len(server) /\ DOMAIN server' = DOMAIN server
      /\ server'[i] = [server[i] EXCEPT !.is = x] /\ (\A j \in DOMAIN server : j # i => server'[j] = server[j])
      /\ Grows(server, server', 0)
  BY <1>3, <1>4, SessionMovesOn
<1>6. UNCHANGED <<ocEnv, seen, idem>>
  BY DEF TurnMoves, DeletedByAnother
<1>7. /\ ocCalls' \in Seq(OcCallTypes) /\ OcStarted' = OcStarted
      /\ \A c \in OcStarted : Stays(c)
  <2>1. /\ ocCalls' \in Seq(OcCallTypes) /\ DOMAIN ocCalls' = OcStarted
        /\ \A c \in OcStarted :
               LET old == ocCalls[c]  new == ocCalls'[c] IN
               /\ new.op = old.op /\ new.id = old.id /\ new.key = old.key
               /\ new.at = old.at /\ new.reply = old.reply /\ new.body = old.body
               /\ new.answer = old.answer /\ new.shown = old.shown /\ new.failed = old.failed
               /\ new.known = old.known /\ new.over = old.over
               /\ Sees(old, new)
               /\ old.at # "done" => \A j \in DOMAIN old.saw : Was(server', j) \in new.saw[j]
    BY <1>3, <1>5, WatchingIs
  <2> QED
    BY <2>1 DEF Stays, OcStarted
<1>8. OpencodeTypeOK'
  BY <1>5, <1>6, <1>7 DEF OpencodeTypeOK
<1>9. ASSUME NEW c \in OcStarted PROVE CallIsTrue(c)'
  <2>1. c # 0
    BY LenProperties DEF OpencodeTypeOK, OcStarted
  <2> QED
    BY <1>5, <1>6, <1>7, <1>8, <2>1, OthersKeep DEF OcAnswersInv
<1>10. KeysAreRight' /\ KnownAreMade'
  BY <1>5, <1>6 DEF OcAnswersInv, KeysAreRight, KnownAreMade, Grows
<1>11. PromptsAreOfCalls'
  <2>1. server[i] \in OcSessions
    BY <1>4, ElementOfSeq, LenProperties
  <2>2. server'[i].prompts = server[i].prompts
    BY <1>5, <2>1 DEF OcSessions
  <2> QED
    BY <1>5, <1>7, <2>2 DEF OcAnswersInv, PromptsAreOfCalls, OcStarted
<1>12. DeletedByAnother \/ \A j \in DOMAIN server : server'[j].is = "gone" => server[j].is = "gone"
  <2>1. server[i] \in OcSessions
    BY <1>4, ElementOfSeq, LenProperties
  <2>2. server'[i].is = x
    BY <1>5, <2>1 DEF OcSessions
  <2> QED
    BY <1>2, <1>5, <2>2
<1> QED
  BY <1>5, <1>6, <1>7, <1>8, <1>9, <1>10, <1>11, <1>12 DEF OcAnswersInv

(* A call starts.                                                           *)
LEMMA CallStartsKeeps ==
  ASSUME OpencodeAssumption, OpencodeTypeOK, OcAnswersInv, OpencodeCallStarts
  PROVE  /\ OpencodeTypeOK' /\ OcAnswersInv'
         /\ UNCHANGED <<ocEnv, server, seen, idem>>
         /\ OcStarted' = OcStarted \cup {Len(ocCalls) + 1} /\ Len(ocCalls) + 1 \notin OcStarted
         /\ \A c \in OcStarted : ocCalls'[c] = ocCalls[c]
         /\ \E op \in OcOps : \E i \in 0 .. Len(server) : \E k \in OpencodeKeys :
               /\ (op \in {"create", "list"}) = (i = 0)
               /\ \A c \in OcStarted : ~Over(c) =>
                     IF op = "create" /\ ocCalls[c].op = "create"
                     THEN ocCalls[c].key = k => OcMay("twice")
                     ELSE (ocCalls[c].id = i \/ "list" \in {op, ocCalls[c].op}) => OcMay("meanwhile")
               /\ ocCalls'[Len(ocCalls) + 1] = OcCall(op, i, k)
<1>1. PICK op \in ocEnv.ops, i \in 0 .. Len(server), k \in OpencodeKeys :
         /\ (op \in {"create", "list"}) = (i = 0)
         /\ \A c \in OcStarted : ~Over(c) =>
                IF op = "create" /\ ocCalls[c].op = "create"
                THEN ocCalls[c].key = k => OcMay("twice")
                ELSE (ocCalls[c].id = i \/ "list" \in {op, ocCalls[c].op}) => OcMay("meanwhile")
         /\ ocCalls' = Append(ocCalls, OcCall(op, i, k))
  BY DEF OpencodeCallStarts
<1>2. op \in OcOps /\ ocEnv.sessions \in Nat
  BY <1>1 DEF OpencodeAssumption, OpencodeTypeOK, OcOps
<1>3. UNCHANGED <<ocEnv, server, seen, idem>>
  BY DEF OpencodeCallStarts
<1> DEFINE r == OcCall(op, i, k)
           D == CASE op = "state" -> {i} [] op = "list" -> OcIds [] OTHER -> {}
<1>4. D \in SUBSET Nat /\ i \in Nat /\ (op = "state" => D = {i}) /\ (op = "list" => D = OcIds)
  <2>1. Len(server) \in Nat /\ i \in Nat
    BY LenProperties DEF OpencodeTypeOK
  <2>2. OcIds \subseteq Nat
    BY <1>2 DEF OcIds
  <2> QED
    BY <2>1, <2>2
<1>5. \A j \in D : Was(server, j) \in SessionStates \cup {"none"}
  <2> SUFFICES ASSUME NEW j PROVE Was(server, j) \in SessionStates \cup {"none"}
    OBVIOUS
  <2>1. CASE j \in DOMAIN server
    <3>1. server[j] \in OcSessions
      BY <2>1, ElementOfSeq, LenProperties DEF OpencodeTypeOK
    <3> QED
      BY <2>1, <3>1 DEF Was, OcSessions
  <2>2. CASE j \notin DOMAIN server
    BY <2>2 DEF Was
  <2> QED
    BY <2>1, <2>2
<1> HIDE DEF D
<1>6. [j \in D |-> {Was(server, j)}] \in Histories
  <2>1. [j \in D |-> {Was(server, j)}] \in [D -> SUBSET (SessionStates \cup {"none"})]
    BY <1>5
  <2> QED
    BY <1>4, <2>1 DEF Histories
<1> DEFINE over == IF op = "list" THEN {ocCalls[d].id : d \in {e \in OcStarted : ocCalls[e].answer = "closed"}} ELSE {}
<1>7. over \in SUBSET Nat
  <2>1. \A d \in OcStarted : ocCalls[d] \in OcCallTypes
    BY ElementOfSeq, LenProperties DEF OpencodeTypeOK, OcStarted
  <2>2. \A d \in OcStarted : ocCalls[d].id \in Nat
    BY <2>1 DEF OcCallTypes
  <2> QED
    BY <2>2
<1>8. r = [op |-> op, id |-> i, key |-> k, at |-> "new", reply |-> "none", body |-> {}, answer |-> "none",
           shown |-> <<>>, failed |-> FALSE, known |-> {}, saw |-> [j \in D |-> {Was(server, j)}], over |-> over]
  BY DEF OcCall, D
<1> HIDE DEF over
<1>9. r \in OcCallTypes
  <2>1. <<>> \in OcShows
    <3>1. <<>> \in [{} -> {"idle", "working", "unknown"}]
      OBVIOUS
    <3>2. {} \in SUBSET Nat
      OBVIOUS
    <3> QED
      BY <3>1, <3>2 DEF OcShows
  <2>2. {} \in OcBodies /\ "none" \in OcReplies /\ "new" \in OcSteps /\ "none" \in OcAnswers
    BY DEF OcBodies, OcReplies, OcSteps, OcAnswers
  <2> HIDE DEF r
  <2> QED
    BY <1>1, <1>2, <1>4, <1>6, <1>7, <1>8, <2>1, <2>2 DEF OcCallTypes
<1>18. PICK n : n = Len(ocCalls) + 1
  OBVIOUS
<1>10. /\ ocCalls' \in Seq(OcCallTypes) /\ OcStarted' = OcStarted \cup {n} /\ n \notin OcStarted
       /\ ocCalls'[n] = r /\ \A c \in OcStarted : ocCalls'[c] = ocCalls[c]
  <2>1. ocCalls \in Seq(OcCallTypes) /\ ocCalls' = Append(ocCalls, r)
    BY <1>1 DEF OpencodeTypeOK
  <2> HIDE DEF r
  <2> QED
    BY <1>9, <1>18, <2>1, SequenceExtended DEF OcStarted
<1> HIDE DEF r
<1>11. OpencodeTypeOK'
  BY <1>3, <1>10 DEF OpencodeTypeOK
<1>12. Grows(server, server', 0)
  BY <1>3, NoneChanged DEF OpencodeTypeOK
<1>13. ASSUME NEW c \in OcStarted PROVE CallIsTrue(c)'
  <2>1. Stays(c)
    BY <1>3, <1>10 DEF Stays, Sees, OcAnswersInv, CallIsTrue, CallSees
  <2>2. c # 0
    BY LenProperties DEF OpencodeTypeOK, OcStarted
  <2> QED
    BY <1>3, <1>11, <1>12, <2>1, <2>2, OthersKeep DEF OcAnswersInv
<1>14. CallIsTrue(n)'
  <2>1. i # 0 => i \in DOMAIN server
    BY <1>1, LenProperties DEF OpencodeTypeOK
  <2> DEFINE call == ocCalls'[n]
  <2>2. /\ call.op = op /\ call.id = i /\ call.at = "new" /\ call.reply = "none" /\ call.body = {}
        /\ call.answer = "none" /\ DOMAIN call.shown = {} /\ ~call.failed
        /\ DOMAIN call.saw = D /\ \A j \in D : call.saw[j] = {Was(server, j)}
    <3>1. DOMAIN <<>> = {}
      OBVIOUS
    <3> QED
      BY <1>8, <1>10, <3>1
  <2> HIDE DEF call
  <2>3. CallIsShaped(n)'
    <3>1. call.op \notin {"create", "list"} => call.id \in DOMAIN server'
      BY <1>1, <1>3, <2>1, <2>2
    <3> QED
      BY <1>2, <2>2, <3>1 DEF CallIsShaped, OcOps, call
  <2>4. CallSees(n)'
    <3>1. \A j \in DOMAIN call.saw : Was(server', j) \in call.saw[j]
      BY <1>3, <2>2
    <3>2. OcIds' = OcIds
      BY <1>3 DEF OcIds
    <3> QED
      BY <1>4, <2>2, <3>1, <3>2 DEF CallSees, call
  <2>5. \A j \in DOMAIN server' : n \notin server'[j].prompts
    BY <1>3, <1>10 DEF OcAnswersInv, PromptsAreOfCalls, OcStarted
  <2>6. StateIsRead(n)'
    BY <2>2 DEF StateIsRead, call
  <2>7. SendIsDone(n)'
    BY <2>2, <2>5 DEF SendIsDone, call
  <2>8. CloseIsDone(n)' /\ CreateIsDone(n)'
    BY <2>2 DEF CloseIsDone, CreateIsDone, call
  <2> QED
    BY <2>3, <2>4, <2>6, <2>7, <2>8 DEF CallIsTrue
<1>15. KeysAreRight' /\ PromptsAreOfCalls' /\ KnownAreMade'
  BY <1>3, <1>10 DEF OcAnswersInv, KeysAreRight, PromptsAreOfCalls, KnownAreMade, OcStarted
<1>16. OcAnswersInv'
  BY <1>10, <1>13, <1>14, <1>15 DEF OcAnswersInv
<1>17. ocCalls'[Len(ocCalls) + 1] = OcCall(op, i, k)
  BY <1>10, <1>18 DEF r
<1> QED
  BY <1>1, <1>2, <1>3, <1>10, <1>11, <1>16, <1>17, <1>18

-----------------------------------------------------------------------------
(* The steps of a call *)

(* The call c has gone on to `at' with this answer; it is the same call.    *)
MovedTo(c, at, answer) == LET old == ocCalls[c]  new == ocCalls'[c] IN
    /\ new.op = old.op /\ new.id = old.id /\ new.key = old.key /\ new.saw = old.saw /\ new.over = old.over
    /\ new.at = at /\ new.reply = "none" /\ new.body = {} /\ new.answer = answer /\ new.shown = old.shown

Keeps(c) == OpencodeTypeOK' /\ OcAnswersInv' /\ OnItsOwn(c)

(* What is so of any call.                                                  *)
LEMMA CallHasType ==
  ASSUME OpencodeTypeOK, NEW c \in OcStarted
  PROVE  /\ ocCalls[c] \in OcCallTypes /\ ocCalls \in Seq(OcCallTypes)
         /\ ocCalls[c].op \in OcOps /\ ocCalls[c].id \in Nat /\ ocCalls[c].key \in OpencodeKeys
         /\ ocCalls[c].at \in OcSteps /\ ocCalls[c].reply \in OcReplies
<1>1. ocCalls[c] \in OcCallTypes /\ ocCalls \in Seq(OcCallTypes)
  BY ElementOfSeq, LenProperties DEF OpencodeTypeOK, OcStarted
<1> QED
  BY <1>1 DEF OcCallTypes

(* A step that only moves a call leaves the rest as it has to be.           *)
LEMMA QuietStep ==
  ASSUME OpencodeTypeOK, OcAnswersInv, NEW c, UNCHANGED <<ocEnv, server, seen, idem>>
  PROVE  StepOf(c)
BY DEF StepOf, OpencodeTypeOK, OcAnswersInv, KeysAreRight, KnownAreMade

(* The call that has answered is the same call, and is over.                *)
LEMMA AnswerIs ==
  ASSUME OpencodeTypeOK, OcAnswersInv, NEW c \in OcStarted, ocCalls[c].at # "done", NEW a, MayAnswer(c, a),
         Answers(c, a), StepOf(c)
  PROVE  Keeps(c) /\ MovedTo(c, "done", a)
<1>1. /\ OpencodeTypeOK' /\ OcAnswersInv'
      /\ ocCalls'[c] = CallAnswered(ocCalls[c], a) /\ OnItsOwn(c)
  BY AnswersKeep
<1>2. ocCalls[c] \in OcCallTypes /\ a \in OcAnswers
  BY CallHasType DEF MayAnswer
<1> DEFINE r == ocCalls'[c]
<1>3. /\ r.op = ocCalls[c].op /\ r.id = ocCalls[c].id /\ r.key = ocCalls[c].key /\ r.shown = ocCalls[c].shown
      /\ r.saw = ocCalls[c].saw /\ r.over = ocCalls[c].over
      /\ r.at = "done" /\ r.reply = "none" /\ r.body = {} /\ r.answer = a
  BY <1>1, <1>2, CallAnsweredIs
<1> QED
  BY <1>1, <1>3 DEF Keeps, MovedTo

(* The call that has gone on is the same call, without an answer.           *)
LEMMA NextIs ==
  ASSUME OpencodeTypeOK, OcAnswersInv, NEW c \in OcStarted, ocCalls[c].at # "done", NEW at, MayGo(c, at),
         Goes(c, at), StepOf(c)
  PROVE  Keeps(c) /\ MovedTo(c, at, "none")
<1>1. /\ OpencodeTypeOK' /\ OcAnswersInv'
      /\ ocCalls'[c] = GoneOn(ocCalls[c], at) /\ OnItsOwn(c)
  BY GoesKeep
<1>2. ocCalls[c] \in OcCallTypes /\ at \in OcSteps /\ ocCalls[c].answer = "none"
  BY CallHasType DEF MayGo, OcSteps, OcAnswersInv, CallIsTrue, CallIsShaped
<1> DEFINE r == ocCalls'[c]
<1>3. /\ r.op = ocCalls[c].op /\ r.id = ocCalls[c].id /\ r.key = ocCalls[c].key /\ r.shown = ocCalls[c].shown
      /\ r.saw = ocCalls[c].saw /\ r.over = ocCalls[c].over
      /\ r.at = at /\ r.reply = "none" /\ r.body = {} /\ r.answer = "none"
  BY <1>1, <1>2, GoneOnIs
<1> QED
  BY <1>1, <1>3 DEF Keeps, MovedTo

(* A create is told of its session: over, or with its first prompt to send. *)
Told(c, i, at, answer) == LET old == ocCalls[c]  new == ocCalls'[c] IN
    /\ new.op = old.op /\ new.id = i /\ new.key = old.key /\ new.saw = old.saw /\ new.over = old.over
    /\ new.at = at /\ new.reply = "none" /\ new.body = {} /\ new.answer = answer /\ new.shown = old.shown

(* A create may be told of a session that has its key.                      *)
LEMMA ToldKeeps ==
  ASSUME OpencodeTypeOK, OcAnswersInv, NEW c \in OcStarted, ocCalls[c].at # "done", ocCalls[c].op = "create",
         NEW i \in DOMAIN server, server[i].key = ocCalls[c].key, StepOf(c), NEW r,
         \/ r = [CallAnswered(ocCalls[c], "created") EXCEPT !.id = i]
         \/ r = [GoneOn(ocCalls[c], "prompt") EXCEPT !.id = i],
         CallBecomes(ocCalls, c, r)
  PROVE  /\ Keeps(c)
         /\ r = [CallAnswered(ocCalls[c], "created") EXCEPT !.id = i] => Told(c, i, "done", "created")
         /\ r = [GoneOn(ocCalls[c], "prompt") EXCEPT !.id = i] => Told(c, i, "prompt", "none")
<1>1. /\ ocCalls[c] \in OcCallTypes /\ ocCalls \in Seq(OcCallTypes) /\ i \in Nat
      /\ "created" \in OcAnswers /\ "prompt" \in OcSteps
  BY CallHasType, LenProperties DEF OcAnswers, OcSteps, OpencodeTypeOK
<1>2. CallIsTrue(c)
  BY DEF OcAnswersInv
<1> DEFINE over == r = [CallAnswered(ocCalls[c], "created") EXCEPT !.id = i]
           at == IF over THEN "done" ELSE "prompt"
           answer == IF over THEN "created" ELSE "none"
<1>3. /\ r \in OcCallTypes
      /\ r.op = "create" /\ r.id = i /\ r.key = ocCalls[c].key /\ r.shown = ocCalls[c].shown
      /\ r.failed = ocCalls[c].failed /\ r.saw = ocCalls[c].saw /\ r.over = ocCalls[c].over
      /\ r.reply = "none" /\ r.body = {} /\ r.at = at /\ r.answer = answer
  <2>1. CASE r = [CallAnswered(ocCalls[c], "created") EXCEPT !.id = i]
    <3> DEFINE q == CallAnswered(ocCalls[c], "created")
    <3>1. /\ q \in OcCallTypes
          /\ q.op = ocCalls[c].op /\ q.key = ocCalls[c].key /\ q.shown = ocCalls[c].shown
          /\ q.failed = ocCalls[c].failed /\ q.saw = ocCalls[c].saw /\ q.over = ocCalls[c].over
          /\ q.at = "done" /\ q.reply = "none" /\ q.body = {} /\ q.answer = "created"
      BY <1>1, CallAnsweredIs
    <3>2. r = [q EXCEPT !.id = i]
      BY <2>1
    <3>3. at = "done" /\ answer = "created"
      BY <2>1
    <3> HIDE DEF q, at, answer
    <3> QED
      BY <1>1, <3>1, <3>2, <3>3 DEF OcCallTypes
  <2>2. CASE r # [CallAnswered(ocCalls[c], "created") EXCEPT !.id = i]
    <3> DEFINE q == GoneOn(ocCalls[c], "prompt")
    <3>1. /\ q \in OcCallTypes
          /\ q.op = ocCalls[c].op /\ q.key = ocCalls[c].key /\ q.shown = ocCalls[c].shown
          /\ q.failed = ocCalls[c].failed /\ q.saw = ocCalls[c].saw /\ q.over = ocCalls[c].over
          /\ q.at = "prompt" /\ q.reply = "none" /\ q.body = {} /\ q.answer = ocCalls[c].answer
      BY <1>1, GoneOnIs
    <3>2. r = [q EXCEPT !.id = i]
      BY <2>2
    <3>3. at = "prompt" /\ answer = "none" /\ ocCalls[c].answer = "none"
      BY <1>2, <2>2 DEF CallIsTrue, CallIsShaped
    <3> HIDE DEF q, at, answer
    <3> QED
      BY <1>1, <3>1, <3>2, <3>3 DEF OcCallTypes
  <2> QED
    BY <2>1, <2>2
<1> HIDE DEF over
<1>4. (at = "done" /\ answer = "created") \/ (at = "prompt" /\ answer = "none")
  OBVIOUS
<1> HIDE DEF at, answer
<1>5. /\ ocCalls'[c] = r /\ OcStarted' = OcStarted /\ server' = server /\ ocEnv' = ocEnv
      /\ \A d \in OcStarted : d # c => ocCalls'[d] = ocCalls[d]
  BY <1>1, <1>3, CallBecomesIs DEF StepOf, OcStarted
<1>6. CallIsShaped(c)'
  BY <1>2, <1>3, <1>4, <1>5 DEF CallIsTrue, CallIsShaped
<1>7. CallSees(c)'
  BY <1>2, <1>3, <1>4, <1>5 DEF CallIsTrue, CallSees
<1>8. StateIsRead(c)' /\ SendIsDone(c)'
  BY <1>3, <1>5 DEF StateIsRead, SendIsDone
<1>9. CloseIsDone(c)' /\ CreateIsDone(c)'
  BY <1>3, <1>4, <1>5 DEF CloseIsDone, CreateIsDone
<1>10. CallIsTrue(c)'
  BY <1>6, <1>7, <1>8, <1>9 DEF CallIsTrue
<1>11. OpencodeTypeOK' /\ OcAnswersInv'
  BY <1>3, <1>10, RecordKeeps
<1>12. Keeps(c)
  BY <1>5, <1>11 DEF Keeps, OnItsOwn
<1>13. r = [CallAnswered(ocCalls[c], "created") EXCEPT !.id = i] => Told(c, i, "done", "created")
  BY <1>3, <1>5 DEF Told, over, at, answer
<1>14. r = [GoneOn(ocCalls[c], "prompt") EXCEPT !.id = i] => Told(c, i, "prompt", "none")
  <2> SUFFICES ASSUME r = [GoneOn(ocCalls[c], "prompt") EXCEPT !.id = i] PROVE Told(c, i, "prompt", "none")
    OBVIOUS
  <2>1. r.at = "prompt"
    BY <1>1 DEF GoneOn, OcCallTypes
  <2> QED
    BY <1>3, <1>4, <1>5, <2>1 DEF Told
<1> QED
  BY <1>12, <1>13, <1>14

(* The first step of a call.                                                *)
LEMMA StartsKeeps ==
  ASSUME OpencodeTypeOK, OcAnswersInv, NEW c \in OcStarted, Starts(c)
  PROVE  /\ Keeps(c) /\ UNCHANGED <<seen, idem>> /\ ocCalls[c].at = "new"
         /\ \/ ocCalls[c].op = "create" /\ Told(c, idem[ocCalls[c].key], "done", "created")
            \/ ocCalls[c].op = "create" /\ idem[ocCalls[c].key] = 0 /\ MovedTo(c, "post", "none")
            \/ ocCalls[c].op = "list" /\ MovedTo(c, "status", "none") /\ ocCalls'[c].known = seen
            \/ ocCalls[c].op \notin {"create", "list"} /\ MovedTo(c, "done", "no such session")
            \/ /\ ocCalls[c].op \notin {"create", "list"} /\ ocCalls[c].id \in seen
               /\ \E at \in {"prompt", "status", "abort", "get"} : MovedTo(c, at, "none")
<1> DEFINE call == ocCalls[c]
<1>1. /\ call \in OcCallTypes /\ ocCalls \in Seq(OcCallTypes) /\ call.op \in OcOps /\ call.key \in OpencodeKeys
      /\ call.at = "new" /\ CallIsTrue(c) /\ UNCHANGED <<ocEnv, server, seen, idem>>
  BY CallHasType DEF Starts, OcAnswersInv
<1>2. StepOf(c)
  BY <1>1, QuietStep
<1>3. call.reply = "none" /\ call.answer = "none" /\ ~call.failed
  BY <1>1 DEF CallIsTrue, CallIsShaped
<1>4. CASE call.op = "create" /\ idem[call.key] # 0
  <2> DEFINE i == idem[call.key]
             r == [CallAnswered(call, "created") EXCEPT !.id = i]
  <2>1. i \in DOMAIN server /\ server[i].key = call.key
    BY <1>1, <1>4 DEF OcAnswersInv, KeysAreRight
  <2>2. CallBecomes(ocCalls, c, r)
    BY <1>4 DEF Starts, CallBecomes
  <2> HIDE DEF i
  <2>3. r = [CallAnswered(ocCalls[c], "created") EXCEPT !.id = i]
    OBVIOUS
  <2> HIDE DEF r
  <2>4. Keeps(c) /\ Told(c, i, "done", "created")
    BY <1>1, <1>2, <1>4, <2>1, <2>2, <2>3, ToldKeeps
  <2> QED
    BY <1>1, <1>4, <2>4 DEF i
<1>5. CASE call.op = "create" /\ idem[call.key] = 0
  <2>1. Goes(c, "post") /\ MayGo(c, "post")
    BY <1>5 DEF Starts, MayGo
  <2>2. Keeps(c) /\ MovedTo(c, "post", "none")
    BY <1>1, <1>2, <2>1, NextIs
  <2> QED
    BY <1>1, <1>5, <2>2
<1>6. CASE call.op = "list"
  <2> DEFINE r == [call EXCEPT !.at = "status", !.known = seen]
  <2>1. CallBecomes(ocCalls, c, r)
    BY <1>6 DEF Starts, CallBecomes
  <2>2. /\ r \in OcCallTypes
        /\ r.op = call.op /\ r.id = call.id /\ r.key = call.key /\ r.shown = call.shown
        /\ r.failed = call.failed /\ r.saw = call.saw /\ r.over = call.over
        /\ r.at = "status" /\ r.reply = call.reply /\ r.body = call.body /\ r.answer = call.answer /\ r.known = seen
    BY <1>1 DEF OcCallTypes, OcSteps, OpencodeTypeOK
  <2> HIDE DEF r
  <2>3. /\ ocCalls'[c] = r /\ OcStarted' = OcStarted /\ server' = server /\ ocEnv' = ocEnv
        /\ \A d \in OcStarted : d # c => ocCalls'[d] = ocCalls[d]
    BY <1>1, <2>1, <2>2, CallBecomesIs DEF OcStarted
  <2>4. CallIsShaped(c)' /\ CallSees(c)'
    BY <1>1, <1>6, <2>2, <2>3 DEF CallIsTrue, CallIsShaped, CallSees, OcIds
  <2>5. StateIsRead(c)' /\ SendIsDone(c)' /\ CloseIsDone(c)' /\ CreateIsDone(c)'
    BY <1>3, <1>6, <2>2, <2>3 DEF StateIsRead, SendIsDone, CloseIsDone, CreateIsDone
  <2>6. CallIsTrue(c)'
    BY <2>4, <2>5 DEF CallIsTrue
  <2>7. OpencodeTypeOK' /\ OcAnswersInv'
    BY <1>2, <2>1, <2>2, <2>6, RecordKeeps
  <2>8. call.body = {}
    BY <1>1, <1>6 DEF OcAnswersInv, CallIsTrue, CallIsShaped
  <2> QED
    BY <1>1, <1>3, <1>6, <2>2, <2>3, <2>7, <2>8 DEF Keeps, OnItsOwn, MovedTo
<1>7. CASE call.op \notin {"create", "list"} /\ call.id \notin seen
  <2>1. Answers(c, "no such session")
    BY <1>7 DEF Starts
  <2>2. MayAnswer(c, "no such session")
    BY <1>1 DEF MayAnswer, OcAnswers, CallIsTrue, SendIsDone
  <2>3. Keeps(c) /\ MovedTo(c, "done", "no such session")
    BY <1>1, <1>2, <2>1, <2>2, AnswerIs
  <2> QED
    BY <1>1, <1>7, <2>3
<1>8. CASE call.op \notin {"create", "list"} /\ call.id \in seen
  <2>1. PICK at \in {"prompt", "status", "abort", "get"} : Goes(c, at) /\ MayGo(c, at)
    <3>1. CASE call.op = "send"
      BY <1>1, <1>8, <3>1 DEF Starts, MayGo, CallIsTrue, SendIsDone
    <3>2. CASE call.op = "state"
      BY <1>8, <3>2 DEF Starts, MayGo
    <3>3. CASE call.op = "interrupt"
      BY <1>8, <3>3 DEF Starts, MayGo
    <3>4. CASE call.op = "close"
      BY <1>8, <3>4 DEF Starts, MayGo
    <3> QED
      BY <1>1, <1>8, <3>1, <3>2, <3>3, <3>4 DEF OcOps
  <2>2. Keeps(c) /\ MovedTo(c, at, "none")
    BY <1>1, <1>2, <2>1, NextIs
  <2> QED
    BY <1>1, <1>8, <2>2
<1> QED
  BY <1>1, <1>4, <1>5, <1>6, <1>7, <1>8

(* What a create makes of an answer.                                        *)
LEMMA CreateTakesKeeps ==
  ASSUME OpencodeTypeOK, OcAnswersInv, NEW c \in OcStarted, CreateTakes(c)
  PROVE  /\ Keeps(c) /\ ocCalls[c].op = "create" /\ ocCalls[c].at \in {"post", "prompt"}
         /\ \/ /\ ocCalls[c].at = "post" /\ ocCalls[c].reply = "ok"
               /\ \E i \in DOMAIN server :
                     /\ ocCalls[c].body = {i} /\ server[i].key = ocCalls[c].key /\ seen' = seen \cup {i}
                     /\ \/ Told(c, i, "prompt", "none") /\ idem' = idem
                        \/ Told(c, i, "done", "created") /\ idem' = [idem EXCEPT ![ocCalls[c].key] = i]
            \/ /\ ocCalls[c].at = "post" /\ ocCalls[c].reply # "ok"
               /\ MovedTo(c, "done", "error") /\ UNCHANGED <<seen, idem>>
            \/ /\ ocCalls[c].at = "prompt" /\ UNCHANGED seen
               /\ idem' = [idem EXCEPT ![ocCalls[c].key] = ocCalls[c].id]
               /\ MovedTo(c, "done", "created") \/ MovedTo(c, "done", "prompt failed")
<1> DEFINE call == ocCalls[c]
<1>1. /\ call \in OcCallTypes /\ call.key \in OpencodeKeys /\ call.op = "create" /\ call.reply # "none"
      /\ CallIsTrue(c) /\ UNCHANGED <<ocEnv, server>>
  BY CallHasType DEF CreateTakes, OcAnswersInv
<1>2. call.at \in {"post", "prompt"}
  BY <1>1 DEF CallIsTrue, CallIsShaped
<1>3. ASSUME NEW i \in DOMAIN server, server[i].key = call.key, seen' \subseteq seen \cup {i},
             idem' = idem \/ idem' = [idem EXCEPT ![call.key] = i]
      PROVE  StepOf(c)
  <2>1. i \in Nat /\ idem \in [OpencodeKeys -> Nat]
    BY LenProperties DEF OpencodeTypeOK
  <2>2. idem' \in [OpencodeKeys -> Nat] /\ \A k \in OpencodeKeys : idem'[k] = idem[k] \/ (k = call.key /\ idem'[k] = i)
    BY <1>1, <1>3, <2>1
  <2> QED
    BY <1>1, <1>3, <2>2 DEF StepOf, OcAnswersInv, KeysAreRight, KnownAreMade
<1>4. CASE call.at = "post" /\ call.reply = "ok"
  <2>1. PICK i \in DOMAIN server : call.body = {i} /\ server[i].key = call.key
    BY <1>1, <1>4 DEF CallIsTrue, CreateIsDone
  <2>2. (CHOOSE x \in call.body : TRUE) = i
    BY <2>1
  <2>3. /\ seen' = seen \cup {i}
        /\ \/ CallBecomes(ocCalls, c, [GoneOn(ocCalls[c], "prompt") EXCEPT !.id = i]) /\ idem' = idem
           \/ /\ CallBecomes(ocCalls, c, [CallAnswered(ocCalls[c], "created") EXCEPT !.id = i])
              /\ idem' = [idem EXCEPT ![call.key] = i]
    BY <1>4, <2>2 DEF CreateTakes, CallBecomes
  <2>4. StepOf(c)
    BY <1>3, <2>1, <2>3
  <2>5. CASE CallBecomes(ocCalls, c, [GoneOn(ocCalls[c], "prompt") EXCEPT !.id = i]) /\ idem' = idem
    <3>1. PICK r : r = [GoneOn(ocCalls[c], "prompt") EXCEPT !.id = i]
      OBVIOUS
    <3>2. CallBecomes(ocCalls, c, r)
      BY <2>5, <3>1
    <3>3. Keeps(c) /\ Told(c, i, "prompt", "none")
      BY <1>1, <1>4, <2>1, <2>4, <3>1, <3>2, ToldKeeps
    <3> QED
      BY <1>1, <1>4, <2>1, <2>3, <2>5, <3>3
  <2>6. CASE /\ CallBecomes(ocCalls, c, [CallAnswered(ocCalls[c], "created") EXCEPT !.id = i])
             /\ idem' = [idem EXCEPT ![call.key] = i]
    <3>1. PICK r : r = [CallAnswered(ocCalls[c], "created") EXCEPT !.id = i]
      OBVIOUS
    <3>2. CallBecomes(ocCalls, c, r)
      BY <2>6, <3>1
    <3>3. Keeps(c) /\ Told(c, i, "done", "created")
      BY <1>1, <1>4, <2>1, <2>4, <3>1, <3>2, ToldKeeps
    <3> QED
      BY <1>1, <1>4, <2>1, <2>3, <2>6, <3>3
  <2> QED
    BY <2>3, <2>5, <2>6
<1>5. CASE call.at = "post" /\ call.reply # "ok"
  <2>1. Answers(c, "error") /\ UNCHANGED <<seen, idem>>
    BY <1>5 DEF CreateTakes
  <2>2. StepOf(c)
    BY <1>1, <2>1, QuietStep
  <2>3. MayAnswer(c, "error")
    BY DEF MayAnswer, OcAnswers
  <2>4. Keeps(c) /\ MovedTo(c, "done", "error")
    BY <1>5, <2>1, <2>2, <2>3, AnswerIs
  <2> QED
    BY <1>1, <1>5, <2>1, <2>4
<1>6. CASE call.at = "prompt"
  <2>1. call.id \in DOMAIN server /\ server[call.id].key = call.key
    BY <1>1, <1>6 DEF CallIsTrue, CreateIsDone
  <2>2. PICK a \in {"created", "prompt failed"} : Answers(c, a)
    BY <1>6 DEF CreateTakes
  <2>3. UNCHANGED seen /\ idem' = [idem EXCEPT ![call.key] = call.id]
    BY <1>6 DEF CreateTakes
  <2>4. StepOf(c)
    BY <1>3, <2>1, <2>3
  <2>5. MayAnswer(c, a)
    BY <1>1, <2>1 DEF MayAnswer, OcAnswers
  <2>6. Keeps(c) /\ MovedTo(c, "done", a)
    BY <1>6, <2>2, <2>4, <2>5, AnswerIs
  <2> QED
    BY <1>1, <1>6, <2>3, <2>6
<1> QED
  BY <1>2, <1>4, <1>5, <1>6

(* What a send or an interrupt makes of an answer.                          *)
LEMMA SendTakesKeeps ==
  ASSUME OpencodeTypeOK, OcAnswersInv, NEW c \in OcStarted, SendTakes(c)
  PROVE  /\ Keeps(c) /\ UNCHANGED <<seen, idem>> /\ ocCalls[c].op \in {"send", "interrupt"}
         /\ \E a \in {"no such session", "queued", "error"} : MovedTo(c, "done", a)
<1>1. /\ ocCalls[c].op \in {"send", "interrupt"} /\ ocCalls[c].reply # "none"
      /\ CallIsTrue(c) /\ UNCHANGED <<ocEnv, server, seen, idem>>
  BY DEF SendTakes, OcAnswersInv
<1>2. PICK a \in {"no such session", "queued", "error"} :
         /\ Answers(c, a)
         /\ a = "no such session" => ocCalls[c].reply = "404"
         /\ a = "queued" => ocCalls[c].reply = "ok"
  <2>1. CASE ocCalls[c].reply = "404"
    BY <2>1 DEF SendTakes
  <2>2. CASE ocCalls[c].reply = "ok"
    BY <2>2 DEF SendTakes
  <2>3. CASE ocCalls[c].reply \notin {"ok", "404"}
    BY <2>3 DEF SendTakes
  <2> QED
    BY <2>1, <2>2, <2>3
<1>3. ocCalls[c].at \in {"prompt", "abort"} /\ (ocCalls[c].op = "send" => ocCalls[c].at = "prompt")
  BY <1>1 DEF CallIsTrue, CallIsShaped
<1>4. MayAnswer(c, a)
  BY <1>1, <1>2, <1>3 DEF MayAnswer, OcAnswers, CallIsTrue, SendIsDone
<1>5. StepOf(c)
  BY <1>1, QuietStep
<1>6. Keeps(c) /\ MovedTo(c, "done", a)
  BY <1>2, <1>3, <1>4, <1>5, AnswerIs
<1> QED
  BY <1>1, <1>6

(* What a read of a state makes of an answer.                               *)
LEMMA StateTakesKeeps ==
  ASSUME OpencodeTypeOK, OcAnswersInv, NEW c \in OcStarted, StateTakes(c)
  PROVE  /\ Keeps(c) /\ UNCHANGED idem /\ ocCalls[c].op = "state" /\ ocCalls[c].at \notin {"new", "done"}
         /\ seen' = seen \/ seen' = seen \cup {ocCalls[c].id}
         /\ \/ \E a \in {"error", "dead", "working", "idle"} : MovedTo(c, "done", a)
            \/ \E at \in {"get", "message"} : MovedTo(c, at, "none")
<1> DEFINE call == ocCalls[c]
<1>1. /\ call \in OcCallTypes /\ ocCalls \in Seq(OcCallTypes) /\ call.op = "state" /\ call.reply # "none"
      /\ CallIsTrue(c) /\ UNCHANGED <<ocEnv, server, idem>>
  BY CallHasType DEF StateTakes, OcAnswersInv
<1>2. call.at \in {"status", "get", "message"} /\ call.id \in DOMAIN server
  BY <1>1 DEF CallIsTrue, CallIsShaped
<1>3. (seen' = seen \/ seen' = seen \cup {call.id}) => StepOf(c)
  BY <1>1, <1>2 DEF StepOf, OcAnswersInv, KeysAreRight, KnownAreMade, OpencodeTypeOK
<1>4. ASSUME NEW a \in {"error", "dead", "working"}, Answers(c, a), seen' = seen,
             a = "dead" => call.at = "get" /\ call.reply = "404",
             a = "working" => call.at = "status" /\ call.reply = "ok" /\ InBody(call, call.id)
      PROVE  Keeps(c) /\ MovedTo(c, "done", a)
  <2>1. MayAnswer(c, a)
    BY <1>1, <1>4 DEF MayAnswer, OcAnswers, CallIsTrue, StateIsRead
  <2> QED
    BY <1>2, <1>3, <1>4, <2>1, AnswerIs
<1>5. CASE call.at = "message"
  <2>1. /\ CallBecomes(ocCalls, c, [CallAnswered(call, "idle") EXCEPT !.failed = call.body = {"failed"}])
        /\ UNCHANGED seen
    BY <1>5 DEF StateTakes, CallBecomes
  <2> DEFINE q == CallAnswered(call, "idle")
             r == [q EXCEPT !.failed = call.body = {"failed"}]
  <2>2. /\ q \in OcCallTypes
        /\ q.op = call.op /\ q.id = call.id /\ q.key = call.key /\ q.shown = call.shown
        /\ q.saw = call.saw /\ q.over = call.over
        /\ q.at = "done" /\ q.reply = "none" /\ q.body = {} /\ q.answer = "idle"
    <3>1. "idle" \in OcAnswers
      BY DEF OcAnswers
    <3> QED
      BY <1>1, <3>1, CallAnsweredIs
  <2> HIDE DEF q
  <2>3. (call.body = {"failed"}) \in BOOLEAN
    OBVIOUS
  <2>4. /\ r \in OcCallTypes
        /\ r.op = "state" /\ r.id = call.id /\ r.key = call.key /\ r.shown = call.shown
        /\ r.saw = call.saw /\ r.over = call.over
        /\ r.at = "done" /\ r.reply = "none" /\ r.body = {} /\ r.answer = "idle"
    BY <1>1, <2>2, <2>3 DEF OcCallTypes
  <2>5. r.failed => call.body = {"failed"}
    BY <2>2 DEF OcCallTypes
  <2>6. CallBecomes(ocCalls, c, r)
    BY <2>1 DEF q
  <2> HIDE DEF r
  <2>7. /\ ocCalls'[c] = r /\ OcStarted' = OcStarted /\ server' = server /\ ocEnv' = ocEnv
        /\ \A d \in OcStarted : d # c => ocCalls'[d] = ocCalls[d]
    BY <1>1, <2>4, <2>6, CallBecomesIs DEF OcStarted
  <2>8. CallIsShaped(c)' /\ CallSees(c)'
    BY <1>1, <1>2, <1>5, <2>4, <2>7 DEF CallIsTrue, CallIsShaped, CallSees
  <2>9. StateIsRead(c)'
    BY <1>1, <1>5, <2>4, <2>5, <2>7 DEF CallIsTrue, StateIsRead
  <2>10. SendIsDone(c)' /\ CloseIsDone(c)' /\ CreateIsDone(c)'
    BY <2>4, <2>7 DEF SendIsDone, CloseIsDone, CreateIsDone
  <2>11. CallIsTrue(c)'
    BY <2>8, <2>9, <2>10 DEF CallIsTrue
  <2>12. OpencodeTypeOK' /\ OcAnswersInv'
    BY <1>3, <2>1, <2>4, <2>6, <2>11, RecordKeeps
  <2>13. Keeps(c) /\ MovedTo(c, "done", "idle")
    BY <1>1, <2>4, <2>7, <2>12 DEF Keeps, OnItsOwn, MovedTo
  <2> QED
    BY <1>1, <1>5, <2>1, <2>13
<1>6. CASE call.at = "get" /\ call.reply = "ok"
  <2>1. Goes(c, "message") /\ seen' = seen \cup {call.id}
    BY <1>6 DEF StateTakes
  <2>2. MayGo(c, "message")
    BY <1>1, <1>6 DEF MayGo, CallIsTrue, StateIsRead
  <2>3. Keeps(c) /\ MovedTo(c, "message", "none")
    BY <1>3, <1>6, <2>1, <2>2, NextIs
  <2> QED
    BY <1>1, <1>6, <2>1, <2>3
<1>7. CASE call.at # "message" /\ ~(call.at = "get" /\ call.reply = "ok")
  <2>1. /\ UNCHANGED seen
        /\ IF call.at = "get" /\ call.reply = "404" THEN Answers(c, "dead")
           ELSE IF call.reply # "ok" THEN Answers(c, "error")
           ELSE IF classify(call.body, call.id) = "working" THEN Answers(c, "working") ELSE Goes(c, "get")
    BY <1>7 DEF StateTakes
  <2>2. CASE call.at = "get" /\ call.reply = "404"
    BY <1>1, <1>2, <1>4, <2>1, <2>2
  <2>3. CASE ~(call.at = "get" /\ call.reply = "404") /\ call.reply # "ok"
    BY <1>1, <1>2, <1>4, <2>1, <2>3
  <2>4. CASE call.reply = "ok" /\ classify(call.body, call.id) = "working"
    <3>1. Answers(c, "working") /\ InBody(call, call.id) /\ call.at = "status"
      BY <1>2, <1>7, <2>1, <2>4 DEF classify, InBody
    <3> QED
      BY <1>1, <1>2, <1>4, <2>1, <2>4, <3>1
  <2>5. CASE call.reply = "ok" /\ classify(call.body, call.id) # "working"
    <3>1. Goes(c, "get") /\ ~InBody(call, call.id) /\ call.at = "status"
      BY <1>2, <1>7, <2>1, <2>5 DEF classify, InBody
    <3>2. MayGo(c, "get")
      BY <1>1, <2>5, <3>1 DEF MayGo, CallIsTrue, StateIsRead
    <3>3. Keeps(c) /\ MovedTo(c, "get", "none")
      BY <1>2, <1>3, <2>1, <3>1, <3>2, NextIs
    <3> QED
      BY <1>1, <1>2, <2>1, <3>3
  <2> QED
    BY <2>2, <2>3, <2>4, <2>5
<1> QED
  BY <1>5, <1>6, <1>7

(* What a close makes of an answer.                                         *)
LEMMA CloseTakesKeeps ==
  ASSUME OpencodeTypeOK, OcAnswersInv, NEW c \in OcStarted, CloseTakes(c)
  PROVE  /\ Keeps(c) /\ UNCHANGED idem /\ ocCalls[c].op = "close" /\ ocCalls[c].at \notin {"new", "done"}
         /\ \/ /\ ocCalls[c].reply = "404" /\ seen' = seen \ {ocCalls[c].id}
               /\ MovedTo(c, "done", "no such session")
            \/ /\ ocCalls[c].at = "delete" /\ ocCalls[c].reply = "ok" /\ seen' = seen \ {ocCalls[c].id}
               /\ MovedTo(c, "done", "closed")
            \/ ocCalls[c].at = "get" /\ seen' = seen /\ MovedTo(c, "delete", "none")
            \/ /\ ocCalls[c].at \in {"get", "delete"} /\ ocCalls[c].reply = "unreachable" /\ seen' = seen
               /\ MovedTo(c, "done", "error")
<1> DEFINE call == ocCalls[c]
<1>1. /\ call.op = "close" /\ call.reply # "none" /\ call.reply \in OcReplies
      /\ CallIsTrue(c) /\ UNCHANGED <<ocEnv, server, idem>>
  BY CallHasType DEF CloseTakes, OcAnswersInv
<1>2. call.at \in {"get", "delete"}
  BY <1>1 DEF CallIsTrue, CallIsShaped
<1>3. seen' = (IF call.reply = "404" \/ (call.reply = "ok" /\ call.at = "delete") THEN seen \ {call.id} ELSE seen)
  BY DEF CloseTakes
<1>4. StepOf(c)
  <2>1. seen' \subseteq seen
    BY <1>3
  <2> QED
    BY <1>1, <2>1 DEF StepOf, OcAnswersInv, KeysAreRight, KnownAreMade, OpencodeTypeOK
<1>5. ASSUME NEW a \in {"no such session", "closed", "error"}, Answers(c, a),
             a = "closed" => call.at = "delete" /\ call.reply = "ok"
      PROVE  Keeps(c) /\ MovedTo(c, "done", a)
  <2>1. MayAnswer(c, a)
    BY <1>1, <1>5 DEF MayAnswer, OcAnswers, CallIsTrue, CloseIsDone
  <2> QED
    BY <1>2, <1>4, <1>5, <2>1, AnswerIs
<1>6. CASE call.reply = "404"
  <2>1. Answers(c, "no such session")
    BY <1>6 DEF CloseTakes
  <2> QED
    BY <1>1, <1>2, <1>3, <1>5, <1>6, <2>1
<1>7. CASE call.reply = "ok" /\ call.at = "get"
  <2>1. Goes(c, "delete")
    BY <1>7 DEF CloseTakes
  <2>2. MayGo(c, "delete")
    BY <1>1 DEF MayGo
  <2>3. Keeps(c) /\ MovedTo(c, "delete", "none")
    BY <1>2, <1>4, <2>1, <2>2, NextIs
  <2> QED
    BY <1>1, <1>2, <1>3, <1>7, <2>3
<1>8. CASE call.reply = "ok" /\ call.at = "delete"
  <2>1. Answers(c, "closed")
    BY <1>8 DEF CloseTakes
  <2> QED
    BY <1>1, <1>2, <1>3, <1>5, <1>8, <2>1
<1>9. CASE call.reply \notin {"ok", "404"}
  <2>1. Answers(c, "error")
    BY <1>9 DEF CloseTakes
  <2>2. call.reply = "unreachable"
    BY <1>1, <1>9 DEF OcReplies
  <2> QED
    BY <1>1, <1>2, <1>3, <1>5, <2>1, <2>2
<1> QED
  BY <1>2, <1>6, <1>7, <1>8, <1>9

(* What a listing makes of an answer.                                       *)
LEMMA ListTakesKeeps ==
  ASSUME OpencodeTypeOK, OcAnswersInv, NEW c \in OcStarted, ListTakes(c)
  PROVE  /\ Keeps(c) /\ UNCHANGED <<seen, idem>> /\ ocCalls[c].op = "list" /\ ocCalls[c].at = "status"
         /\ LET old == ocCalls[c]  new == ocCalls'[c] IN
            /\ new.op = old.op /\ new.id = old.id /\ new.key = old.key /\ new.saw = old.saw /\ new.over = old.over
            /\ new.at = "done" /\ new.reply = "none" /\ new.answer \in {"ok", "degraded"}
            /\ new.shown = Shown(old)
<1> DEFINE call == ocCalls[c]
<1>1. /\ call \in OcCallTypes /\ ocCalls \in Seq(OcCallTypes) /\ call.op = "list" /\ call.reply # "none"
      /\ CallIsTrue(c) /\ UNCHANGED <<ocEnv, server, seen, idem>>
  BY CallHasType DEF ListTakes, OcAnswersInv
<1>2. call.at = "status"
  BY <1>1 DEF CallIsTrue, CallIsShaped
<1>3. StepOf(c)
  BY <1>1, QuietStep
<1>4. Shown(call) \in OcShows
  <2>1. call.known \in SUBSET Nat
    BY <1>1 DEF OcCallTypes
  <2>2. Shown(call) \in [call.known -> {"idle", "working", "unknown"}]
    BY DEF Shown, classify
  <2> QED
    BY <2>1, <2>2 DEF OcShows
<1> DEFINE a == IF call.reply = "ok" THEN "ok" ELSE "degraded"
<1>5. a \in {"ok", "degraded"} /\ a \in OcAnswers
  BY DEF OcAnswers
<1> DEFINE q == CallAnswered(call, a)
           r == [q EXCEPT !.shown = Shown(call)]
<1>6. CallBecomes(ocCalls, c, r)
  BY DEF ListTakes, CallBecomes
<1> HIDE DEF a
<1>7. /\ q \in OcCallTypes
      /\ q.op = call.op /\ q.id = call.id /\ q.key = call.key /\ q.failed = call.failed
      /\ q.saw = call.saw /\ q.over = call.over
      /\ q.at = "done" /\ q.reply = "none" /\ q.body = {} /\ q.answer = a
  BY <1>1, <1>5, CallAnsweredIs
<1> HIDE DEF q
<1>8. /\ r \in OcCallTypes
      /\ r.op = "list" /\ r.id = call.id /\ r.key = call.key /\ r.failed = call.failed
      /\ r.saw = call.saw /\ r.over = call.over /\ r.shown = Shown(call)
      /\ r.at = "done" /\ r.reply = "none" /\ r.body = {} /\ r.answer = a
  BY <1>1, <1>4, <1>7 DEF OcCallTypes
<1> HIDE DEF r
<1>9. /\ ocCalls'[c] = r /\ OcStarted' = OcStarted /\ server' = server /\ ocEnv' = ocEnv
      /\ \A d \in OcStarted : d # c => ocCalls'[d] = ocCalls[d]
  BY <1>1, <1>6, <1>8, CallBecomesIs DEF OcStarted
<1>10. CallIsShaped(c)' /\ CallSees(c)'
  BY <1>1, <1>8, <1>9 DEF CallIsTrue, CallIsShaped, CallSees, OcIds
<1>11. StateIsRead(c)' /\ SendIsDone(c)' /\ CloseIsDone(c)' /\ CreateIsDone(c)'
  BY <1>5, <1>8, <1>9 DEF StateIsRead, SendIsDone, CloseIsDone, CreateIsDone
<1>12. CallIsTrue(c)'
  BY <1>10, <1>11 DEF CallIsTrue
<1>13. OpencodeTypeOK' /\ OcAnswersInv'
  BY <1>3, <1>6, <1>8, <1>12, RecordKeeps
<1> QED
  BY <1>1, <1>2, <1>5, <1>8, <1>9, <1>13 DEF Keeps, OnItsOwn

(* A key is forgotten.                                                      *)
LEMMA KeyExpiresKeeps ==
  ASSUME OpencodeTypeOK, OcAnswersInv, KeyExpires
  PROVE  /\ OpencodeTypeOK' /\ OcAnswersInv' /\ UNCHANGED <<ocEnv, server, seen, ocCalls>> /\ OcMay("late")
<1>1. PICK k \in OpencodeKeys : idem' = [idem EXCEPT ![k] = 0]
  BY DEF KeyExpires
<1>2. UNCHANGED <<ocEnv, server, seen, ocCalls>> /\ OcMay("late") /\ OcStarted' = OcStarted
  BY DEF KeyExpires, OcStarted
<1>3. /\ idem' \in [OpencodeKeys -> Nat]
      /\ \A x \in OpencodeKeys : idem'[x] = idem[x] \/ idem'[x] = 0
  BY <1>1 DEF OpencodeTypeOK
<1>4. OpencodeTypeOK'
  BY <1>2, <1>3 DEF OpencodeTypeOK
<1>5. KeysAreRight' /\ PromptsAreOfCalls' /\ KnownAreMade'
  BY <1>2, <1>3 DEF OcAnswersInv, KeysAreRight, PromptsAreOfCalls, KnownAreMade
<1>6. ASSUME NEW c \in OcStarted PROVE CallIsTrue(c)'
  BY <1>2 DEF OcAnswersInv, CallIsTrue, CallIsShaped, CallSees, OcIds, StateIsRead, SendIsDone, CloseIsDone, CreateIsDone
<1> QED
  BY <1>2, <1>4, <1>5, <1>6 DEF OcAnswersInv

(* The daemon restarts: the calls under way are cut, and nothing is known.  *)
LEMMA RestartKeeps ==
  ASSUME OpencodeTypeOK, OcAnswersInv, OpencodeRestart
  PROVE  /\ OpencodeTypeOK' /\ OcAnswersInv' /\ UNCHANGED <<ocEnv, server>> /\ OcMay("restart")
         /\ seen' = {} /\ OcStarted' = OcStarted
         /\ \A c \in OcStarted :
               IF Over(c) THEN ocCalls'[c] = ocCalls[c] ELSE MovedTo(c, "done", "cut")
<1>1. /\ UNCHANGED <<ocEnv, server>> /\ OcMay("restart")
      /\ seen' = {} /\ idem' = [k \in OpencodeKeys |-> 0]
      /\ ocCalls' = [c \in OcStarted |-> IF Over(c) THEN ocCalls[c] ELSE CallAnswered(ocCalls[c], "cut")]
  BY DEF OpencodeRestart
<1>2. \A c \in OcStarted : ocCalls[c] \in OcCallTypes
  BY CallHasType
<1>3. ASSUME NEW c \in OcStarted, ~Over(c)
      PROVE  LET old == ocCalls[c]  new == ocCalls'[c] IN
             /\ new \in OcCallTypes /\ new.failed = old.failed /\ MovedTo(c, "done", "cut")
  <2> DEFINE q == ocCalls'[c]
             call == ocCalls[c]
  <2>1. q = CallAnswered(ocCalls[c], "cut") /\ "cut" \in OcAnswers
    BY <1>1, <1>3 DEF OcAnswers
  <2>2. /\ q \in OcCallTypes
        /\ q.op = call.op /\ q.id = call.id /\ q.key = call.key /\ q.failed = call.failed /\ q.shown = call.shown
        /\ q.saw = call.saw /\ q.over = call.over
        /\ q.at = "done" /\ q.reply = "none" /\ q.body = {} /\ q.answer = "cut"
    BY <1>2, <2>1, CallAnsweredIs
  <2> QED
    BY <2>2 DEF MovedTo
<1>4. ASSUME NEW c \in OcStarted, Over(c) PROVE ocCalls'[c] = ocCalls[c]
  BY <1>1, <1>4
<1>5. ocCalls' \in Seq(OcCallTypes) /\ OcStarted' = OcStarted
  <2>1. DOMAIN ocCalls = 1 .. Len(ocCalls) /\ Len(ocCalls) \in Nat
    BY LenProperties DEF OpencodeTypeOK
  <2>2. ocCalls' \in [1 .. Len(ocCalls) -> OcCallTypes]
    <3>1. DOMAIN ocCalls' = 1 .. Len(ocCalls)
      BY <1>1, <2>1 DEF OcStarted
    <3>2. \A c \in OcStarted : ocCalls'[c] \in OcCallTypes
      BY <1>2, <1>3, <1>4
    <3>3. ocCalls' = [c \in 1 .. Len(ocCalls) |-> ocCalls'[c]]
      BY <1>1, <2>1 DEF OcStarted
    <3> QED
      BY <2>1, <3>2, <3>3 DEF OcStarted
  <2> QED
    BY <1>1, <2>1, <2>2, SeqDef DEF OcStarted
<1>6. OpencodeTypeOK'
  BY <1>1, <1>5 DEF OpencodeTypeOK
<1>7. ASSUME NEW c \in OcStarted, Over(c) PROVE CallIsTrue(c)'
  BY <1>1, <1>4, <1>7 DEF OcAnswersInv, CallIsTrue, CallIsShaped, CallSees, OcIds, StateIsRead, SendIsDone, CloseIsDone,
     CreateIsDone
<1>8. ASSUME NEW c \in OcStarted, ~Over(c) PROVE CallIsTrue(c)'
  <2>1. CallIsTrue(c) /\ ocCalls[c].at # "done"
    BY <1>8 DEF OcAnswersInv, Over
  <2>2. MovedTo(c, "done", "cut") /\ ocCalls'[c].failed = ocCalls[c].failed /\ server' = server
    BY <1>1, <1>3, <1>8
  <2>3. CallIsShaped(c)' /\ CallSees(c)'
    BY <1>1, <2>1, <2>2 DEF CallIsTrue, CallIsShaped, CallSees, OcIds, MovedTo
  <2>4. StateIsRead(c)' /\ SendIsDone(c)' /\ CloseIsDone(c)' /\ CreateIsDone(c)'
    BY <2>1, <2>2 DEF CallIsTrue, CallIsShaped, StateIsRead, SendIsDone, CloseIsDone, CreateIsDone, MovedTo
  <2> QED
    BY <2>3, <2>4 DEF CallIsTrue
<1>9. KeysAreRight' /\ PromptsAreOfCalls' /\ KnownAreMade'
  BY <1>1, <1>5 DEF OcAnswersInv, KeysAreRight, PromptsAreOfCalls, KnownAreMade, OcStarted
<1>10. OcAnswersInv'
  BY <1>5, <1>7, <1>8, <1>9 DEF OcAnswersInv
<1> QED
  BY <1>1, <1>3, <1>4, <1>5, <1>6, <1>10

-----------------------------------------------------------------------------
(* At first there are no sessions and no calls.                             *)
LEMMA OpencodeInitHolds ==
  ASSUME OpencodeAssumption, OpencodeInit
  PROVE  OpencodeTypeOK /\ OcAnswersInv
<1>1. /\ ocEnv \in OpencodeEnvironments /\ ocEnv.sessions \in Nat
      /\ server = <<>> /\ seen = {} /\ idem = [k \in OpencodeKeys |-> 0] /\ ocCalls = <<>>
  BY DEF OpencodeInit, OpencodeAssumption
<1>2. DOMAIN server = {} /\ OcStarted = {}
  BY <1>1 DEF OcStarted
<1>3. OpencodeTypeOK
  BY <1>1 DEF OpencodeTypeOK
<1>4. OcAnswersInv
  BY <1>1, <1>2 DEF OcAnswersInv, KeysAreRight, PromptsAreOfCalls, KnownAreMade
<1> QED
  BY <1>3, <1>4

(* Every step keeps the types and what holds of the calls.                  *)
LEMMA OpencodeNextKeeps ==
  ASSUME OpencodeAssumption, OpencodeTypeOK, OcAnswersInv, OpencodeNext
  PROVE  OpencodeTypeOK' /\ OcAnswersInv'
<1>1. CASE TurnMoves \/ DeletedByAnother
  BY <1>1, ServerMovesKeep
<1>2. CASE OpencodeCallStarts
  BY <1>2, CallStartsKeeps
<1>3. ASSUME NEW c \in OcStarted, Starts(c) PROVE OpencodeTypeOK' /\ OcAnswersInv'
  BY <1>3, StartsKeeps DEF Keeps
<1>4. ASSUME NEW c \in OcStarted, Request(c) PROVE OpencodeTypeOK' /\ OcAnswersInv'
  BY <1>4, RequestKeeps
<1>5. ASSUME NEW c \in OcStarted, CreateTakes(c) PROVE OpencodeTypeOK' /\ OcAnswersInv'
  BY <1>5, CreateTakesKeeps DEF Keeps
<1>6. ASSUME NEW c \in OcStarted, SendTakes(c) PROVE OpencodeTypeOK' /\ OcAnswersInv'
  BY <1>6, SendTakesKeeps DEF Keeps
<1>7. ASSUME NEW c \in OcStarted, StateTakes(c) PROVE OpencodeTypeOK' /\ OcAnswersInv'
  BY <1>7, StateTakesKeeps DEF Keeps
<1>8. ASSUME NEW c \in OcStarted, CloseTakes(c) PROVE OpencodeTypeOK' /\ OcAnswersInv'
  BY <1>8, CloseTakesKeeps DEF Keeps
<1>9. ASSUME NEW c \in OcStarted, ListTakes(c) PROVE OpencodeTypeOK' /\ OcAnswersInv'
  BY <1>9, ListTakesKeeps DEF Keeps
<1>10. CASE KeyExpires
  BY <1>10, KeyExpiresKeeps
<1>11. CASE OpencodeRestart
  BY <1>11, RestartKeeps
<1> QED
  BY <1>1, <1>2, <1>3, <1>4, <1>5, <1>6, <1>7, <1>8, <1>9, <1>10, <1>11 DEF OpencodeNext

(* What stays as it is keeps everything.                                    *)
LEMMA OpencodeStutterKeeps ==
  ASSUME OpencodeTypeOK, OcAnswersInv, UNCHANGED ocVars
  PROVE  OpencodeTypeOK' /\ OcAnswersInv'
<1>1. /\ ocEnv' = ocEnv /\ server' = server /\ seen' = seen /\ idem' = idem /\ ocCalls' = ocCalls
      /\ OcStarted' = OcStarted
  BY DEF ocVars, OcStarted
<1>2. OpencodeTypeOK'
  BY <1>1 DEF OpencodeTypeOK
<1>3. ASSUME NEW c \in OcStarted PROVE CallIsTrue(c)'
  BY <1>1 DEF OcAnswersInv, CallIsTrue, CallIsShaped, CallSees, OcIds, StateIsRead, SendIsDone, CloseIsDone, CreateIsDone
<1>4. KeysAreRight' /\ PromptsAreOfCalls' /\ KnownAreMade'
  BY <1>1 DEF OcAnswersInv, KeysAreRight, PromptsAreOfCalls, KnownAreMade
<1> QED
  BY <1>1, <1>2, <1>3, <1>4 DEF OcAnswersInv

(* The variables of OpencodeSessions keep their types, whatever happens to  *)
(* the server, to its answers and to the daemon.                            *)
THEOREM OpencodeTypeCorrect == OpencodeSpec => []OpencodeTypeOK
<1> DEFINE Inv == OpencodeTypeOK /\ OcAnswersInv
<1>1. OpencodeInit => Inv
  BY OpencodeAssumption, OpencodeInitHolds
<1>2. Inv /\ [OpencodeNext]_ocVars => Inv'
  BY OpencodeAssumption, OpencodeNextKeeps, OpencodeStutterKeeps
<1>3. Inv => OpencodeTypeOK
  OBVIOUS
<1> QED
  BY <1>1, <1>2, <1>3, PTL DEF OpencodeSpec

-----------------------------------------------------------------------------
(* Where keys are kept *)

(* Creates under way have different keys, and their key is not remembered.  *)
KeysAreTaken ==
    \A c \in OcStarted : ocCalls[c].op = "create" /\ ocCalls[c].at # "done" =>
       /\ \A d \in OcStarted : ocCalls[d].op = "create" /\ ocCalls[d].at # "done" /\ ocCalls[d].key = ocCalls[c].key => d = c
       /\ ocCalls[c].at # "new" => idem[ocCalls[c].key] = 0

(* A session is the one its key is remembered for, or that of its create.   *)
Making(c, i) ==
    /\ ocCalls[c].op = "create" /\ ocCalls[c].key = server[i].key
    /\ \/ ocCalls[c].at = "post" /\ ocCalls[c].reply = "ok" /\ ocCalls[c].body = {i}
       \/ ocCalls[c].at = "prompt" /\ ocCalls[c].id = i
SessionsHaveTheirKey ==
    \A i \in DOMAIN server : idem[server[i].key] = i \/ \E c \in OcStarted : Making(c, i)

(* A call that is no create keeps the keys as they are.                     *)
LEMMA OthersKeepKeys ==
  ASSUME KeysAreTaken, SessionsHaveTheirKey, NEW c \in OcStarted, OnItsOwn(c), ocCalls[c].op # "create",
         ocCalls'[c].op = ocCalls[c].op, idem' = idem
  PROVE  KeysAreTaken' /\ SessionsHaveTheirKey'
<1>1. KeysAreTaken'
  BY DEF KeysAreTaken, OnItsOwn
<1>2. ASSUME NEW i \in DOMAIN server, NEW d \in OcStarted, Making(d, i) PROVE Making(d, i)'
  <2>1. d # c
    BY <1>2 DEF Making
  <2> QED
    BY <1>2, <2>1 DEF Making, OnItsOwn
<1>3. SessionsHaveTheirKey'
  BY <1>2 DEF SessionsHaveTheirKey, OnItsOwn
<1> QED
  BY <1>1, <1>3

(* What happens to a session changes no key.                                *)
LEMMA ServerMovesKeepKeys ==
  ASSUME OpencodeTypeOK, OcAnswersInv, KeysAreTaken, SessionsHaveTheirKey, TurnMoves \/ DeletedByAnother
  PROVE  KeysAreTaken' /\ SessionsHaveTheirKey'
<1>1. /\ Grows(server, server', 0) /\ UNCHANGED <<ocEnv, seen, idem>> /\ OcStarted' = OcStarted
      /\ DOMAIN server' = DOMAIN server /\ \A c \in OcStarted : Stays(c)
  BY ServerMovesKeep
<1>2. KeysAreTaken'
  BY <1>1 DEF KeysAreTaken, Stays
<1>3. ASSUME NEW i \in DOMAIN server, NEW c \in OcStarted, Making(c, i) PROVE Making(c, i)'
  BY <1>1, <1>3 DEF Making, Stays, Grows
<1>4. SessionsHaveTheirKey'
  BY <1>1, <1>3 DEF SessionsHaveTheirKey, Grows
<1> QED
  BY <1>2, <1>4

(* A create that starts is the only one with its key.                       *)
LEMMA CallStartsKeepsKeys ==
  ASSUME OpencodeAssumption, OpencodeTypeOK, OcAnswersInv, KeysAreTaken, SessionsHaveTheirKey, ~OcMay("twice"),
         OpencodeCallStarts
  PROVE  KeysAreTaken' /\ SessionsHaveTheirKey'
<1>1. PICK n : n = Len(ocCalls) + 1
  OBVIOUS
<1>2. PICK op \in OcOps, i \in 0 .. Len(server), k \in OpencodeKeys :
         /\ UNCHANGED <<ocEnv, server, seen, idem>> /\ OcStarted' = OcStarted \cup {n} /\ n \notin OcStarted
         /\ \A c \in OcStarted : ocCalls'[c] = ocCalls[c]
         /\ \A c \in OcStarted : ~Over(c) => (op = "create" /\ ocCalls[c].op = "create" => ocCalls[c].key # k)
         /\ ocCalls'[n] = OcCall(op, i, k)
  BY <1>1, CallStartsKeeps
<1>3. ocCalls'[n].op = op /\ ocCalls'[n].key = k /\ ocCalls'[n].at = "new"
  BY <1>2 DEF OcCall
<1>4. KeysAreTaken'
  BY <1>2, <1>3 DEF KeysAreTaken, Over
<1>5. ASSUME NEW j \in DOMAIN server, NEW c \in OcStarted, Making(c, j) PROVE Making(c, j)'
  BY <1>2, <1>5 DEF Making
<1>6. SessionsHaveTheirKey'
  BY <1>2, <1>5 DEF SessionsHaveTheirKey
<1> QED
  BY <1>4, <1>6

(* A create goes on to make a session only when its key has none.           *)
LEMMA StartsKeepsKeys ==
  ASSUME OpencodeTypeOK, OcAnswersInv, KeysAreTaken, SessionsHaveTheirKey, NEW c \in OcStarted, Starts(c)
  PROVE  KeysAreTaken' /\ SessionsHaveTheirKey'
<1>1. /\ OnItsOwn(c) /\ UNCHANGED <<seen, idem>> /\ ocCalls[c].at = "new"
      /\ ocCalls'[c].op = ocCalls[c].op
      /\ ocCalls[c].op = "create" => /\ ocCalls'[c].key = ocCalls[c].key
                                     /\ ocCalls'[c].at # "done" => idem[ocCalls[c].key] = 0
  BY StartsKeeps DEF Keeps, Told, MovedTo
<1>2. KeysAreTaken'
  BY <1>1 DEF KeysAreTaken, OnItsOwn
<1>3. ASSUME NEW i \in DOMAIN server, NEW d \in OcStarted, Making(d, i) PROVE Making(d, i)'
  <2>1. d # c
    BY <1>1, <1>3 DEF Making
  <2> QED
    BY <1>1, <1>3, <2>1 DEF Making, OnItsOwn
<1>4. SessionsHaveTheirKey'
  BY <1>1, <1>3 DEF SessionsHaveTheirKey, OnItsOwn
<1> QED
  BY <1>2, <1>4

(* A request makes at most a session of its create.                         *)
LEMMA RequestKeepsKeys ==
  ASSUME OpencodeAssumption, OpencodeTypeOK, OcAnswersInv, KeysAreTaken, SessionsHaveTheirKey, ~OcMay("lost"),
         NEW c \in OcStarted, Request(c)
  PROVE  KeysAreTaken' /\ SessionsHaveTheirKey'
<1>1. /\ UNCHANGED <<ocEnv, seen, idem>> /\ OcStarted' = OcStarted
      /\ ocCalls[c].at \notin {"new", "done"} /\ ocCalls[c].reply = "none"
      /\ Grows(server, server', c)
      /\ (\A d \in OcStarted : d # c => Stays(d)) /\ Asks(c)
      /\ ServedAs(c, server', ocCalls'[c].reply, ocCalls'[c].body) \/ Unanswered(c)
  BY RequestIs
<1>2. KeysAreTaken'
  BY <1>1 DEF KeysAreTaken, Stays, Asks
<1>3. ASSUME NEW i \in DOMAIN server, NEW d \in OcStarted, Making(d, i) PROVE Making(d, i)'
  <2>1. CASE d # c
    BY <1>1, <1>3, <2>1 DEF Making, Stays, Grows
  <2>2. CASE d = c
    BY <1>1, <1>3, <2>2 DEF Making, Asks, Grows
  <2> QED
    BY <2>1, <2>2
<1>4. ASSUME NEW i \in DOMAIN server', i \notin DOMAIN server PROVE Making(c, i)'
  <2>1. server \in Seq(OcSessions) /\ ocCalls[c].key \in OpencodeKeys /\ CallIsTrue(c)
    BY CallHasType DEF OpencodeTypeOK, OcAnswersInv
  <2>2. /\ ocCalls[c].at = "post" /\ server' = Append(server, [is |-> "idle", key |-> ocCalls[c].key, prompts |-> {}])
        /\ ocCalls'[c].reply = "ok" /\ ocCalls'[c].body = {Len(server) + 1}
    BY <1>1, <1>4, <2>1 DEF ServedAs, Unanswered, Changed, MovesOn
  <2>3. /\ DOMAIN server' = DOMAIN server \cup {Len(server) + 1}
        /\ server'[Len(server) + 1] = [is |-> "idle", key |-> ocCalls[c].key, prompts |-> {}]
    BY <2>1, <2>2, SessionMade
  <2>4. i = Len(server) + 1 /\ server'[i].key = ocCalls[c].key /\ ocCalls'[c].body = {i}
    BY <1>4, <2>2, <2>3
  <2>5. ocCalls[c].op = "create"
    <3>1. ocCalls[c].op \in OcOps
      BY CallHasType
    <3> QED
      BY <2>1, <2>2, <3>1 DEF CallIsTrue, CallIsShaped, OcOps
  <2> QED
    BY <1>1, <2>2, <2>4, <2>5 DEF Making, Asks
<1>5. SessionsHaveTheirKey'
  BY <1>1, <1>3, <1>4 DEF SessionsHaveTheirKey, Grows
<1> QED
  BY <1>2, <1>5

(* A create that is answered hands its session to its key.                  *)
LEMMA CreateTakesKeepsKeys ==
  ASSUME OpencodeTypeOK, OcAnswersInv, KeysAreTaken, SessionsHaveTheirKey, NEW c \in OcStarted, CreateTakes(c)
  PROVE  KeysAreTaken' /\ SessionsHaveTheirKey'
<1> DEFINE key == ocCalls[c].key
<1>1. /\ Keeps(c) /\ ocCalls[c].op = "create" /\ ocCalls[c].at \in {"post", "prompt"}
      /\ \/ /\ ocCalls[c].at = "post" /\ ocCalls[c].reply = "ok"
            /\ \E i \in DOMAIN server :
                  /\ ocCalls[c].body = {i} /\ server[i].key = ocCalls[c].key /\ seen' = seen \cup {i}
                  /\ \/ Told(c, i, "prompt", "none") /\ idem' = idem
                     \/ Told(c, i, "done", "created") /\ idem' = [idem EXCEPT ![ocCalls[c].key] = i]
         \/ /\ ocCalls[c].at = "post" /\ ocCalls[c].reply # "ok"
            /\ MovedTo(c, "done", "error") /\ UNCHANGED <<seen, idem>>
         \/ /\ ocCalls[c].at = "prompt" /\ UNCHANGED seen
            /\ idem' = [idem EXCEPT ![ocCalls[c].key] = ocCalls[c].id]
            /\ MovedTo(c, "done", "created") \/ MovedTo(c, "done", "prompt failed")
  BY CreateTakesKeeps
<1>2. /\ key \in OpencodeKeys /\ idem[key] = 0 /\ idem \in [OpencodeKeys -> Nat] /\ OnItsOwn(c)
      /\ \A j \in DOMAIN server : j # 0 /\ server[j].key \in OpencodeKeys
  <2>1. \A j \in DOMAIN server : j # 0 /\ server[j] \in OcSessions
    BY ElementOfSeq, LenProperties DEF OpencodeTypeOK
  <2> QED
    BY <1>1, <2>1, CallHasType DEF KeysAreTaken, OpencodeTypeOK, Keeps, OcSessions
<1> DEFINE Moved ==
             /\ ocCalls'[c].op = "create" /\ ocCalls'[c].key = key
             /\ \/ /\ ocCalls'[c].at = "prompt" /\ idem' = idem
                   /\ \A i \in DOMAIN server : Making(c, i) => ocCalls'[c].id = i
                \/ /\ ocCalls'[c].at = "done"
                   /\ \A i \in DOMAIN server : Making(c, i) => idem'[key] = i
                   /\ \A k \in OpencodeKeys : k # key => idem'[k] = idem[k]
<1>3. Moved
  <2>1. CASE ocCalls[c].at = "post" /\ ocCalls[c].reply = "ok"
    <3>1. PICK i \in DOMAIN server :
             /\ ocCalls[c].body = {i}
             /\ \/ Told(c, i, "prompt", "none") /\ idem' = idem
                \/ Told(c, i, "done", "created") /\ idem' = [idem EXCEPT ![key] = i]
      BY <1>1, <2>1
    <3>2. \A j \in DOMAIN server : Making(c, j) => j = i
      BY <2>1, <3>1 DEF Making
    <3> QED
      BY <1>1, <1>2, <3>1, <3>2 DEF Told
  <2>2. CASE ocCalls[c].at = "post" /\ ocCalls[c].reply # "ok"
    BY <1>1, <2>2 DEF MovedTo, Making
  <2>3. CASE ocCalls[c].at = "prompt"
    <3>1. /\ idem' = [idem EXCEPT ![key] = ocCalls[c].id] /\ ocCalls'[c].op = "create" /\ ocCalls'[c].key = key
          /\ ocCalls'[c].at = "done"
      BY <1>1, <2>3 DEF MovedTo
    <3>2. \A j \in DOMAIN server : Making(c, j) => j = ocCalls[c].id
      BY <2>3 DEF Making
    <3> QED
      BY <1>2, <3>1, <3>2
  <2> QED
    BY <1>1, <2>1, <2>2, <2>3
<1> HIDE DEF key
<1>4. \A d \in OcStarted : d # c /\ ocCalls[d].op = "create" /\ ocCalls[d].at # "done" => ocCalls[d].key # key
  BY <1>1 DEF KeysAreTaken, key
<1>5. \A d \in OcStarted : ocCalls[d].key \in OpencodeKeys
  BY CallHasType
<1>6. KeysAreTaken'
  <2>1. /\ ocCalls'[c].op = "create" /\ ocCalls'[c].key = key /\ idem[key] = 0
        /\ ocCalls'[c].at # "done" => idem' = idem
        /\ \A k \in OpencodeKeys : k # key => idem'[k] = idem[k]
    BY <1>2, <1>3
  <2>2. OcStarted' = OcStarted /\ \A d \in OcStarted : d # c => ocCalls'[d] = ocCalls[d]
    BY <1>2 DEF OnItsOwn
  <2> HIDE DEF Moved
  <2>3. ASSUME NEW e \in OcStarted, ocCalls'[e].op = "create", ocCalls'[e].at # "done"
        PROVE  /\ \A d \in OcStarted : ocCalls'[d].op = "create" /\ ocCalls'[d].at # "done"
                                          /\ ocCalls'[d].key = ocCalls'[e].key => d = e
               /\ ocCalls'[e].at # "new" => idem'[ocCalls'[e].key] = 0
    <3>1. CASE e = c
      BY <1>4, <2>1, <2>2, <2>3, <3>1
    <3>2. CASE e # c
      BY <1>4, <1>5, <2>1, <2>2, <2>3, <3>2 DEF KeysAreTaken
    <3> QED
      BY <3>1, <3>2
  <2> QED
    BY <2>2, <2>3 DEF KeysAreTaken
<1>7. ASSUME NEW i \in DOMAIN server
      PROVE  idem'[server[i].key] = i \/ \E d \in OcStarted : Making(d, i)'
  <2>1. CASE idem[server[i].key] = i
    BY <1>2, <1>3, <2>1
  <2>2. CASE \E d \in OcStarted : d # c /\ Making(d, i)
    BY <1>2, <2>2 DEF Making, OnItsOwn
  <2>3. CASE Making(c, i)
    <3>1. server[i].key = key /\ server' = server
      BY <1>2, <2>3 DEF Making, key, OnItsOwn
    <3> QED
      BY <1>2, <1>3, <2>3, <3>1 DEF Making
  <2> QED
    BY <2>1, <2>2, <2>3 DEF SessionsHaveTheirKey
<1>8. SessionsHaveTheirKey'
  BY <1>2, <1>7 DEF SessionsHaveTheirKey, OnItsOwn
<1> QED
  BY <1>6, <1>8

(* Every step keeps the keys where they are kept.                           *)
LEMMA KeysStayTaken ==
  ASSUME OpencodeAssumption, OpencodeTypeOK, OcAnswersInv, KeysAreTaken, SessionsHaveTheirKey, KeysAreKept,
         [OpencodeNext]_ocVars
  PROVE  KeysAreTaken' /\ SessionsHaveTheirKey'
<1>1. ~OcMay("lost") /\ ~OcMay("twice") /\ ~OcMay("late") /\ ~OcMay("restart")
  BY DEF KeysAreKept, OcMay
<1>2. CASE TurnMoves \/ DeletedByAnother
  BY <1>2, ServerMovesKeepKeys
<1>3. CASE OpencodeCallStarts
  BY <1>1, <1>3, CallStartsKeepsKeys
<1>4. ASSUME NEW c \in OcStarted, Starts(c) PROVE KeysAreTaken' /\ SessionsHaveTheirKey'
  BY <1>4, StartsKeepsKeys
<1>5. ASSUME NEW c \in OcStarted, Request(c) PROVE KeysAreTaken' /\ SessionsHaveTheirKey'
  BY <1>1, <1>5, RequestKeepsKeys
<1>6. ASSUME NEW c \in OcStarted, CreateTakes(c) PROVE KeysAreTaken' /\ SessionsHaveTheirKey'
  BY <1>6, CreateTakesKeepsKeys
<1>7. ASSUME NEW c \in OcStarted, SendTakes(c) \/ StateTakes(c) \/ CloseTakes(c) \/ ListTakes(c)
      PROVE  KeysAreTaken' /\ SessionsHaveTheirKey'
  <2>1. OnItsOwn(c) /\ idem' = idem /\ ocCalls[c].op # "create" /\ ocCalls'[c].op = ocCalls[c].op
    <3>1. CASE SendTakes(c)
      BY <3>1, SendTakesKeeps DEF Keeps, MovedTo
    <3>2. CASE StateTakes(c)
      BY <3>2, StateTakesKeeps DEF Keeps, MovedTo
    <3>3. CASE CloseTakes(c)
      BY <3>3, CloseTakesKeeps DEF Keeps, MovedTo
    <3>4. CASE ListTakes(c)
      BY <3>4, ListTakesKeeps DEF Keeps
    <3> QED
      BY <1>7, <3>1, <3>2, <3>3, <3>4
  <2> QED
    BY <2>1, OthersKeepKeys
<1>8. CASE KeyExpires \/ OpencodeRestart
  BY <1>1, <1>8 DEF KeyExpires, OpencodeRestart
<1>9. CASE UNCHANGED ocVars
  BY <1>9 DEF ocVars, KeysAreTaken, SessionsHaveTheirKey, Making, OcStarted
<1> QED
  BY <1>2, <1>3, <1>4, <1>5, <1>6, <1>7, <1>8, <1>9 DEF OpencodeNext

(* No two sessions have one key.                                            *)
LEMMA KeysAreOfOne ==
  ASSUME OpencodeTypeOK, KeysAreTaken, SessionsHaveTheirKey
  PROVE  OneSessionPerKey
<1>1. \A i \in DOMAIN server : i # 0
  BY LenProperties DEF OpencodeTypeOK
<1>2. ASSUME NEW c \in OcStarted, NEW i, Making(c, i)
      PROVE  ocCalls[c].op = "create" /\ ocCalls[c].at \notin {"new", "done"} /\ idem[server[i].key] = 0
  BY <1>2 DEF Making, KeysAreTaken
<1>3. ASSUME NEW i \in DOMAIN server, NEW j \in DOMAIN server, server[i].key = server[j].key, i # j PROVE FALSE
  <2>1. CASE idem[server[i].key] = i \/ idem[server[j].key] = j
    BY <1>1, <1>2, <1>3, <2>1 DEF SessionsHaveTheirKey
  <2>2. CASE ~(idem[server[i].key] = i \/ idem[server[j].key] = j)
    <3>1. PICK c \in OcStarted, d \in OcStarted : Making(c, i) /\ Making(d, j)
      BY <2>2 DEF SessionsHaveTheirKey
    <3>2. ocCalls[c].key = ocCalls[d].key
      BY <1>3, <3>1 DEF Making
    <3>3. c = d
      BY <1>2, <3>1, <3>2 DEF KeysAreTaken
    <3> QED
      BY <1>3, <3>1, <3>3 DEF Making
  <2> QED
    BY <2>1, <2>2
<1> QED
  BY <1>3 DEF OneSessionPerKey

-----------------------------------------------------------------------------
(* Where the driver is told of every end *)

(* Two calls under way are about different sessions, and a listing is alone.*)
CallsAreApart ==
    \A c, d \in OcStarted : c # d /\ ocCalls[c].at # "done" /\ ocCalls[d].at # "done" =>
       /\ ocCalls[c].op # "list"
       /\ "create" \notin {ocCalls[c].op, ocCalls[d].op} => ocCalls[c].id # ocCalls[d].id

(* A session the driver knows is there, but for one whose end a close is    *)
(* about to be told.                                                        *)
EndIsTold(c, i) ==
    ocCalls[c].op = "close" /\ ocCalls[c].id = i /\ ocCalls[c].at = "delete" /\ ocCalls[c].reply = "ok"
KnownAreThere ==
    \A i \in seen : server[i].is = "gone" => \E c \in OcStarted : EndIsTold(c, i)

(* A call that is past its start is about a session that is known; a        *)
(* session that was closed is not known.                                    *)
CalledAreKnown ==
    \A c \in OcStarted :
       /\ ocCalls[c].op \notin {"create", "list"} /\ ocCalls[c].at \notin {"new", "done"} => ocCalls[c].id \in seen
       /\ ocCalls[c].answer = "closed" => ocCalls[c].id \notin seen

(* A session just made is not known yet, is there, and is of one create.    *)
JustMade(c, i) ==
    ocCalls[c].op = "create" /\ ocCalls[c].at = "post" /\ ocCalls[c].reply = "ok" /\ ocCalls[c].body = {i}
MadeAreNew ==
    \A c \in OcStarted : \A i \in DOMAIN server : JustMade(c, i) =>
       /\ i \notin seen /\ server[i].is # "gone"
       /\ \A d \in OcStarted : JustMade(d, i) => d = c

(* A listing shows what is known, and that was so while it was made.        *)
ListIsRead(c) == LET call == ocCalls[c] IN call.op = "list" =>
    /\ call.at # "done" => \A i \in call.over : \E d \in OcStarted : ocCalls[d].answer = "closed" /\ ocCalls[d].id = i
    /\ call.at = "status" => call.known \subseteq seen
    /\ call.at = "status" /\ call.reply = "ok" => \A i \in call.known :
          IF InBody(call, i) THEN call.saw[i] \cap Busy # {} ELSE call.saw[i] \cap AtRest # {}
    /\ \A i \in DOMAIN call.shown :
          /\ i \in DOMAIN call.saw /\ i \notin call.over
          /\ call.shown[i] = "idle" => call.saw[i] \cap AtRest # {}
          /\ call.shown[i] = "working" => call.saw[i] \cap Busy # {}

OcListsInv ==
    /\ CallsAreApart /\ KnownAreThere /\ CalledAreKnown /\ MadeAreNew
    /\ \A c \in OcStarted : ListIsRead(c)

(* A call that moves by itself keeps this when what it comes to know is     *)
(* there, and what it forgets is its own.                                   *)
SameCall(c) == LET old == ocCalls[c]  new == ocCalls'[c] IN
    /\ new.op = old.op /\ (new.id = old.id \/ old.op = "create")
    /\ new.over = old.over /\ new.saw = old.saw /\ new.reply = "none"
Learns(c) ==
    \/ seen' = seen
    \/ \E i \in DOMAIN server : JustMade(c, i) /\ seen' = seen \cup {i}
    \/ ocCalls[c].op = "close" /\ seen' = seen \ {ocCalls[c].id}

(* Then what is known, and what listings show of it, stay right.            *)
LEMMA OwnMoveKeepsLists ==
  ASSUME OpencodeTypeOK, OcAnswersInv, OcListsInv, NEW c \in OcStarted, ocCalls[c].at # "done", OnItsOwn(c),
         SameCall(c), Learns(c),
         EndIsTold(c, ocCalls[c].id) => ocCalls[c].id \notin seen',
         ocCalls'[c].answer = "closed" => ocCalls'[c].id \notin seen',
         /\ ocCalls'[c].op \notin {"create", "list"} /\ ocCalls'[c].at \notin {"new", "done"}
         => ocCalls'[c].id \in seen',
         ListIsRead(c)'
  PROVE  OcListsInv'
<1>1. /\ server' = server /\ OcStarted' = OcStarted /\ \A d \in OcStarted : d # c => ocCalls'[d] = ocCalls[d]
  BY DEF OnItsOwn
<1>2. CallsAreApart'
  BY <1>1 DEF OcListsInv, CallsAreApart, SameCall
<1>3. /\ \A i \in seen' : i \in seen \/ (i \in DOMAIN server /\ server[i].is # "gone")
      /\ \A i \in seen : i \in seen' \/ (ocCalls[c].op = "close" /\ i = ocCalls[c].id)
      /\ \A i \in seen' : i \in seen \/ JustMade(c, i)
  BY DEF Learns, OcListsInv, MadeAreNew
<1>4. KnownAreThere'
  <2> SUFFICES ASSUME NEW i \in seen', server[i].is = "gone" PROVE \E d \in OcStarted : EndIsTold(d, i)'
    BY <1>1 DEF KnownAreThere
  <2>1. PICK d \in OcStarted : EndIsTold(d, i)
    BY <1>3 DEF OcListsInv, KnownAreThere
  <2>2. d # c
    BY <2>1 DEF EndIsTold
  <2> QED
    BY <1>1, <2>1, <2>2 DEF EndIsTold
<1>5. ASSUME NEW d \in OcStarted, d # c
      PROVE  /\ ocCalls[d].op \notin {"create", "list"} /\ ocCalls[d].at \notin {"new", "done"} => ocCalls[d].id \in seen'
             /\ ocCalls[d].answer = "closed" => ocCalls[d].id \notin seen'
  <2>1. ASSUME ocCalls[d].op \notin {"create", "list"}, ocCalls[d].at \notin {"new", "done"}
        PROVE  ocCalls[d].id \in seen'
    BY <1>3, <1>5, <2>1 DEF OcListsInv, CalledAreKnown, CallsAreApart
  <2>2. ASSUME ocCalls[d].answer = "closed" PROVE ocCalls[d].id \notin seen'
    <3>1. ocCalls[d].id \notin seen
      BY <2>2 DEF OcListsInv, CalledAreKnown
    <3>2. server[ocCalls[d].id].is = "gone"
      BY <2>2 DEF OcAnswersInv, CallIsTrue, CloseIsDone
    <3> QED
      BY <1>3, <3>1, <3>2
  <2> QED
    BY <2>1, <2>2
<1>6. CalledAreKnown'
  BY <1>1, <1>5 DEF CalledAreKnown
<1>7. MadeAreNew'
  <2> SUFFICES ASSUME NEW d \in OcStarted, NEW i \in DOMAIN server, JustMade(d, i)'
               PROVE  /\ i \notin seen' /\ server[i].is # "gone"
                      /\ \A e \in OcStarted : JustMade(e, i)' => e = d
    BY <1>1 DEF MadeAreNew
  <2>1. \A e \in OcStarted : JustMade(e, i)' => e # c /\ JustMade(e, i)
    BY <1>1 DEF JustMade, SameCall
  <2>2. i \notin seen /\ server[i].is # "gone" /\ \A e \in OcStarted : JustMade(e, i) => e = d
    BY <2>1 DEF OcListsInv, MadeAreNew
  <2> QED
    BY <1>3, <2>1, <2>2
<1>8. ASSUME NEW d \in OcStarted, d # c PROVE ListIsRead(d)'
  <2>1. ListIsRead(d) /\ ocCalls'[d] = ocCalls[d] /\ (ocCalls[d].op = "list" => ocCalls[d].at = "done")
    BY <1>1, <1>8 DEF OcListsInv, CallsAreApart
  <2> QED
    BY <2>1 DEF ListIsRead
<1> QED
  BY <1>1, <1>2, <1>4, <1>6, <1>7, <1>8 DEF OcListsInv

(* A listing watches the sessions it is about to show.                      *)
LEMMA KnownAreSeen ==
  ASSUME OpencodeTypeOK, OcAnswersInv, OcListsInv, NEW c \in OcStarted, ocCalls[c].op = "list", ocCalls[c].at = "status"
  PROVE  ocCalls[c].known \subseteq DOMAIN ocCalls[c].saw /\ ocCalls[c].known \subseteq DOMAIN server
<1>1. ocCalls[c].known \subseteq DOMAIN server
  BY DEF OcListsInv, ListIsRead, OcAnswersInv, KnownAreMade
<1>2. DOMAIN server \subseteq OcIds
  <2>1. DOMAIN server = 1 .. Len(server) /\ Len(server) \in Nat /\ Len(server) <= ocEnv.sessions /\ ocEnv.sessions \in Nat
    BY OpencodeAssumption, LenProperties DEF OpencodeTypeOK, OpencodeAssumption
  <2> QED
    BY <2>1 DEF OcIds
<1>3. DOMAIN ocCalls[c].saw = OcIds
  BY DEF OcAnswersInv, CallIsTrue, CallSees
<1> QED
  BY <1>1, <1>2, <1>3

(* A listing keeps what it has read while others move.                      *)
LEMMA WatchedListIsRead ==
  ASSUME OpencodeTypeOK, OcAnswersInv, OcListsInv, NEW c \in OcStarted, OcStarted' = OcStarted, seen' = seen,
         Stays(c), \A d \in OcStarted : ocCalls'[d].answer = ocCalls[d].answer /\ ocCalls'[d].id = ocCalls[d].id
  PROVE  ListIsRead(c)'
<1> SUFFICES ASSUME ocCalls[c].op = "list" PROVE ListIsRead(c)'
  BY DEF ListIsRead, Stays
<1>1. ListIsRead(c) /\ ocCalls[c].op = "list"
  BY DEF OcListsInv
<1>2. \A i : \A S : ocCalls[c].saw[i] \cap S # {} /\ i \in DOMAIN ocCalls[c].saw => ocCalls'[c].saw[i] \cap S # {}
  BY DEF Stays, Sees
<1>3. ocCalls[c].at = "status" => ocCalls[c].known \subseteq DOMAIN ocCalls[c].saw
  BY <1>1, KnownAreSeen
<1> DEFINE old == ocCalls[c]
           new == ocCalls'[c]
<1>4. /\ new.op = "list" /\ new.at = old.at /\ new.reply = old.reply /\ new.body = old.body
      /\ new.known = old.known /\ new.over = old.over /\ new.shown = old.shown /\ DOMAIN new.saw = DOMAIN old.saw
  BY DEF Stays, Sees
<1>5. \A i : InBody(new, i) = InBody(old, i)
  BY <1>4 DEF InBody
<1>6. new.at # "done" => \A i \in new.over : \E d \in OcStarted : ocCalls'[d].answer = "closed" /\ ocCalls'[d].id = i
  BY <1>1, <1>4 DEF ListIsRead
<1>7. new.at = "status" /\ new.reply = "ok" => \A i \in new.known :
         IF InBody(new, i) THEN new.saw[i] \cap Busy # {} ELSE new.saw[i] \cap AtRest # {}
  BY <1>1, <1>2, <1>3, <1>4, <1>5 DEF ListIsRead
<1>8. \A i \in DOMAIN new.shown :
         /\ i \in DOMAIN new.saw /\ i \notin new.over
         /\ new.shown[i] = "idle" => new.saw[i] \cap AtRest # {}
         /\ new.shown[i] = "working" => new.saw[i] \cap Busy # {}
  BY <1>1, <1>2, <1>4 DEF ListIsRead
<1>9. new.at = "status" => new.known \subseteq seen'
  BY <1>1, <1>4 DEF ListIsRead
<1> HIDE DEF old, new
<1> QED
  BY <1>4, <1>6, <1>7, <1>8, <1>9 DEF ListIsRead, old, new

(* A turn ends no session.                                                  *)
LEMMA TurnsKeepLists ==
  ASSUME OpencodeTypeOK, OcAnswersInv, OcListsInv, TurnMoves, ~OcMay("other")
  PROVE  OcListsInv'
<1>1. /\ Grows(server, server', 0) /\ UNCHANGED <<ocEnv, seen, idem>> /\ OcStarted' = OcStarted
      /\ DOMAIN server' = DOMAIN server /\ (\A c \in OcStarted : Stays(c))
      /\ \A i \in DOMAIN server : server'[i].is = "gone" => server[i].is = "gone"
  BY ServerMovesKeep DEF DeletedByAnother
<1>2. CallsAreApart'
  BY <1>1 DEF OcListsInv, CallsAreApart, Stays
<1>3. KnownAreThere'
  <2>1. seen \subseteq DOMAIN server
    BY DEF OcAnswersInv, KnownAreMade
  <2> QED
    BY <1>1, <2>1 DEF OcListsInv, KnownAreThere, EndIsTold, Stays
<1>4. CalledAreKnown'
  BY <1>1 DEF OcListsInv, CalledAreKnown, Stays
<1>5. MadeAreNew'
  <2>1. \A c \in OcStarted : \A i : JustMade(c, i)' => JustMade(c, i)
    BY <1>1 DEF JustMade, Stays
  <2> QED
    BY <1>1, <2>1 DEF OcListsInv, MadeAreNew
<1>6. ASSUME NEW c \in OcStarted PROVE ListIsRead(c)'
  <2>1. Stays(c) /\ \A d \in OcStarted : ocCalls'[d].answer = ocCalls[d].answer /\ ocCalls'[d].id = ocCalls[d].id
    BY <1>1 DEF Stays
  <2> QED
    BY <1>1, <2>1, WatchedListIsRead
<1> QED
  BY <1>1, <1>2, <1>3, <1>4, <1>5, <1>6 DEF OcListsInv

(* A call starts when no other is about its session.                        *)
LEMMA CallStartsKeepsLists ==
  ASSUME OpencodeAssumption, OpencodeTypeOK, OcAnswersInv, OcListsInv, ~OcMay("meanwhile"), OpencodeCallStarts
  PROVE  OcListsInv'
<1>1. PICK n : n = Len(ocCalls) + 1
  OBVIOUS
<1>2. PICK op \in OcOps, i \in 0 .. Len(server), k \in OpencodeKeys :
         /\ UNCHANGED <<ocEnv, server, seen, idem>> /\ OcStarted' = OcStarted \cup {n} /\ n \notin OcStarted
         /\ \A c \in OcStarted : ocCalls'[c] = ocCalls[c]
         /\ \A c \in OcStarted : ~Over(c) /\ ~(op = "create" /\ ocCalls[c].op = "create") =>
               ocCalls[c].id # i /\ op # "list" /\ ocCalls[c].op # "list"
         /\ ocCalls'[n] = OcCall(op, i, k)
  BY <1>1, CallStartsKeeps
<1>3. /\ ocCalls'[n].op = op /\ ocCalls'[n].id = i /\ ocCalls'[n].at = "new" /\ ocCalls'[n].answer = "none"
      /\ DOMAIN ocCalls'[n].shown = {}
      /\ op = "list" => ocCalls'[n].over = {ocCalls[d].id : d \in {e \in OcStarted : ocCalls[e].answer = "closed"}}
  <2>1. DOMAIN <<>> = {}
    OBVIOUS
  <2> QED
    BY <1>2, <2>1 DEF OcCall
<1>4. CallsAreApart'
  BY <1>2, <1>3 DEF OcListsInv, CallsAreApart, Over
<1>5. KnownAreThere'
  BY <1>2 DEF OcListsInv, KnownAreThere, EndIsTold
<1>6. CalledAreKnown'
  BY <1>2, <1>3 DEF OcListsInv, CalledAreKnown
<1>7. MadeAreNew'
  <2>1. \A c \in OcStarted' : \A j : JustMade(c, j)' => c \in OcStarted /\ JustMade(c, j)
    BY <1>2, <1>3 DEF JustMade
  <2> QED
    BY <1>2, <2>1 DEF OcListsInv, MadeAreNew
<1>8. ASSUME NEW c \in OcStarted PROVE ListIsRead(c)'
  <2>1. ListIsRead(c) /\ ocCalls'[c] = ocCalls[c] /\ \A d \in OcStarted : d \in OcStarted' /\ ocCalls'[d] = ocCalls[d]
    BY <1>2 DEF OcListsInv
  <2> QED
    BY <1>2, <2>1 DEF ListIsRead
<1>9. ListIsRead(n)'
  <2> SUFFICES ASSUME op = "list" PROVE ListIsRead(n)'
    BY <1>3 DEF ListIsRead
  <2>1. \A j \in ocCalls'[n].over : \E d \in OcStarted' : ocCalls'[d].answer = "closed" /\ ocCalls'[d].id = j
    BY <1>2, <1>3
  <2> QED
    BY <1>3, <2>1 DEF ListIsRead
<1> QED
  BY <1>2, <1>4, <1>5, <1>6, <1>7, <1>8, <1>9 DEF OcListsInv

(* A listing takes what is known; the others only know that too.            *)
LEMMA StartsKeepsLists ==
  ASSUME OpencodeTypeOK, OcAnswersInv, OcListsInv, NEW c \in OcStarted, Starts(c)
  PROVE  OcListsInv'
<1>1. /\ Keeps(c) /\ UNCHANGED <<seen, idem>> /\ ocCalls[c].at = "new"
      /\ \/ ocCalls[c].op = "create" /\ Told(c, idem[ocCalls[c].key], "done", "created")
         \/ ocCalls[c].op = "create" /\ idem[ocCalls[c].key] = 0 /\ MovedTo(c, "post", "none")
         \/ ocCalls[c].op = "list" /\ MovedTo(c, "status", "none") /\ ocCalls'[c].known = seen
         \/ ocCalls[c].op \notin {"create", "list"} /\ MovedTo(c, "done", "no such session")
         \/ /\ ocCalls[c].op \notin {"create", "list"} /\ ocCalls[c].id \in seen
            /\ \E at \in {"prompt", "status", "abort", "get"} : MovedTo(c, at, "none")
  BY StartsKeeps
<1>2. SameCall(c) /\ Learns(c) /\ OnItsOwn(c)
  BY <1>1 DEF SameCall, Learns, Told, MovedTo, Keeps
<1>3. ocCalls'[c].answer # "closed" /\ ~EndIsTold(c, ocCalls[c].id)
  BY <1>1 DEF Told, MovedTo, EndIsTold
<1>4. ocCalls'[c].op \notin {"create", "list"} /\ ocCalls'[c].at \notin {"new", "done"} => ocCalls'[c].id \in seen'
  BY <1>1 DEF Told, MovedTo
<1>5. ListIsRead(c)'
  <2> SUFFICES ASSUME ocCalls[c].op = "list" PROVE ListIsRead(c)'
    BY <1>2 DEF ListIsRead, SameCall
  <2>1. MovedTo(c, "status", "none") /\ ocCalls'[c].known = seen'
    BY <1>1
  <2>2. DOMAIN ocCalls[c].shown = {}
    BY <1>1 DEF OcAnswersInv, CallIsTrue, CallIsShaped
  <2>3. \A i \in ocCalls[c].over : \E d \in OcStarted : ocCalls'[d].answer = "closed" /\ ocCalls'[d].id = i
    <3>1. ocCalls[c].answer = "none" /\ \A d \in OcStarted : d # c => ocCalls'[d] = ocCalls[d]
      BY <1>1, <1>2 DEF OnItsOwn, OcAnswersInv, CallIsTrue, CallIsShaped
    <3> QED
      BY <1>1, <3>1 DEF OcListsInv, ListIsRead
  <2> QED
    BY <1>2, <2>1, <2>2, <2>3 DEF ListIsRead, MovedTo, OnItsOwn
<1> QED
  BY <1>1, <1>2, <1>3, <1>4, <1>5, OwnMoveKeepsLists

(* A call that is not a listing has nothing to read.                        *)
LEMMA NoListIsRead ==
  ASSUME NEW c, ocCalls[c].op # "list", SameCall(c)
  PROVE  ListIsRead(c)'
BY DEF ListIsRead, SameCall

(* The session a create is told of is new, and is there.                    *)
LEMMA CreateTakesKeepsLists ==
  ASSUME OpencodeTypeOK, OcAnswersInv, OcListsInv, NEW c \in OcStarted, CreateTakes(c)
  PROVE  OcListsInv'
<1>1. /\ Keeps(c) /\ ocCalls[c].op = "create" /\ ocCalls[c].at \in {"post", "prompt"}
      /\ \/ /\ ocCalls[c].at = "post" /\ ocCalls[c].reply = "ok"
            /\ \E i \in DOMAIN server :
                  /\ ocCalls[c].body = {i} /\ server[i].key = ocCalls[c].key /\ seen' = seen \cup {i}
                  /\ \/ Told(c, i, "prompt", "none") /\ idem' = idem
                     \/ Told(c, i, "done", "created") /\ idem' = [idem EXCEPT ![ocCalls[c].key] = i]
         \/ /\ ocCalls[c].at = "post" /\ ocCalls[c].reply # "ok"
            /\ MovedTo(c, "done", "error") /\ UNCHANGED <<seen, idem>>
         \/ /\ ocCalls[c].at = "prompt" /\ UNCHANGED seen
            /\ idem' = [idem EXCEPT ![ocCalls[c].key] = ocCalls[c].id]
            /\ MovedTo(c, "done", "created") \/ MovedTo(c, "done", "prompt failed")
  BY CreateTakesKeeps
<1>2. SameCall(c) /\ OnItsOwn(c) /\ ocCalls'[c].answer # "closed" /\ ocCalls'[c].op = "create"
  BY <1>1 DEF SameCall, Told, MovedTo, Keeps
<1>3. Learns(c)
  BY <1>1 DEF Learns, JustMade
<1>4. ListIsRead(c)' /\ ~EndIsTold(c, ocCalls[c].id)
  BY <1>1, <1>2, NoListIsRead DEF EndIsTold
<1> QED
  BY <1>1, <1>2, <1>3, <1>4, OwnMoveKeepsLists

(* A send learns nothing of what is there.                                  *)
LEMMA SendTakesKeepsLists ==
  ASSUME OpencodeTypeOK, OcAnswersInv, OcListsInv, NEW c \in OcStarted, SendTakes(c)
  PROVE  OcListsInv'
<1>1. /\ Keeps(c) /\ UNCHANGED <<seen, idem>> /\ ocCalls[c].op \in {"send", "interrupt"}
      /\ \E a \in {"no such session", "queued", "error"} : MovedTo(c, "done", a)
  BY SendTakesKeeps
<1>2. ocCalls[c].at # "done"
  BY DEF SendTakes, OcAnswersInv, CallIsTrue, CallIsShaped
<1>3. SameCall(c) /\ OnItsOwn(c) /\ ocCalls'[c].answer # "closed" /\ ocCalls'[c].at = "done" /\ Learns(c)
  BY <1>1 DEF SameCall, MovedTo, Keeps, Learns
<1>4. ListIsRead(c)' /\ ~EndIsTold(c, ocCalls[c].id)
  BY <1>1, <1>3, NoListIsRead DEF EndIsTold
<1> QED
  BY <1>2, <1>3, <1>4, OwnMoveKeepsLists

(* A state that found its session knew it before.                           *)
LEMMA StateTakesKeepsLists ==
  ASSUME OpencodeTypeOK, OcAnswersInv, OcListsInv, NEW c \in OcStarted, StateTakes(c)
  PROVE  OcListsInv'
<1>1. /\ Keeps(c) /\ UNCHANGED idem /\ ocCalls[c].op = "state" /\ ocCalls[c].at \notin {"new", "done"}
      /\ seen' = seen \/ seen' = seen \cup {ocCalls[c].id}
      /\ \/ \E a \in {"error", "dead", "working", "idle"} : MovedTo(c, "done", a)
         \/ \E at \in {"get", "message"} : MovedTo(c, at, "none")
  BY StateTakesKeeps
<1>2. ocCalls[c].id \in seen /\ seen' = seen
  BY <1>1 DEF OcListsInv, CalledAreKnown
<1>3. SameCall(c) /\ OnItsOwn(c) /\ ocCalls'[c].answer # "closed" /\ ocCalls'[c].id \in seen' /\ Learns(c)
  BY <1>1, <1>2 DEF SameCall, MovedTo, Keeps, Learns
<1>4. ListIsRead(c)' /\ ~EndIsTold(c, ocCalls[c].id)
  BY <1>1, <1>3, NoListIsRead DEF EndIsTold
<1> QED
  BY <1>1, <1>3, <1>4, OwnMoveKeepsLists

(* A close forgets its session when it is told of the end of it.            *)
LEMMA CloseTakesKeepsLists ==
  ASSUME OpencodeTypeOK, OcAnswersInv, OcListsInv, NEW c \in OcStarted, CloseTakes(c)
  PROVE  OcListsInv'
<1>1. /\ Keeps(c) /\ UNCHANGED idem /\ ocCalls[c].op = "close" /\ ocCalls[c].at \notin {"new", "done"}
      /\ \/ /\ ocCalls[c].reply = "404" /\ seen' = seen \ {ocCalls[c].id}
            /\ MovedTo(c, "done", "no such session")
         \/ /\ ocCalls[c].at = "delete" /\ ocCalls[c].reply = "ok" /\ seen' = seen \ {ocCalls[c].id}
            /\ MovedTo(c, "done", "closed")
         \/ ocCalls[c].at = "get" /\ seen' = seen /\ MovedTo(c, "delete", "none")
         \/ /\ ocCalls[c].at \in {"get", "delete"} /\ ocCalls[c].reply = "unreachable" /\ seen' = seen
            /\ MovedTo(c, "done", "error")
  BY CloseTakesKeeps
<1>2. ocCalls[c].id \in seen
  BY <1>1 DEF OcListsInv, CalledAreKnown
<1>3. SameCall(c) /\ OnItsOwn(c) /\ Learns(c)
  BY <1>1 DEF SameCall, MovedTo, Keeps, Learns
<1>4. /\ EndIsTold(c, ocCalls[c].id) => ocCalls[c].id \notin seen'
      /\ ocCalls'[c].answer = "closed" => ocCalls'[c].id \notin seen'
      /\ ocCalls'[c].at \notin {"new", "done"} => ocCalls'[c].id \in seen'
  BY <1>1, <1>2 DEF EndIsTold, MovedTo
<1>5. ListIsRead(c)'
  BY <1>1, <1>3, NoListIsRead
<1> QED
  BY <1>1, <1>3, <1>4, <1>5, OwnMoveKeepsLists

(* A listing that is answered shows what it read.                           *)
LEMMA ListTakesKeepsLists ==
  ASSUME OpencodeTypeOK, OcAnswersInv, OcListsInv, NEW c \in OcStarted, ListTakes(c)
  PROVE  OcListsInv'
<1> DEFINE old == ocCalls[c]
           new == ocCalls'[c]
<1>1. /\ Keeps(c) /\ UNCHANGED <<seen, idem>> /\ old.op = "list" /\ old.at = "status"
      /\ new.op = old.op /\ new.id = old.id /\ new.key = old.key /\ new.saw = old.saw /\ new.over = old.over
      /\ new.at = "done" /\ new.reply = "none" /\ new.answer \in {"ok", "degraded"}
      /\ new.shown = Shown(old)
  BY ListTakesKeeps
<1>2. SameCall(c) /\ OnItsOwn(c) /\ Learns(c) /\ new.answer # "closed" /\ ~EndIsTold(c, old.id)
  BY <1>1 DEF SameCall, Keeps, Learns, EndIsTold
<1>3. ListIsRead(c)
  BY DEF OcListsInv
<1>4. ASSUME NEW i \in old.known
      PROVE  /\ i \in DOMAIN old.saw /\ i \notin old.over
             /\ Shown(old)[i] = "idle" => old.saw[i] \cap AtRest # {}
             /\ Shown(old)[i] = "working" => old.saw[i] \cap Busy # {}
  <2>1. i \in seen
    BY <1>1, <1>3 DEF ListIsRead
  <2>2. i \notin old.over
    BY <1>1, <1>3, <2>1 DEF ListIsRead, OcListsInv, CalledAreKnown
  <2>3. Shown(old)[i] = IF old.reply # "ok" THEN "unknown" ELSE classify(old.body, i)
    BY <1>4 DEF Shown
  <2>4. classify(old.body, i) = IF InBody(old, i) THEN "working" ELSE "idle"
    BY DEF classify, InBody
  <2>5. i \in DOMAIN old.saw
    BY <1>1, <1>4, KnownAreSeen
  <2> QED
    BY <1>1, <1>3, <1>4, <2>2, <2>3, <2>4, <2>5 DEF ListIsRead
<1>5. ListIsRead(c)'
  <2>1. DOMAIN new.shown = old.known
    BY <1>1 DEF Shown
  <2> QED
    BY <1>1, <1>4, <2>1 DEF ListIsRead
<1> QED
  BY <1>1, <1>2, <1>5, OwnMoveKeepsLists

(* A request is made of a session that is known, and its answer is read.    *)
LEMMA RequestKeepsLists ==
  ASSUME OpencodeAssumption, OpencodeTypeOK, OcAnswersInv, OcListsInv, ~OcMay("lost"), NEW c \in OcStarted, Request(c)
  PROVE  OcListsInv'
<1> DEFINE old == ocCalls[c]
           new == ocCalls'[c]
<1>1. /\ UNCHANGED <<ocEnv, seen, idem>> /\ OcStarted' = OcStarted
      /\ old.at \notin {"new", "done"} /\ old.reply = "none"
      /\ Grows(server, server', c)
      /\ (\A d \in OcStarted : d # c => Stays(d)) /\ Asks(c)
      /\ ServedAs(c, server', new.reply, new.body) \/ Unanswered(c)
  BY RequestIs
<1>2. /\ CallIsTrue(c) /\ old.op \in OcOps /\ server \in Seq(OcSessions) /\ old.key \in OpencodeKeys
      /\ seen \subseteq DOMAIN server
      /\ \A i \in DOMAIN server : server[i] \in OcSessions
  BY CallHasType, ElementOfSeq, LenProperties DEF OcAnswersInv, OpencodeTypeOK, KnownAreMade
<1>3. \A d \in OcStarted : /\ ocCalls'[d].op = ocCalls[d].op /\ ocCalls'[d].id = ocCalls[d].id
                           /\ ocCalls'[d].at = ocCalls[d].at /\ ocCalls'[d].answer = ocCalls[d].answer
  BY <1>1 DEF Stays, Asks
(* What it changes: the end of the session of a close, or a new session.    *)
<1>4. /\ \A i \in DOMAIN server : server'[i].is = "gone" => server[i].is = "gone" \/ EndIsTold(c, i)'
      /\ \A i \in DOMAIN server' : i \notin DOMAIN server => server'[i].is # "gone" /\ JustMade(c, i)'
      /\ \A i : JustMade(c, i)' => i \in DOMAIN server' /\ i \notin DOMAIN server
  <2>1. CASE server' = server /\ old.at # "post"
    BY <1>3, <2>1 DEF JustMade
  <2>2. CASE /\ old.at = "post" /\ server' = Append(server, [is |-> "idle", key |-> old.key, prompts |-> {}])
             /\ new.reply = "ok" /\ new.body = {Len(server) + 1}
    <3>1. /\ DOMAIN server' = DOMAIN server \cup {Len(server) + 1} /\ Len(server) + 1 \notin DOMAIN server
          /\ server'[Len(server) + 1] = [is |-> "idle", key |-> old.key, prompts |-> {}]
          /\ \A j \in DOMAIN server : server'[j] = server[j]
      BY <1>2, <2>2, SessionMade
    <3>2. old.op = "create"
      BY <1>2, <2>2 DEF CallIsTrue, CallIsShaped, OcOps
    <3>3. \A i : JustMade(c, i)' <=> i = Len(server) + 1
      BY <1>3, <2>2, <3>2 DEF JustMade
    <3> QED
      BY <3>1, <3>3
  <2>3. CASE old.at = "post" /\ server' = server /\ new.reply # "ok"
    BY <2>3 DEF JustMade
  <2>4. CASE old.at = "prompt" /\ Exists(old.id) /\ Changed(server, old.id, Prompted(server[old.id], c), server')
    <3>1. /\ DOMAIN server' = DOMAIN server /\ \A j \in DOMAIN server : j # old.id => server'[j] = server[j]
      BY <1>2, <2>4 DEF Changed
    <3>2. server'[old.id].is = "busy"
      BY <1>2, <2>4 DEF Changed, Exists, Prompted, OcSessions
    <3> QED
      BY <1>3, <2>4, <3>1, <3>2 DEF JustMade
  <2>5. CASE /\ old.at = "abort" /\ Exists(old.id)
             /\ MovesOn(server, old.id, IF server[old.id].is \in Busy THEN "idle" ELSE server[old.id].is, server')
    <3>1. PICK x : x = (IF server[old.id].is \in Busy THEN "idle" ELSE server[old.id].is)
      OBVIOUS
    <3>2. server' = [server EXCEPT ![old.id].is = x] /\ old.id \in DOMAIN server /\ x # "gone"
      BY <2>5, <3>1 DEF MovesOn, Exists
    <3>3. /\ DOMAIN server' = DOMAIN server /\ \A j \in DOMAIN server : j # old.id => server'[j] = server[j]
          /\ server'[old.id] = [server[old.id] EXCEPT !.is = x]
      BY <1>2, <3>2
    <3>4. server'[old.id].is = x
      BY <1>2, <3>2, <3>3 DEF OcSessions
    <3> QED
      BY <1>3, <2>5, <3>2, <3>3, <3>4 DEF JustMade
  <2>6. CASE old.at = "delete" /\ new.reply = "ok" /\ Exists(old.id) /\ MovesOn(server, old.id, "gone", server')
    <3>1. /\ DOMAIN server' = DOMAIN server /\ \A j \in DOMAIN server : j # old.id => server'[j] = server[j]
      BY <1>2, <2>6 DEF MovesOn
    <3>2. old.op = "close"
      BY <1>2, <2>6 DEF CallIsTrue, CallIsShaped, OcOps
    <3>3. EndIsTold(c, old.id)'
      BY <1>3, <2>6, <3>2 DEF EndIsTold
    <3> QED
      BY <1>3, <2>6, <3>1, <3>3 DEF JustMade
  <2> QED
    BY <1>1, <2>1, <2>2, <2>3, <2>4, <2>5, <2>6 DEF ServedAs, Unanswered
<1>5. \A d \in OcStarted : \A i : d # c => (JustMade(d, i)' <=> JustMade(d, i)) /\ (EndIsTold(d, i)' <=> EndIsTold(d, i))
  BY <1>1 DEF Stays, JustMade, EndIsTold
<1>6. \A i : ~JustMade(c, i) /\ ~EndIsTold(c, i)
  BY <1>1 DEF JustMade, EndIsTold
<1>7. CallsAreApart'
  BY <1>1, <1>3 DEF OcListsInv, CallsAreApart
<1>8. KnownAreThere'
  BY <1>1, <1>2, <1>4, <1>5, <1>6 DEF OcListsInv, KnownAreThere
<1>9. CalledAreKnown'
  BY <1>1, <1>3 DEF OcListsInv, CalledAreKnown
<1>10. MadeAreNew'
  <2>1. ASSUME NEW d \in OcStarted, NEW i, JustMade(d, i) PROVE i \in DOMAIN server
    <3>1. CreateIsDone(d)
      BY DEF OcAnswersInv, CallIsTrue
    <3> QED
      BY <2>1, <3>1 DEF JustMade, CreateIsDone
  <2>2. \A i \in DOMAIN server : EndIsTold(c, i)' => i \in seen
    BY <1>1, <1>3 DEF EndIsTold, OcListsInv, CalledAreKnown
  <2>3. ASSUME NEW d \in OcStarted, NEW i \in DOMAIN server', JustMade(d, i)'
        PROVE  /\ i \notin seen /\ server'[i].is # "gone"
               /\ \A e \in OcStarted : JustMade(e, i)' => e = d
    <3>1. CASE d = c
      BY <1>2, <1>4, <1>5, <2>1, <2>3, <3>1
    <3>2. CASE d # c
      <4>1. JustMade(d, i) /\ i \in DOMAIN server
        BY <1>5, <2>1, <2>3, <3>2
      <4>2. i \notin seen /\ server[i].is # "gone" /\ \A e \in OcStarted : JustMade(e, i) => e = d
        BY <4>1 DEF OcListsInv, MadeAreNew
      <4> QED
        BY <1>4, <1>5, <2>2, <4>1, <4>2
    <3> QED
      BY <3>1, <3>2
  <2> QED
    BY <1>1, <2>3 DEF MadeAreNew
<1>11. ASSUME NEW d \in OcStarted, d # c PROVE ListIsRead(d)'
  <2>1. Stays(d)
    BY <1>1, <1>11
  <2> QED
    BY <1>1, <1>3, <2>1, WatchedListIsRead
<1>12. ListIsRead(c)'
  <2> SUFFICES ASSUME old.op = "list" PROVE ListIsRead(c)'
    BY <1>3 DEF ListIsRead
  <2>1. ListIsRead(c) /\ old.at = "status" /\ old.known \subseteq DOMAIN old.saw /\ old.known \subseteq DOMAIN server
    <3>1. old.at = "status"
      BY <1>1, <1>2 DEF CallIsTrue, CallIsShaped
    <3> QED
      BY <3>1, KnownAreSeen DEF OcListsInv
  <2>2. /\ new.op = "list" /\ new.at = "status" /\ new.known = old.known /\ new.over = old.over
        /\ DOMAIN new.shown = {} /\ \A i \in old.known : server'[i].is \in new.saw[i]
    <3>1. DOMAIN old.shown = {}
      BY <1>2, <2>1 DEF CallIsTrue, CallIsShaped
    <3>2. \A i \in old.known : i \in DOMAIN server'
      BY <1>1, <2>1 DEF Grows
    <3> QED
      BY <1>1, <2>1, <3>1, <3>2 DEF Asks, Was
  <2>3. ASSUME new.reply = "ok", NEW i \in old.known
        PROVE  IF InBody(new, i) THEN new.saw[i] \cap Busy # {} ELSE new.saw[i] \cap AtRest # {}
    <3>1. /\ server' = server
          /\ new.body = {<<j, server[j].is>> : j \in {k \in DOMAIN server : server[k].is \in Busy}}
      BY <1>1, <2>1, <2>3 DEF ServedAs, Unanswered
    <3>2. i \in DOMAIN server /\ server[i].is \in new.saw[i] /\ server[i].is \in SessionStates
      BY <1>2, <2>1, <2>2, <2>3, <3>1 DEF OcSessions
    <3>3. server[i].is # "gone"
      <4>1. i \in seen
        BY <2>1, <2>3 DEF ListIsRead
      <4>2. \A d \in OcStarted : ~EndIsTold(d, i)
        BY <1>1, <1>6, <2>1 DEF EndIsTold, OcListsInv, CallsAreApart
      <4> QED
        BY <4>1, <4>2 DEF OcListsInv, KnownAreThere
    <3>4. CASE InBody(new, i)
      <4>1. server[i].is \in Busy
        BY <3>1, <3>4 DEF InBody
      <4> QED
        BY <3>2, <3>4, <4>1
    <3>5. CASE ~InBody(new, i)
      <4>1. server[i].is \notin Busy
        BY <3>1, <3>2, <3>5 DEF InBody
      <4>2. server[i].is \in AtRest
        BY <3>2, <3>3, <4>1 DEF SessionStates, AtRest
      <4> QED
        BY <3>2, <3>5, <4>2
    <3> QED
      BY <3>4, <3>5
  <2> QED
    BY <1>1, <1>3, <2>1, <2>2, <2>3 DEF ListIsRead
<1> QED
  BY <1>1, <1>7, <1>8, <1>9, <1>10, <1>11, <1>12 DEF OcListsInv

(* After a restart nothing is known, and no call is under way.              *)
LEMMA RestartKeepsLists ==
  ASSUME OpencodeTypeOK, OcAnswersInv, OcListsInv, OpencodeRestart
  PROVE  OcListsInv'
<1>1. /\ UNCHANGED <<ocEnv, server>> /\ seen' = {} /\ OcStarted' = OcStarted
      /\ \A c \in OcStarted : IF Over(c) THEN ocCalls'[c] = ocCalls[c] ELSE MovedTo(c, "done", "cut")
  BY RestartKeeps
<1>2. \A c \in OcStarted : ocCalls'[c].at = "done"
  BY <1>1 DEF Over, MovedTo
<1>3. CallsAreApart' /\ KnownAreThere' /\ CalledAreKnown' /\ MadeAreNew'
  BY <1>1, <1>2 DEF CallsAreApart, KnownAreThere, CalledAreKnown, MadeAreNew, JustMade
<1>4. ASSUME NEW c \in OcStarted PROVE ListIsRead(c)'
  <2>1. CASE Over(c)
    BY <1>1, <1>2, <2>1 DEF OcListsInv, ListIsRead
  <2>2. CASE ~Over(c)
    <3>1. DOMAIN ocCalls'[c].shown = {}
      BY <1>1, <2>2 DEF MovedTo, Over, OcAnswersInv, CallIsTrue, CallIsShaped
    <3> QED
      BY <1>2, <3>1 DEF ListIsRead
  <2> QED
    BY <2>1, <2>2
<1> QED
  BY <1>1, <1>3, <1>4 DEF OcListsInv

(* Every step keeps the listings where ends are told.                       *)
LEMMA ListsStayTrue ==
  ASSUME OpencodeAssumption, OpencodeTypeOK, OcAnswersInv, OcListsInv, EndsAreTold, [OpencodeNext]_ocVars
  PROVE  OcListsInv'
<1>1. ~OcMay("lost") /\ ~OcMay("other") /\ ~OcMay("meanwhile")
  BY DEF EndsAreTold, OcMay
<1>2. CASE TurnMoves
  BY <1>1, <1>2, TurnsKeepLists
<1>3. CASE OpencodeCallStarts
  BY <1>1, <1>3, CallStartsKeepsLists
<1>4. ASSUME NEW c \in OcStarted, Starts(c) PROVE OcListsInv'
  BY <1>4, StartsKeepsLists
<1>5. ASSUME NEW c \in OcStarted, Request(c) PROVE OcListsInv'
  BY <1>1, <1>5, RequestKeepsLists
<1>6. ASSUME NEW c \in OcStarted, CreateTakes(c) PROVE OcListsInv'
  BY <1>6, CreateTakesKeepsLists
<1>7. ASSUME NEW c \in OcStarted, SendTakes(c) PROVE OcListsInv'
  BY <1>7, SendTakesKeepsLists
<1>8. ASSUME NEW c \in OcStarted, StateTakes(c) PROVE OcListsInv'
  BY <1>8, StateTakesKeepsLists
<1>9. ASSUME NEW c \in OcStarted, CloseTakes(c) PROVE OcListsInv'
  BY <1>9, CloseTakesKeepsLists
<1>10. ASSUME NEW c \in OcStarted, ListTakes(c) PROVE OcListsInv'
  BY <1>10, ListTakesKeepsLists
<1>11. CASE OpencodeRestart
  BY <1>11, RestartKeepsLists
<1>12. CASE KeyExpires \/ UNCHANGED ocVars
  <2>1. server' = server /\ seen' = seen /\ ocCalls' = ocCalls /\ OcStarted' = OcStarted
    BY <1>12 DEF KeyExpires, ocVars, OcStarted
  <2>2. CallsAreApart' /\ KnownAreThere' /\ CalledAreKnown' /\ MadeAreNew'
    BY <2>1 DEF OcListsInv, CallsAreApart, KnownAreThere, EndIsTold, CalledAreKnown, MadeAreNew, JustMade
  <2>3. \A c \in OcStarted : ListIsRead(c)'
    BY <2>1 DEF OcListsInv, ListIsRead
  <2> QED
    BY <2>1, <2>2, <2>3 DEF OcListsInv
<1> QED
  BY <1>1, <1>2, <1>3, <1>4, <1>5, <1>6, <1>7, <1>8, <1>9, <1>10, <1>11, <1>12 DEF OpencodeNext, DeletedByAnother

-----------------------------------------------------------------------------
(* What is so in every state.                                               *)
OpencodeInv ==
    /\ OpencodeTypeOK /\ OcAnswersInv
    /\ EndsAreTold => OcListsInv
    /\ KeysAreKept => KeysAreTaken /\ SessionsHaveTheirKey

(* It is so when the driver has started.                                    *)
LEMMA OpencodeInvHoldsAtFirst ==
  ASSUME OpencodeAssumption, OpencodeInit
  PROVE  OpencodeInv
<1>1. OpencodeTypeOK /\ OcAnswersInv
  BY OpencodeInitHolds
<1>2. OcStarted = {} /\ DOMAIN server = {} /\ seen = {}
  BY DEF OpencodeInit, OcStarted
<1>3. OcListsInv
  BY <1>2 DEF OcListsInv, CallsAreApart, KnownAreThere, CalledAreKnown, MadeAreNew
<1>4. KeysAreTaken /\ SessionsHaveTheirKey
  BY <1>2 DEF KeysAreTaken, SessionsHaveTheirKey
<1> QED
  BY <1>1, <1>3, <1>4 DEF OpencodeInv

(* It is so after every step.                                               *)
LEMMA OpencodeInvStays ==
  ASSUME OpencodeAssumption, OpencodeInv, [OpencodeNext]_ocVars
  PROVE  OpencodeInv'
<1>1. OpencodeTypeOK' /\ OcAnswersInv'
  BY OpencodeNextKeeps, OpencodeStutterKeeps DEF OpencodeInv
<1>2. ocEnv' = ocEnv
  BY DEF OpencodeNext, TurnMoves, DeletedByAnother, OpencodeCallStarts, Starts, Request, CreateTakes, SendTakes,
     StateTakes, CloseTakes, ListTakes, KeyExpires, OpencodeRestart, ocVars
<1>3. (EndsAreTold' <=> EndsAreTold) /\ (KeysAreKept' <=> KeysAreKept)
  BY <1>2 DEF EndsAreTold, KeysAreKept
<1>4. EndsAreTold => OcListsInv'
  BY ListsStayTrue DEF OpencodeInv
<1>5. KeysAreKept => KeysAreTaken' /\ SessionsHaveTheirKey'
  BY KeysStayTaken DEF OpencodeInv
<1> QED
  BY <1>1, <1>3, <1>4, <1>5 DEF OpencodeInv

(* The answers are true.                                                    *)
LEMMA OpencodeInvSuffices ==
  ASSUME OpencodeInv
  PROVE  OpencodeAnswersAreTrue
<1>1. OpencodeTypeOK /\ OcAnswersInv
  BY DEF OpencodeInv
<1>2. StatesAreTrue
  BY <1>1 DEF StatesAreTrue, OcAnswersInv, CallIsTrue, StateIsRead, AtRest
<1>3. DoneAsTold
  BY <1>1 DEF DoneAsTold, OcAnswersInv, CallIsTrue, SendIsDone, CloseIsDone, CreateIsDone
<1>4. EndsAreTold => ListingsAreTrue
  <2> SUFFICES ASSUME EndsAreTold, NEW c \in OcStarted, NEW i \in DOMAIN ocCalls[c].shown
               PROVE  /\ i \notin ocCalls[c].over
                      /\ ocCalls[c].shown[i] = "idle" => ocCalls[c].saw[i] \cap {"idle", "failed"} # {}
                      /\ ocCalls[c].shown[i] = "working" => ocCalls[c].saw[i] \cap Busy # {}
    BY DEF ListingsAreTrue
  <2>1. ListIsRead(c)
    BY DEF OpencodeInv, OcListsInv
  <2>2. ocCalls[c].op = "list"
    BY <1>1 DEF OcAnswersInv, CallIsTrue, CallIsShaped
  <2> QED
    BY <2>1, <2>2 DEF ListIsRead, AtRest
<1>5. KeysAreKept => OneSessionPerKey
  BY <1>1, KeysAreOfOne DEF OpencodeInv
<1> QED
  BY <1>2, <1>3, <1>4, <1>5 DEF OpencodeAnswersAreTrue

(* What a call of the opencode driver answers is so: a state is one that    *)
(* the session had while the call was under way, what a call says it did    *)
(* was done, a listing shows no session that a close had ended before where *)
(* the driver is told of every end, and creates with one key make one       *)
(* session where keys are kept (ops.go).                                    *)
THEOREM OpencodeIsTrue == OpencodeSpec => []OpencodeAnswersAreTrue
<1>1. OpencodeInit => OpencodeInv
  BY OpencodeAssumption, OpencodeInvHoldsAtFirst
<1>2. OpencodeInv /\ [OpencodeNext]_ocVars => OpencodeInv'
  BY OpencodeAssumption, OpencodeInvStays
<1>3. OpencodeInv => OpencodeAnswersAreTrue
  BY OpencodeInvSuffices
<1> QED
  BY <1>1, <1>2, <1>3, PTL DEF OpencodeSpec

-----------------------------------------------------------------------------
(* PeerRelay: the inductive invariant                                       *)

(* A peer keeps its features while creates are relayed, and a discard that  *)
(* names a run is not relayed while names are used again.                   *)
RelaySteady ==
    /\ RelayMay("downgrade") => "create" \notin relayEnv.ops
    /\ RelayMay("pin") /\ RelayMay("reuse") => "discard" \notin relayEnv.ops

Confirmable == {"labels", "conversation", "settings"}
RelayOps == {"create", "send", "interrupt", "respond", "state", "close", "rename", "keys", "labels",
             "discard", "list", "closed"}
Unsent == {"no authority", "not dialled", "unconfirmed", "unsupported"}
RelayAnswers == Unsent \cup {"", "refused", "unauthorized", "missing", "conflict", "unfiltered", "ok",
                             "degraded", "unreachable"}
RelayRecords ==
    [op : RelayOps, pin : Nat, sent : Nat, wants : SUBSET Features, key : Nat, needs : SUBSET Confirmable,
     at : {"ready", "asking", "sent", "replied", "done"}, is : RelayAnswers, got : SUBSET Features]
RefreshRecords == [at : {"no", "runtimes", "health", "runtimes asked", "health asked"}, got : SUBSET Features]
PeerTypes == [feats : SUBSET Features, run : Nat, epoch : Nat]

RelayTypes ==
    /\ relayEnv \in RelayEnvironments /\ peer \in PeerTypes
    /\ refreshes \in [contact : RefreshRecords, boot : RefreshRecords]
    /\ relays \in Seq(RelayRecords) /\ wire \subseteq DOMAIN relays

(* What is cached, or on its way to the cache, the peer has.                *)
FeaturesAreThere ==
    "create" \in relayEnv.ops =>
       caps \subseteq peer.feats /\ \A who \in DOMAIN refreshes : refreshes[who].got \subseteq peer.feats

(* What a create wants the peer has, or it is asked for before it is sent.  *)
NeedsAreMet(r) ==
    /\ r.got \subseteq peer.feats
    /\ r.wants \cap Confirmable \subseteq r.needs \cup peer.feats
    /\ "outside" \in r.wants => "settings" \in r.needs \/ "outside" \in peer.feats

(* The run a call names travels with it, unless there is no other.          *)
PinTravels(r) == r.pin = 0 \/ r.sent = r.pin \/ (~RelayMay("reuse") /\ r.pin = 1)

CallTrue(c) ==
    LET r == relays[c] IN
    /\ r.op \in relayEnv.ops /\ PinTravels(r)
    /\ r.op = "create" /\ (r.at # "done" \/ c \in wire) => NeedsAreMet(r)
    /\ (r.at = "asking" => r.needs # {}) /\ (r.needs # {} => r.op = "create")
    /\ r.op = "create" /\ "outside" \in r.wants => "settings" \in r.wants
    /\ r.at \in {"sent", "replied", "done"} => r.needs = {}
    /\ c \in wire => r.at = "sent" \/ (r.at = "done" /\ r.is = "unreachable")

EffectTrue(x) ==
    /\ x.by \in DOMAIN relays /\ x.by \notin wire /\ x.op = relays[x.by].op
    /\ \/ relays[x.by].at = "replied" /\ relays[x.by].is \in {"ok", "unfiltered"}
       \/ relays[x.by].at = "done" /\ relays[x.by].is \in {"ok", "unfiltered", "degraded", "unreachable"}
    /\ x.op = "create" \/ (x.op = "list" /\ relays[x.by].is = "ok") => x.carried = x.wants
    /\ x.pin \in {0, x.run}

KeysOnce == \A x, y \in effects : x.key = y.key /\ x.key # 0 => x = y
RunStays == ~RelayMay("reuse") => peer.run = 1

RelayInv ==
    /\ RelayTypes /\ FeaturesAreThere /\ KeysOnce /\ RunStays
    /\ \A c \in DOMAIN relays : CallTrue(c)
    /\ \A x \in effects : EffectTrue(x)

(* A relayed call has the components of its record.                         *)
LEMMA RelayOfType ==
  ASSUME RelayTypes, NEW c \in DOMAIN relays
  PROVE  relays[c] \in RelayRecords /\ c \in Nat
  BY ElementOfSeq, LenProperties DEF RelayTypes

(* What the invariant says of effects, calls and caches is what the         *)
(* property says of them.                                                   *)
LEMMA RelayInvTells == RelayInv => RelayedAsAsked
<1> SUFFICES ASSUME RelayInv PROVE RelayedAsAsked
  OBVIOUS
<1>1. \A x \in effects : EffectTrue(x)
  BY DEF RelayInv
<1>2. \A x \in effects : x.op = "create" => x.carried = x.wants
  BY <1>1 DEF EffectTrue
<1>3. \A x, y \in effects : x.key = y.key /\ x.key # 0 => x = y
  BY DEF RelayInv, KeysOnce
<1>4. \A c \in DOMAIN relays : RelayAnswered(c, Unsent) => \A x \in effects : x.by # c
  BY <1>1 DEF EffectTrue, RelayAnswered, Unsent
<1>5. \A c \in DOMAIN relays, x \in effects :
         RelayAnswered(c, {"ok"}) /\ relays[c].op = "list" /\ x.by = c => x.carried = x.wants
  BY <1>1 DEF EffectTrue, RelayAnswered
<1>6. \A x \in effects : x.pin \in {0, x.run}
  BY <1>1 DEF EffectTrue
<1> QED
  BY <1>2, <1>3, <1>4, <1>5, <1>6 DEF RelayedAsAsked, Unsent

-----------------------------------------------------------------------------
(* PeerRelay: what a step keeps                                             *)

(* Nothing that the calls have learned or done changes.                     *)
LEMMA RelaysStand ==
  ASSUME RelayInv, UNCHANGED <<relayEnv, relays, wire, effects>>,
         peer' \in PeerTypes, refreshes' \in [contact : RefreshRecords, boot : RefreshRecords],
         "create" \in relayEnv.ops => peer.feats \subseteq peer'.feats,
         FeaturesAreThere', RunStays'
  PROVE  RelayInv'
<1>1. RelayTypes'
  BY DEF RelayInv, RelayTypes
<1>2. KeysOnce'
  BY DEF RelayInv, KeysOnce
<1>3. ASSUME NEW c \in DOMAIN relays PROVE CallTrue(c)'
  <2>1. CallTrue(c) /\ relays'[c] = relays[c]
    BY DEF RelayInv
  <2>2. relays[c].op = "create" => peer.feats \subseteq peer'.feats
    BY <2>1 DEF CallTrue
  <2>3. PinTravels(relays[c])' = PinTravels(relays[c])
    BY DEF PinTravels, RelayMay
  <2>4. relays[c].op = "create" /\ NeedsAreMet(relays[c]) => NeedsAreMet(relays[c])'
    BY <2>2 DEF NeedsAreMet
  <2> QED
    BY <2>1, <2>3, <2>4 DEF CallTrue
<1>4. ASSUME NEW x \in effects PROVE EffectTrue(x)'
  BY DEF RelayInv, EffectTrue
<1> QED
  BY <1>1, <1>2, <1>3, <1>4 DEF RelayInv

(* A call goes on: what it asks for stays, and at the peer nothing happens. *)
LEMMA RelayMoves ==
  ASSUME RelayInv, UNCHANGED <<relayEnv, peer, effects>>,
         refreshes' \in [contact : RefreshRecords, boot : RefreshRecords], FeaturesAreThere',
         NEW c \in DOMAIN relays, NEW r \in RelayRecords, relays' = [relays EXCEPT ![c] = r],
         r.op = relays[c].op, wire' \subseteq DOMAIN relays,
         \A d \in DOMAIN relays : d # c => (d \in wire' <=> d \in wire),
         CallTrue(c)', \A x \in effects : x.by = c => EffectTrue(x)'
  PROVE  RelayInv'
<1>1. /\ relays' \in Seq(RelayRecords) /\ DOMAIN relays' = DOMAIN relays
      /\ relays'[c] = r /\ \A d \in DOMAIN relays : d # c => relays'[d] = relays[d]
  BY SequenceReplaced DEF RelayInv, RelayTypes
<1>2. RelayTypes'
  BY <1>1 DEF RelayInv, RelayTypes
<1>3. KeysOnce' /\ RunStays'
  BY DEF RelayInv, KeysOnce, RunStays, RelayMay
<1>4. ASSUME NEW d \in DOMAIN relays, d # c PROVE CallTrue(d)'
  <2>1. CallTrue(d) /\ relays'[d] = relays[d] /\ (d \in wire' <=> d \in wire)
    BY <1>1, <1>4 DEF RelayInv
  <2>2. PinTravels(relays[d])' = PinTravels(relays[d]) /\ NeedsAreMet(relays[d])' = NeedsAreMet(relays[d])
    BY <2>1 DEF PinTravels, NeedsAreMet, RelayMay
  <2> QED
    BY <2>1, <2>2 DEF CallTrue
<1>5. ASSUME NEW x \in effects PROVE EffectTrue(x)'
  <2>1. CASE x.by = c
    BY <2>1
  <2>2. CASE x.by # c
    <3>1. EffectTrue(x) /\ x.by \in DOMAIN relays
      BY DEF RelayInv, EffectTrue
    <3>2. relays'[x.by] = relays[x.by] /\ (x.by \in wire' <=> x.by \in wire)
      BY <1>1, <2>2, <3>1
    <3> QED
      BY <1>1, <3>1, <3>2 DEF EffectTrue
  <2> QED
    BY <2>1, <2>2
<1> QED
  BY <1>1, <1>2, <1>3, <1>4, <1>5 DEF RelayInv

(* A new call.                                                              *)
LEMMA RelayBegins ==
  ASSUME RelayInv, NEW op \in RelayOps, NEW pin \in Nat, NEW sent \in Nat, NEW wants \in SUBSET Features,
         NEW key \in Nat, NEW needs \in SUBSET Confirmable, Relay(op, pin, sent, wants, key, needs),
         pin = 0 \/ sent = pin \/ (~RelayMay("reuse") /\ pin = 1),
         op = "create" => needs = wants \cap Confirmable /\ ("outside" \in wants => "settings" \in wants),
         op # "create" => needs = {}
  PROVE  RelayInv'
<1>1. PICK k : k = Len(relays) + 1
  OBVIOUS
<1>2. PICK r : r = [op |-> op, pin |-> pin, sent |-> sent, wants |-> wants, key |-> key, needs |-> needs,
                    at |-> "ready", is |-> "", got |-> {}]
  OBVIOUS
<1>3. /\ op \in relayEnv.ops /\ relays' = Append(relays, r)
      /\ UNCHANGED <<relayEnv, peer, caps, refreshes, wire, effects>>
  BY <1>2 DEF Relay
<1>4. r \in RelayRecords
  BY <1>2 DEF RelayRecords, RelayAnswers
<1>5. /\ relays' \in Seq(RelayRecords) /\ DOMAIN relays' = DOMAIN relays \cup {k} /\ k \notin DOMAIN relays
      /\ relays'[k] = r /\ \A c \in DOMAIN relays : relays'[c] = relays[c]
  BY <1>1, <1>3, <1>4, SequenceExtended DEF RelayInv, RelayTypes
<1>6. RelayTypes'
  BY <1>3, <1>5 DEF RelayInv, RelayTypes
<1>7. KeysOnce' /\ RunStays' /\ FeaturesAreThere'
  BY <1>3 DEF RelayInv, KeysOnce, RunStays, FeaturesAreThere, RelayMay
<1>8. ASSUME NEW c \in DOMAIN relays PROVE CallTrue(c)'
  <2>1. CallTrue(c) /\ relays'[c] = relays[c]
    BY <1>5 DEF RelayInv
  <2>2. PinTravels(relays[c])' = PinTravels(relays[c]) /\ NeedsAreMet(relays[c])' = NeedsAreMet(relays[c])
    BY <1>3, <2>1 DEF PinTravels, NeedsAreMet, RelayMay
  <2> QED
    BY <1>3, <2>1, <2>2 DEF CallTrue
<1>9. CallTrue(k)'
  <2>1. PinTravels(r)' /\ (op = "create" => NeedsAreMet(r)')
    BY <1>2, <1>3 DEF PinTravels, NeedsAreMet, RelayMay, Confirmable
  <2>2. r.op = op /\ r.at = "ready" /\ r.wants = wants /\ r.needs = needs /\ k \notin wire'
    BY <1>2, <1>3, <1>5 DEF RelayInv, RelayTypes
  <2> QED
    BY <1>3, <1>5, <2>1, <2>2 DEF CallTrue
<1>10. ASSUME NEW x \in effects PROVE EffectTrue(x)'
  <2>1. EffectTrue(x) /\ x.by \in DOMAIN relays
    BY DEF RelayInv, EffectTrue
  <2>2. relays'[x.by] = relays[x.by] /\ x.by \in DOMAIN relays' /\ wire' = wire
    BY <1>3, <1>5, <2>1
  <2> QED
    BY <2>1, <2>2 DEF EffectTrue
<1> QED
  BY <1>3, <1>5, <1>6, <1>7, <1>8, <1>9, <1>10 DEF RelayInv

-----------------------------------------------------------------------------
(* PeerRelay: the peer                                                      *)

(* The peer gets a newer build.                                             *)
LEMMA UpgradeKeeps == RelayInv /\ Upgrade => RelayInv'
<1> SUFFICES ASSUME RelayInv, Upgrade PROVE RelayInv'
  OBVIOUS
<1>1. peer' = [peer EXCEPT !.feats = Features]
      /\ UNCHANGED <<relayEnv, caps, refreshes, relays, wire, effects>>
  BY DEF Upgrade, relayCallVars
<1>2. peer \in PeerTypes /\ refreshes \in [contact : RefreshRecords, boot : RefreshRecords]
  BY DEF RelayInv, RelayTypes
<1>3. peer' \in PeerTypes /\ peer'.run = peer.run /\ peer.feats \subseteq peer'.feats
  BY <1>1, <1>2 DEF PeerTypes
<1>4. FeaturesAreThere' /\ RunStays'
  BY <1>1, <1>3 DEF RelayInv, FeaturesAreThere, RunStays, RelayMay
<1> QED
  BY <1>1, <1>2, <1>3, <1>4, RelaysStand

(* The peer gets an older build: no create is relayed then.                 *)
LEMMA DowngradeKeeps == RelayInv /\ RelaySteady /\ Downgrade => RelayInv'
<1> SUFFICES ASSUME RelayInv, RelaySteady, Downgrade PROVE RelayInv'
  OBVIOUS
<1>1. /\ peer' = [peer EXCEPT !.feats = {}] /\ "create" \notin relayEnv.ops
      /\ UNCHANGED <<relayEnv, caps, refreshes, relays, wire, effects>>
  BY DEF Downgrade, relayCallVars, RelaySteady
<1>2. peer \in PeerTypes /\ refreshes \in [contact : RefreshRecords, boot : RefreshRecords]
  BY DEF RelayInv, RelayTypes
<1>3. peer' \in PeerTypes /\ peer'.run = peer.run
  BY <1>1, <1>2 DEF PeerTypes
<1>4. FeaturesAreThere' /\ RunStays'
  BY <1>1, <1>3 DEF RelayInv, FeaturesAreThere, RunStays, RelayMay
<1> QED
  BY <1>1, <1>2, <1>3, <1>4, RelaysStand

(* Another session takes the name.                                          *)
LEMMA ReuseKeeps == RelayInv /\ Reuse => RelayInv'
<1> SUFFICES ASSUME RelayInv, Reuse PROVE RelayInv'
  OBVIOUS
<1>1. /\ peer' = [peer EXCEPT !.run = 2] /\ RelayMay("reuse")
      /\ UNCHANGED <<relayEnv, caps, refreshes, relays, wire, effects>>
  BY DEF Reuse, relayCallVars
<1>2. peer \in PeerTypes /\ refreshes \in [contact : RefreshRecords, boot : RefreshRecords]
  BY DEF RelayInv, RelayTypes
<1>3. peer' \in PeerTypes /\ peer'.feats = peer.feats
  BY <1>1, <1>2 DEF PeerTypes
<1>4. FeaturesAreThere' /\ RunStays'
  BY <1>1, <1>3 DEF RelayInv, FeaturesAreThere, RunStays, RelayMay
<1> QED
  BY <1>1, <1>2, <1>3, <1>4, RelaysStand

(* What a request does when the peer has carried it out.                    *)
LEMMA ExecutedIsTrue ==
  ASSUME RelayInv, NEW c \in wire, PeerAnswer(relays[c]) \in {"ok", "unfiltered"},
         NEW x, x = Executed(relays[c], c)
  PROVE  /\ x.by = c /\ x.op = relays[c].op /\ x.key = relays[c].key /\ x.pin \in {0, x.run}
         /\ x.op = "create" \/ (x.op = "list" /\ PeerAnswer(relays[c]) = "ok") => x.carried = x.wants
<1>1. PICK r : r = relays[c]
  OBVIOUS
<1>2. r \in RelayRecords /\ CallTrue(c) /\ peer \in PeerTypes
  BY <1>1, RelayOfType DEF RelayInv, RelayTypes
<1>3. x = [by |-> c, op |-> r.op, pin |-> r.pin, run |-> peer.run, key |-> r.key, wants |-> r.wants,
           carried |-> r.wants \cap peer.feats]
  BY <1>1 DEF Executed
<1>4. /\ r.sent \in {0, peer.run}
      /\ PeerAnswer(r) = "ok" /\ r.op = "list" => r.wants \ peer.feats = {}
  BY <1>1 DEF PeerAnswer
<1>5. x.pin \in {0, x.run}
  BY <1>1, <1>2, <1>3, <1>4 DEF CallTrue, PinTravels, RelayInv, RunStays, RelayRecords, PeerTypes
<1>6. r.op = "create" => r.wants \subseteq peer.feats
  <2> SUFFICES ASSUME r.op = "create" PROVE r.wants \subseteq peer.feats
    OBVIOUS
  <2>1. NeedsAreMet(r) /\ r.needs = {} /\ r.wants \subseteq Features
    BY <1>1, <1>2 DEF CallTrue, RelayRecords
  <2> QED
    BY <2>1 DEF NeedsAreMet, Confirmable, Features
<1>7. r.op = "create" \/ (r.op = "list" /\ PeerAnswer(r) = "ok") => r.wants \cap peer.feats = r.wants
  BY <1>4, <1>6
<1> QED
  BY <1>1, <1>3, <1>5, <1>7

(* The peer receives a request: its own answer tells what it did.           *)
LEMMA ReceiveKeeps == RelayInv /\ PeerReceives => RelayInv'
<1> SUFFICES ASSUME RelayInv, PeerReceives PROVE RelayInv'
  OBVIOUS
<1>1. PICK c \in wire : LET answer == PeerAnswer(relays[c])
                            replay == relays[c].key # 0 /\ \E x \in effects : x.key = relays[c].key
                        IN /\ wire' = wire \ {c}
                           /\ effects' = IF answer \in {"ok", "unfiltered"} /\ ~replay
                                         THEN effects \cup {Executed(relays[c], c)} ELSE effects
                           /\ relays' = IF relays[c].at # "sent" THEN relays
                                        ELSE [relays EXCEPT ![c].at = "replied", ![c].is = answer]
                           /\ UNCHANGED <<relayEnv, peer, caps, refreshes>>
  BY DEF PeerReceives
<1>2. PICK answer : answer = PeerAnswer(relays[c])
  OBVIOUS
<1>3. answer \in {"missing", "conflict", "unfiltered", "ok"}
  BY <1>2 DEF PeerAnswer
<1>4. /\ relays \in Seq(RelayRecords) /\ c \in DOMAIN relays /\ relays[c] \in RelayRecords /\ CallTrue(c)
      /\ wire \subseteq DOMAIN relays /\ peer \in PeerTypes
  BY <1>1, RelayOfType DEF RelayInv, RelayTypes
<1>5. PICK r : r = [relays[c] EXCEPT !.at = "replied", !.is = answer]
  OBVIOUS
<1>6. /\ r \in RelayRecords /\ r.at = "replied" /\ r.is = answer /\ r.op = relays[c].op /\ r.pin = relays[c].pin
      /\ r.sent = relays[c].sent /\ r.wants = relays[c].wants /\ r.needs = relays[c].needs
      /\ r.got = relays[c].got /\ r.key = relays[c].key
  BY <1>3, <1>4, <1>5 DEF RelayRecords, RelayAnswers
<1>7. /\ relays[c].at = "sent" => relays' = [relays EXCEPT ![c] = r]
      /\ relays[c].at # "sent" => relays' = relays /\ relays[c].at = "done" /\ relays[c].is = "unreachable"
  BY <1>1, <1>2, <1>4, <1>5 DEF CallTrue
<1>8. /\ relays' \in Seq(RelayRecords) /\ DOMAIN relays' = DOMAIN relays
      /\ \A d \in DOMAIN relays : d # c => relays'[d] = relays[d]
      /\ relays'[c] \in {r, relays[c]} /\ (relays[c].at = "sent" => relays'[c] = r)
  BY <1>4, <1>6, <1>7, SequenceReplaced
<1>9. RelayTypes' /\ RunStays' /\ FeaturesAreThere'
  BY <1>1, <1>4, <1>8 DEF RelayInv, RelayTypes, RunStays, FeaturesAreThere, RelayMay
<1>10. \A x \in effects : x.by # c
  BY DEF RelayInv, EffectTrue
<1>11. PICK new : new = Executed(relays[c], c)
  OBVIOUS
<1>12. \/ effects' = effects
       \/ /\ effects' = effects \cup {new} /\ answer \in {"ok", "unfiltered"}
          /\ relays[c].key # 0 => \A x \in effects : x.key # relays[c].key
  BY <1>1, <1>2, <1>11
<1>13. answer \in {"ok", "unfiltered"} =>
          /\ new.by = c /\ new.op = relays[c].op /\ new.key = relays[c].key /\ new.pin \in {0, new.run}
          /\ new.op = "create" \/ (new.op = "list" /\ answer = "ok") => new.carried = new.wants
  BY <1>1, <1>2, <1>11, ExecutedIsTrue
<1>14. KeysOnce'
  BY <1>12, <1>13 DEF RelayInv, KeysOnce
<1>15. ASSUME NEW d \in DOMAIN relays PROVE CallTrue(d)'
  <2>1. CallTrue(d)
    BY DEF RelayInv
  <2>2. CASE d # c
    <3>1. relays'[d] = relays[d] /\ (d \in wire' <=> d \in wire)
      BY <1>1, <1>8, <2>2
    <3>2. PinTravels(relays[d])' = PinTravels(relays[d]) /\ NeedsAreMet(relays[d])' = NeedsAreMet(relays[d])
      BY <1>1, <3>1 DEF PinTravels, NeedsAreMet, RelayMay
    <3> QED
      BY <1>1, <2>1, <3>1, <3>2 DEF CallTrue
  <2>3. CASE d = c /\ relays[c].at = "sent"
    <3>1. relays'[c] = r /\ c \notin wire' /\ relayEnv' = relayEnv /\ peer' = peer
      BY <1>1, <1>8, <2>3
    <3>2. PinTravels(r)' /\ (r.op = "create" => NeedsAreMet(r)') /\ r.needs = {}
      BY <1>4, <1>6, <2>3, <3>1 DEF CallTrue, PinTravels, NeedsAreMet, RelayMay
    <3> QED
      BY <1>4, <1>6, <2>3, <3>1, <3>2 DEF CallTrue
  <2>4. CASE d = c /\ relays[c].at # "sent"
    <3>1. relays'[c] = relays[c] /\ c \notin wire' /\ relays[c].at = "done" /\ relayEnv' = relayEnv
      BY <1>1, <1>7, <2>4
    <3>2. PinTravels(relays[c])' = PinTravels(relays[c])
      BY <3>1 DEF PinTravels, RelayMay
    <3> QED
      BY <2>1, <2>4, <3>1, <3>2 DEF CallTrue
  <2> QED
    BY <2>2, <2>3, <2>4
<1>16. ASSUME NEW x \in effects PROVE EffectTrue(x)'
  <2>1. EffectTrue(x) /\ x.by # c /\ x.by \in DOMAIN relays
    BY <1>10 DEF RelayInv, EffectTrue
  <2>2. relays'[x.by] = relays[x.by] /\ (x.by \in wire' <=> x.by \in wire)
    BY <1>1, <1>8, <2>1
  <2> QED
    BY <1>8, <2>1, <2>2 DEF EffectTrue
<1>17. ASSUME effects' = effects \cup {new}, answer \in {"ok", "unfiltered"} PROVE EffectTrue(new)'
  <2>1. /\ new.by = c /\ new.op = relays[c].op /\ new.pin \in {0, new.run}
        /\ new.op = "create" \/ (new.op = "list" /\ answer = "ok") => new.carried = new.wants
    BY <1>13, <1>17
  <2>2. c \notin wire' /\ c \in DOMAIN relays'
    BY <1>1, <1>4, <1>8
  <2>3. CASE relays[c].at = "sent"
    <3>1. relays'[c] = r
      BY <1>8, <2>3
    <3> QED
      BY <1>6, <1>17, <2>1, <2>2, <3>1 DEF EffectTrue
  <2>4. CASE relays[c].at # "sent"
    <3>1. relays'[c] = relays[c] /\ relays[c].at = "done" /\ relays[c].is = "unreachable"
      BY <1>7, <2>4
    <3> QED
      BY <1>17, <2>1, <2>2, <3>1 DEF EffectTrue
  <2> QED
    BY <2>3, <2>4
<1> QED
  BY <1>8, <1>9, <1>12, <1>14, <1>15, <1>16, <1>17 DEF RelayInv

-----------------------------------------------------------------------------
(* PeerRelay: the calls                                                     *)

(* A call that is not sent yet goes on.                                     *)
LEMMA RelayAdvances ==
  ASSUME RelayInv, UNCHANGED <<relayEnv, peer, effects, refreshes, wire>>, FeaturesAreThere',
         NEW c \in DOMAIN relays, relays[c].at \in {"ready", "asking"},
         NEW r \in RelayRecords, relays' = [relays EXCEPT ![c] = r],
         r.op = relays[c].op, r.pin = relays[c].pin, r.sent = relays[c].sent, r.wants = relays[c].wants,
         r.needs \subseteq relays[c].needs,
         r.at = "ready" \/ (r.at = "asking" /\ r.needs # {}), r.op = "create" => NeedsAreMet(r)
  PROVE  RelayInv'
<1>1. CallTrue(c) /\ relays \in Seq(RelayRecords) /\ wire \subseteq DOMAIN relays
  BY DEF RelayInv, RelayTypes
<1>2. relays'[c] = r
  BY <1>1, SequenceReplaced
<1>3. c \notin wire
  BY <1>1 DEF CallTrue
<1>4. PinTravels(r)' /\ (r.op = "create" => NeedsAreMet(r)')
  BY <1>1 DEF CallTrue, PinTravels, NeedsAreMet, RelayMay
<1>5. CallTrue(c)'
  BY <1>1, <1>2, <1>3, <1>4 DEF CallTrue
<1>6. \A x \in effects : x.by # c
  BY DEF RelayInv, EffectTrue
<1>7. refreshes' \in [contact : RefreshRecords, boot : RefreshRecords]
  BY DEF RelayInv, RelayTypes
<1> QED
  BY <1>1, <1>5, <1>6, <1>7, RelayMoves

(* A call ends.                                                             *)
LEMMA RelayFinishes ==
  ASSUME RelayInv, UNCHANGED <<relayEnv, peer, effects>>, FeaturesAreThere',
         refreshes' \in [contact : RefreshRecords, boot : RefreshRecords],
         NEW c \in DOMAIN relays, NEW is \in RelayAnswers, Finish(c, is), wire' \in {wire, wire \ {c}},
         c \in wire' => is = "unreachable",
         \A x \in effects : x.by = c =>
            /\ is \in {"ok", "unfiltered", "degraded", "unreachable"}
            /\ x.op = "list" /\ is = "ok" => x.carried = x.wants
  PROVE  RelayInv'
<1>1. PICK r : r = [relays[c] EXCEPT !.at = "done", !.is = is, !.needs = {}]
  OBVIOUS
<1>2. /\ CallTrue(c) /\ relays \in Seq(RelayRecords) /\ wire \subseteq DOMAIN relays
      /\ relays[c] \in RelayRecords
  BY RelayOfType DEF RelayInv, RelayTypes
<1>3. relays' = [relays EXCEPT ![c] = r]
  BY <1>1 DEF Finish
<1>4. /\ r \in RelayRecords /\ r.at = "done" /\ r.is = is /\ r.needs = {} /\ r.op = relays[c].op
      /\ r.pin = relays[c].pin /\ r.sent = relays[c].sent /\ r.wants = relays[c].wants
      /\ r.got = relays[c].got
  BY <1>1, <1>2 DEF RelayRecords
<1>5. relays'[c] = r /\ c \in DOMAIN relays'
  BY <1>2, <1>3, <1>4, SequenceReplaced
<1>6. PinTravels(r)'
  BY <1>2, <1>4 DEF CallTrue, PinTravels, RelayMay
<1>7. r.op = "create" /\ c \in wire' => NeedsAreMet(r)'
  <2> SUFFICES ASSUME r.op = "create", c \in wire' PROVE NeedsAreMet(r)'
    OBVIOUS
  <2>1. c \in wire
    OBVIOUS
  <2>2. NeedsAreMet(relays[c]) /\ relays[c].needs = {}
    BY <1>2, <1>4, <2>1 DEF CallTrue
  <2> QED
    BY <1>4, <2>2 DEF NeedsAreMet
<1>8. CallTrue(c)'
  BY <1>2, <1>4, <1>5, <1>6, <1>7 DEF CallTrue
<1>9. ASSUME NEW x \in effects, x.by = c PROVE EffectTrue(x)'
  <2>1. EffectTrue(x)
    BY DEF RelayInv
  <2>2. c \notin wire /\ c \notin wire'
    BY <1>9, <2>1 DEF EffectTrue
  <2> QED
    BY <1>4, <1>5, <1>9, <2>1, <2>2 DEF EffectTrue
<1>10. wire' \subseteq DOMAIN relays /\ \A d \in DOMAIN relays : d # c => (d \in wire' <=> d \in wire)
  BY <1>2
<1> QED
  BY <1>3, <1>4, <1>8, <1>9, <1>10, RelayMoves

(* Caches and refreshes that stay say what they said.                       *)
LEMMA FeaturesStay ==
  ASSUME RelayInv, UNCHANGED <<relayEnv, peer, caps, refreshes>>
  PROVE  FeaturesAreThere' /\ refreshes' \in [contact : RefreshRecords, boot : RefreshRecords]
  BY DEF RelayInv, FeaturesAreThere, RelayTypes

(* Nothing was done for a call that is not answered.                        *)
LEMMA NothingDoneYet ==
  ASSUME RelayInv, NEW c \in DOMAIN relays, relays[c].at \in {"ready", "asking", "sent"} \/ c \in wire
  PROVE  \A x \in effects : x.by # c
  BY DEF RelayInv, EffectTrue

(* A call is refused before it is dialled.                                  *)
LEMMA NotDialledKeeps == RelayInv /\ NotDialled => RelayInv'
<1> SUFFICES ASSUME RelayInv, NotDialled PROVE RelayInv'
  OBVIOUS
<1>1. PICK c \in DOMAIN relays :
         /\ relays[c].at = "ready" /\ \E is \in {"no authority", "not dialled"} : Finish(c, is)
         /\ UNCHANGED <<relayEnv, peer, caps, refreshes, wire, effects>>
  BY DEF NotDialled
<1>2. PICK is \in {"no authority", "not dialled"} : Finish(c, is)
  BY <1>1
<1>3. c \notin wire /\ is \in RelayAnswers
  BY <1>1 DEF RelayInv, CallTrue, RelayAnswers, Unsent
<1>4. FeaturesAreThere' /\ refreshes' \in [contact : RefreshRecords, boot : RefreshRecords]
  BY <1>1, FeaturesStay
<1>5. \A x \in effects : x.by # c
  BY <1>1, NothingDoneYet
<1>6. wire' = wire /\ UNCHANGED <<relayEnv, peer, effects>>
  BY <1>1
<1> QED
  BY <1>2, <1>3, <1>4, <1>5, <1>6, RelayFinishes

(* What the peer carries need not be asked for.                             *)
LEMMA OneNeedLess ==
  ASSUME RelayInv, UNCHANGED <<relayEnv, peer, effects, refreshes, wire>>, FeaturesAreThere',
         NEW c \in DOMAIN relays, relays[c].at \in {"ready", "asking"}, relays[c].needs # {},
         NEW feats \in SUBSET peer.feats, Carries(relays[c], feats),
         relays' = [relays EXCEPT ![c] = [relays[c] EXCEPT !.at = "ready", !.needs = NextNeed(relays[c])]]
  PROVE  RelayInv'
<1>1. relays[c] \in RelayRecords /\ CallTrue(c)
  BY RelayOfType DEF RelayInv
<1>2. PICK need : need = FirstOf(relays[c].needs)
  OBVIOUS
<1>3. PICK r : r = [relays[c] EXCEPT !.at = "ready", !.needs = relays[c].needs \ {need}]
  OBVIOUS
<1>4. /\ r \in RelayRecords /\ r.op = relays[c].op /\ r.pin = relays[c].pin /\ r.sent = relays[c].sent
      /\ r.wants = relays[c].wants /\ r.needs = relays[c].needs \ {need} /\ r.at = "ready"
      /\ r.got = relays[c].got
  BY <1>1, <1>3 DEF RelayRecords
<1>5. need \in feats /\ (need = "settings" /\ "outside" \in relays[c].wants => "outside" \in feats)
  BY <1>2 DEF Carries
<1>6. NeedsAreMet(relays[c])
  BY <1>1 DEF CallTrue
<1>7. NeedsAreMet(r)
  BY <1>4, <1>5, <1>6 DEF NeedsAreMet
<1>8. relays' = [relays EXCEPT ![c] = r]
  BY <1>2, <1>3 DEF NextNeed
<1> QED
  BY <1>4, <1>7, <1>8, RelayAdvances

(* A cached answer says the peer carries it.                                *)
LEMMA ConfirmedKeeps == RelayInv /\ Confirmed => RelayInv'
<1> SUFFICES ASSUME RelayInv, Confirmed PROVE RelayInv'
  OBVIOUS
<1>1. PICK c \in DOMAIN relays :
         /\ relays[c].at = "ready" /\ relays[c].needs # {} /\ Carries(relays[c], caps)
         /\ relays' = [relays EXCEPT ![c].needs = @ \ {FirstOf(@)}]
         /\ UNCHANGED <<relayEnv, peer, caps, refreshes, wire, effects>>
  BY DEF Confirmed
<1>2. relays[c] \in RelayRecords /\ CallTrue(c) /\ relays \in Seq(RelayRecords)
  BY RelayOfType DEF RelayInv, RelayTypes
<1>3. relays' = [relays EXCEPT ![c] = [relays[c] EXCEPT !.at = "ready", !.needs = NextNeed(relays[c])]]
  BY <1>1, <1>2 DEF RelayRecords, NextNeed
<1>4. caps \subseteq peer.feats
  BY <1>1, <1>2 DEF CallTrue, RelayInv, FeaturesAreThere
<1>5. FeaturesAreThere'
  BY <1>1, FeaturesStay
<1>6. UNCHANGED <<relayEnv, peer, effects, refreshes, wire>> /\ relays[c].at \in {"ready", "asking"}
  BY <1>1
<1> QED
  BY <1>1, <1>3, <1>4, <1>5, <1>6, OneNeedLess

(* The peer's health is asked.                                              *)
LEMMA AskHealthKeeps == RelayInv /\ AskHealth => RelayInv'
<1> SUFFICES ASSUME RelayInv, AskHealth PROVE RelayInv'
  OBVIOUS
<1>1. PICK c \in DOMAIN relays :
         /\ relays[c].at = "ready" /\ relays[c].needs # {}
         /\ relays' = [relays EXCEPT ![c].at = "asking", ![c].got = peer.feats]
         /\ UNCHANGED <<relayEnv, peer, caps, refreshes, wire, effects>>
  BY DEF AskHealth
<1>2. relays[c] \in RelayRecords /\ CallTrue(c) /\ relays \in Seq(RelayRecords) /\ peer.feats \subseteq Features
  BY RelayOfType DEF RelayInv, RelayTypes, PeerTypes
<1>3. PICK r : r = [relays[c] EXCEPT !.at = "asking", !.got = peer.feats]
  OBVIOUS
<1>4. relays' = [relays EXCEPT ![c] = r]
  BY <1>1, <1>2, <1>3
<1>5. /\ r \in RelayRecords /\ r.op = relays[c].op /\ r.pin = relays[c].pin /\ r.sent = relays[c].sent
      /\ r.wants = relays[c].wants /\ r.needs = relays[c].needs /\ r.at = "asking" /\ r.got = peer.feats
  BY <1>2, <1>3 DEF RelayRecords
<1>6. NeedsAreMet(r)
  BY <1>1, <1>2, <1>5 DEF CallTrue, NeedsAreMet
<1> QED
  BY <1>1, <1>4, <1>5, <1>6, FeaturesStay, RelayAdvances

(* The health answer says so, or the create is refused.                     *)
LEMMA HealthAnswersKeep == RelayInv /\ HealthAnswers => RelayInv'
<1> SUFFICES ASSUME RelayInv, HealthAnswers PROVE RelayInv'
  OBVIOUS
<1>1. PICK c \in DOMAIN relays :
         /\ relays[c].at = "asking"
         /\ caps' = Learned(FirstOf(relays[c].needs), relays[c].got)
         /\ IF Carries(relays[c], relays[c].got)
            THEN relays' = [relays EXCEPT ![c].at = "ready", ![c].needs = NextNeed(relays[c])]
            ELSE Finish(c, "unsupported")
         /\ UNCHANGED <<relayEnv, peer, refreshes, wire, effects>>
  BY DEF HealthAnswers
<1>2. relays[c] \in RelayRecords /\ CallTrue(c) /\ relays \in Seq(RelayRecords)
  BY RelayOfType DEF RelayInv, RelayTypes
<1>3. /\ relays[c].op = "create" /\ "create" \in relayEnv.ops /\ relays[c].got \subseteq peer.feats
      /\ c \notin wire
  BY <1>1, <1>2 DEF CallTrue, NeedsAreMet
<1>4. caps' \subseteq caps \cup relays[c].got
  BY <1>1 DEF Learned
<1>5. FeaturesAreThere' /\ refreshes' \in [contact : RefreshRecords, boot : RefreshRecords]
  BY <1>1, <1>3, <1>4 DEF RelayInv, FeaturesAreThere, RelayTypes
<1>6. CASE Carries(relays[c], relays[c].got) /\ relays[c].needs # {}
  <2>1. relays' = [relays EXCEPT ![c] = [relays[c] EXCEPT !.at = "ready", !.needs = NextNeed(relays[c])]]
    BY <1>1, <1>6
  <2>2. UNCHANGED <<relayEnv, peer, effects, refreshes, wire>> /\ relays[c].at \in {"ready", "asking"}
    BY <1>1
  <2> QED
    BY <1>3, <1>5, <1>6, <2>1, <2>2, OneNeedLess
<1>7. CASE ~Carries(relays[c], relays[c].got)
  <2>1. Finish(c, "unsupported") /\ wire' = wire /\ UNCHANGED <<relayEnv, peer, effects>>
    BY <1>1, <1>7
  <2>2. \A x \in effects : x.by # c
    BY <1>1, NothingDoneYet
  <2>3. "unsupported" \in RelayAnswers
    BY DEF RelayAnswers, Unsent
  <2> QED
    BY <1>3, <1>5, <2>1, <2>2, <2>3, RelayFinishes
<1>8. relays[c].needs # {}
  BY <1>1, <1>2 DEF CallTrue
<1> QED
  BY <1>6, <1>7, <1>8

(* No health answer: the create is not sent.                                *)
LEMMA HealthFailsKeeps == RelayInv /\ HealthFails => RelayInv'
<1> SUFFICES ASSUME RelayInv, HealthFails PROVE RelayInv'
  OBVIOUS
<1>1. PICK c \in DOMAIN relays :
         /\ relays[c].at = "asking" /\ Finish(c, "unconfirmed")
         /\ UNCHANGED <<relayEnv, peer, caps, refreshes, wire, effects>>
  BY DEF HealthFails
<1>2. c \notin wire /\ "unconfirmed" \in RelayAnswers
  BY <1>1 DEF RelayInv, CallTrue, RelayAnswers, Unsent
<1>3. FeaturesAreThere' /\ refreshes' \in [contact : RefreshRecords, boot : RefreshRecords]
  BY <1>1, FeaturesStay
<1>4. \A x \in effects : x.by # c
  BY <1>1, NothingDoneYet
<1>5. wire' = wire /\ UNCHANGED <<relayEnv, peer, effects>>
  BY <1>1
<1> QED
  BY <1>1, <1>2, <1>3, <1>4, <1>5, RelayFinishes

(* The request goes out.                                                    *)
LEMMA DispatchKeeps == RelayInv /\ Dispatch => RelayInv'
<1> SUFFICES ASSUME RelayInv, Dispatch PROVE RelayInv'
  OBVIOUS
<1>1. PICK c \in DOMAIN relays :
         /\ relays[c].at = "ready" /\ relays[c].needs = {}
         /\ relays' = [relays EXCEPT ![c].at = "sent"] /\ wire' = wire \cup {c}
         /\ UNCHANGED <<relayEnv, peer, caps, refreshes, effects>>
  BY DEF Dispatch
<1>2. /\ relays[c] \in RelayRecords /\ CallTrue(c) /\ relays \in Seq(RelayRecords)
      /\ wire \subseteq DOMAIN relays
  BY RelayOfType DEF RelayInv, RelayTypes
<1>3. PICK r : r = [relays[c] EXCEPT !.at = "sent"]
  OBVIOUS
<1>4. relays' = [relays EXCEPT ![c] = r]
  BY <1>1, <1>3
<1>5. /\ r \in RelayRecords /\ r.op = relays[c].op /\ r.pin = relays[c].pin /\ r.sent = relays[c].sent
      /\ r.wants = relays[c].wants /\ r.needs = {} /\ r.at = "sent" /\ r.got = relays[c].got
  BY <1>1, <1>2, <1>3 DEF RelayRecords
<1>6. relays'[c] = r
  BY <1>2, <1>4, <1>5, SequenceReplaced
<1>7. PinTravels(r)' /\ (r.op = "create" => NeedsAreMet(r)')
  BY <1>1, <1>2, <1>5 DEF CallTrue, PinTravels, NeedsAreMet, RelayMay
<1>8. CallTrue(c)'
  BY <1>1, <1>2, <1>5, <1>6, <1>7 DEF CallTrue
<1>9. FeaturesAreThere' /\ refreshes' \in [contact : RefreshRecords, boot : RefreshRecords]
  BY <1>1, FeaturesStay
<1>10. \A x \in effects : x.by # c
  BY <1>1, NothingDoneYet
<1>11. wire' \subseteq DOMAIN relays /\ \A d \in DOMAIN relays : d # c => (d \in wire' <=> d \in wire)
  BY <1>1, <1>2
<1>12. UNCHANGED <<relayEnv, peer, effects>>
  BY <1>1
<1> QED
  BY <1>4, <1>5, <1>8, <1>9, <1>10, <1>11, <1>12, RelayMoves

(* The peer refuses the request.                                            *)
LEMMA RefusesKeep == RelayInv /\ PeerRefuses => RelayInv'
<1> SUFFICES ASSUME RelayInv, PeerRefuses PROVE RelayInv'
  OBVIOUS
<1>1. PICK c \in wire :
         /\ relays[c].at = "sent" /\ wire' = wire \ {c}
         /\ \E is \in {"refused", "unauthorized"} :
               relays' = [relays EXCEPT ![c].at = "replied", ![c].is = is]
         /\ UNCHANGED <<relayEnv, peer, caps, refreshes, effects>>
  BY DEF PeerRefuses
<1>2. PICK is \in {"refused", "unauthorized"} :
         relays' = [relays EXCEPT ![c].at = "replied", ![c].is = is]
  BY <1>1
<1>3. /\ c \in DOMAIN relays /\ relays[c] \in RelayRecords /\ CallTrue(c)
      /\ relays \in Seq(RelayRecords) /\ wire \subseteq DOMAIN relays
  BY RelayOfType DEF RelayInv, RelayTypes
<1>4. PICK r : r = [relays[c] EXCEPT !.at = "replied", !.is = is]
  OBVIOUS
<1>5. relays' = [relays EXCEPT ![c] = r]
  BY <1>2, <1>3, <1>4
<1>6. /\ r \in RelayRecords /\ r.op = relays[c].op /\ r.pin = relays[c].pin /\ r.sent = relays[c].sent
      /\ r.wants = relays[c].wants /\ r.needs = relays[c].needs /\ r.at = "replied" /\ r.got = relays[c].got
  BY <1>3, <1>4 DEF RelayRecords, RelayAnswers
<1>7. relays'[c] = r
  BY <1>3, <1>5, <1>6, SequenceReplaced
<1>8. PinTravels(r)' /\ (r.op = "create" => NeedsAreMet(r)')
  BY <1>1, <1>3, <1>6 DEF CallTrue, PinTravels, NeedsAreMet, RelayMay
<1>9. CallTrue(c)'
  BY <1>1, <1>3, <1>6, <1>7, <1>8 DEF CallTrue
<1>10. FeaturesAreThere' /\ refreshes' \in [contact : RefreshRecords, boot : RefreshRecords]
  BY <1>1, FeaturesStay
<1>11. \A x \in effects : x.by # c
  BY <1>1, <1>3, NothingDoneYet
<1>12. wire' \subseteq DOMAIN relays /\ \A d \in DOMAIN relays : d # c => (d \in wire' <=> d \in wire)
  BY <1>1, <1>3
<1>13. UNCHANGED <<relayEnv, peer, effects>>
  BY <1>1
<1> QED
  BY <1>3, <1>5, <1>6, <1>9, <1>10, <1>11, <1>12, <1>13, RelayMoves

(* The answer reaches the caller.                                           *)
LEMMA RepliedKeeps == RelayInv /\ Replied => RelayInv'
<1> SUFFICES ASSUME RelayInv, Replied PROVE RelayInv'
  OBVIOUS
<1>1. PICK c \in DOMAIN relays :
         /\ relays[c].at = "replied" /\ Finish(c, AnswerOf(relays[c])) /\ NoteContact
         /\ UNCHANGED <<relayEnv, peer, caps, wire, effects>>
  BY DEF Replied
<1>2. relays[c] \in RelayRecords /\ CallTrue(c)
  BY RelayOfType DEF RelayInv
<1>3. PICK is : is = AnswerOf(relays[c])
  OBVIOUS
<1>4. is \in {relays[c].is, "degraded", "unsupported"} /\ is \in RelayAnswers
  BY <1>2, <1>3 DEF AnswerOf, RelayRecords, RelayAnswers, Unsent
<1>5. relays[c].is \in {"ok", "unfiltered"} => is \in {"degraded", relays[c].is}
  BY <1>3 DEF AnswerOf
<1>6. c \notin wire
  BY <1>1, <1>2 DEF CallTrue
<1>7. ASSUME NEW x \in effects, x.by = c
      PROVE  /\ is \in {"ok", "unfiltered", "degraded", "unreachable"}
             /\ x.op = "list" /\ is = "ok" => x.carried = x.wants
  <2>1. EffectTrue(x)
    BY DEF RelayInv
  <2>2. /\ relays[c].is \in {"ok", "unfiltered"}
        /\ x.op = "list" /\ relays[c].is = "ok" => x.carried = x.wants
    BY <1>1, <1>7, <2>1 DEF EffectTrue
  <2> QED
    BY <1>5, <2>2
<1>8. /\ refreshes' \in [contact : RefreshRecords, boot : RefreshRecords]
      /\ \A who \in DOMAIN refreshes' : who \in DOMAIN refreshes /\ refreshes'[who].got = refreshes[who].got
  <2>1. refreshes \in [contact : RefreshRecords, boot : RefreshRecords]
    BY DEF RelayInv, RelayTypes
  <2>2. CASE refreshes' = refreshes
    BY <2>1, <2>2
  <2>3. CASE refreshes' = [refreshes EXCEPT !.contact.at = "runtimes"]
    BY <2>1, <2>3 DEF RefreshRecords
  <2> QED
    BY <1>1, <2>2, <2>3 DEF NoteContact
<1>9. FeaturesAreThere'
  BY <1>1, <1>8 DEF RelayInv, FeaturesAreThere
<1>10. Finish(c, is) /\ wire' = wire /\ UNCHANGED <<relayEnv, peer, effects>>
  BY <1>1, <1>3
<1> QED
  BY <1>4, <1>6, <1>7, <1>8, <1>9, <1>10, RelayFinishes

(* No answer: whether it was done is not known.                             *)
LEMMA NoAnswerKeeps == RelayInv /\ NoAnswer => RelayInv'
<1> SUFFICES ASSUME RelayInv, NoAnswer PROVE RelayInv'
  OBVIOUS
<1>1. PICK c \in DOMAIN relays :
         /\ relays[c].at \in {"sent", "replied"} /\ Finish(c, "unreachable")
         /\ wire' \in {wire, wire \ {c}}
         /\ UNCHANGED <<relayEnv, peer, caps, refreshes, effects>>
  BY DEF NoAnswer
<1>2. "unreachable" \in RelayAnswers
  BY DEF RelayAnswers
<1>3. FeaturesAreThere' /\ refreshes' \in [contact : RefreshRecords, boot : RefreshRecords]
  BY <1>1, FeaturesStay
<1>4. wire' \in {wire, wire \ {c}} /\ UNCHANGED <<relayEnv, peer, effects>>
  BY <1>1
<1> QED
  BY <1>1, <1>2, <1>3, <1>4, RelayFinishes

-----------------------------------------------------------------------------
(* PeerRelay: the refreshes, and what concerns no call                      *)

(* A refresh asks.                                                          *)
LEMMA RefreshAsksKeeps == RelayInv /\ RefreshAsks => RelayInv'
<1> SUFFICES ASSUME RelayInv, RefreshAsks PROVE RelayInv'
  OBVIOUS
<1>1. PICK who \in DOMAIN refreshes :
         /\ refreshes[who].at \in {"runtimes", "health"}
         /\ refreshes' = [refreshes EXCEPT ![who] = [at |-> RefreshAsked[@.at], got |-> peer.feats]]
         /\ UNCHANGED <<relayEnv, peer, caps, relays, wire, effects>>
  BY DEF RefreshAsks
<1>2. refreshes \in [contact : RefreshRecords, boot : RefreshRecords] /\ peer \in PeerTypes
  BY DEF RelayInv, RelayTypes
<1>3. PICK r : r = [at |-> RefreshAsked[refreshes[who].at], got |-> peer.feats]
  OBVIOUS
<1>4. r \in RefreshRecords /\ r.got = peer.feats
  <2>1. RefreshAsked["runtimes"] = "runtimes asked" /\ RefreshAsked["health"] = "health asked"
    BY DEF RefreshAsked
  <2>2. r.at \in {"runtimes asked", "health asked"} /\ r.got = peer.feats /\ peer.feats \in SUBSET Features
    BY <1>1, <1>2, <1>3, <2>1 DEF PeerTypes
  <2>3. r = [at |-> r.at, got |-> r.got]
    BY <1>3
  <2> QED
    BY <2>2, <2>3 DEF RefreshRecords
<1>5. refreshes' = [refreshes EXCEPT ![who] = r]
  BY <1>1, <1>3
<1>6. refreshes' \in [contact : RefreshRecords, boot : RefreshRecords]
  BY <1>2, <1>4, <1>5
<1>7. FeaturesAreThere' /\ RunStays'
  BY <1>1, <1>2, <1>4, <1>5 DEF RelayInv, FeaturesAreThere, RunStays, RelayMay
<1>8. peer' = peer /\ UNCHANGED <<relayEnv, relays, wire, effects>>
  BY <1>1
<1> QED
  BY <1>2, <1>6, <1>7, <1>8, RelaysStand

(* A refresh learns.                                                        *)
LEMMA RefreshLearnsKeeps == RelayInv /\ RefreshLearns => RelayInv'
<1> SUFFICES ASSUME RelayInv, RefreshLearns PROVE RelayInv'
  OBVIOUS
<1>1. PICK who \in DOMAIN refreshes :
         /\ caps' \in {caps, refreshes[who].got}
         /\ \/ refreshes' = [refreshes EXCEPT ![who].at = "health"]
            \/ refreshes' = [refreshes EXCEPT ![who] = NoRefresh]
         /\ UNCHANGED <<relayEnv, peer, relays, wire, effects>>
  BY DEF RefreshLearns
<1>2. refreshes \in [contact : RefreshRecords, boot : RefreshRecords] /\ peer \in PeerTypes
  BY DEF RelayInv, RelayTypes
<1>3. /\ refreshes' \in [contact : RefreshRecords, boot : RefreshRecords]
      /\ \A w \in DOMAIN refreshes' : w \in DOMAIN refreshes /\ refreshes'[w].got \in {{}, refreshes[w].got}
  <2>1. CASE refreshes' = [refreshes EXCEPT ![who].at = "health"]
    BY <1>2, <2>1 DEF RefreshRecords
  <2>2. CASE refreshes' = [refreshes EXCEPT ![who] = NoRefresh]
    BY <1>2, <2>2 DEF RefreshRecords, NoRefresh
  <2> QED
    BY <1>1, <2>1, <2>2
<1>4. FeaturesAreThere' /\ RunStays'
  BY <1>1, <1>3 DEF RelayInv, FeaturesAreThere, RunStays, RelayMay
<1>5. peer' = peer /\ UNCHANGED <<relayEnv, relays, wire, effects>>
  BY <1>1
<1> QED
  BY <1>2, <1>3, <1>4, <1>5, RelaysStand

(* A refresh fails.                                                         *)
LEMMA RefreshFailsKeeps == RelayInv /\ RefreshFails => RelayInv'
<1> SUFFICES ASSUME RelayInv, RefreshFails PROVE RelayInv'
  OBVIOUS
<1>1. PICK who \in DOMAIN refreshes :
         /\ refreshes' = [refreshes EXCEPT ![who] = NoRefresh]
         /\ UNCHANGED <<relayEnv, peer, caps, relays, wire, effects>>
  BY DEF RefreshFails
<1>2. refreshes \in [contact : RefreshRecords, boot : RefreshRecords] /\ peer \in PeerTypes
  BY DEF RelayInv, RelayTypes
<1>3. /\ refreshes' \in [contact : RefreshRecords, boot : RefreshRecords]
      /\ \A w \in DOMAIN refreshes' : w \in DOMAIN refreshes /\ refreshes'[w].got \in {{}, refreshes[w].got}
  BY <1>1, <1>2 DEF RefreshRecords, NoRefresh
<1>4. FeaturesAreThere' /\ RunStays'
  BY <1>1, <1>3 DEF RelayInv, FeaturesAreThere, RunStays, RelayMay
<1>5. peer' = peer /\ UNCHANGED <<relayEnv, relays, wire, effects>>
  BY <1>1
<1> QED
  BY <1>2, <1>3, <1>4, <1>5, RelaysStand

(* A step that leaves the calls and the peer's build alone.                 *)
LEMMA RelayStands ==
  ASSUME RelayInv, UNCHANGED <<relayEnv, caps, refreshes, relays, wire, effects>>,
         peer' = peer \/ peer' = [peer EXCEPT !.epoch = @ + 1]
  PROVE  RelayInv'
<1>1. refreshes \in [contact : RefreshRecords, boot : RefreshRecords] /\ peer \in PeerTypes
  BY DEF RelayInv, RelayTypes
<1>2. peer' \in PeerTypes /\ peer'.feats = peer.feats /\ peer'.run = peer.run
  BY <1>1 DEF PeerTypes
<1>3. FeaturesAreThere' /\ RunStays'
  BY <1>2 DEF RelayInv, FeaturesAreThere, RunStays, RelayMay
<1> QED
  BY <1>1, <1>2, <1>3, RelaysStand

-----------------------------------------------------------------------------
(* PeerRelay: new calls                                                     *)

(* A create, new or with the key of one whose caller was told nothing.      *)
LEMMA CreateKeeps == RelayInv /\ CreateCall => RelayInv'
<1> SUFFICES ASSUME RelayInv, CreateCall PROVE RelayInv'
  OBVIOUS
<1>1. Len(relays) + 1 \in Nat
  BY LenProperties DEF RelayInv, RelayTypes
<1>2. ASSUME NEW wants \in SUBSET Features, NEW key \in Nat, "outside" \in wants => "settings" \in wants,
             Relay("create", 0, 0, wants, key, Needs(wants))
      PROVE  RelayInv'
  <2>1. Needs(wants) = wants \cap Confirmable /\ Needs(wants) \in SUBSET Confirmable
    BY DEF Needs, Confirmable
  <2>2. "create" \in RelayOps /\ 0 \in Nat
    BY DEF RelayOps
  <2> QED
    BY <1>2, <2>1, <2>2, RelayBegins
<1>3. CASE \E wants \in SUBSET Features :
              /\ "outside" \in wants => "settings" \in wants
              /\ Relay("create", 0, 0, wants, Len(relays) + 1, Needs(wants))
  BY <1>1, <1>2, <1>3
<1>4. CASE \E c \in DOMAIN relays :
              /\ relays[c].op = "create" /\ relays[c].is = "unreachable"
              /\ Relay("create", 0, 0, relays[c].wants, relays[c].key, Needs(relays[c].wants))
  <2>1. PICK c \in DOMAIN relays :
           /\ relays[c].op = "create"
           /\ Relay("create", 0, 0, relays[c].wants, relays[c].key, Needs(relays[c].wants))
    BY <1>4
  <2>2. /\ relays[c].wants \in SUBSET Features /\ relays[c].key \in Nat
        /\ "outside" \in relays[c].wants => "settings" \in relays[c].wants
    BY <2>1, RelayOfType DEF RelayInv, CallTrue, RelayRecords
  <2> QED
    BY <1>2, <2>1, <2>2
<1> QED
  BY <1>3, <1>4 DEF CreateCall

(* A call of another operation, with the run it is for.                     *)
LEMMA PlainCallKeeps ==
  ASSUME RelayInv, NEW op \in RelayOps \ {"create"}, NEW pin \in Nat, NEW sent \in Nat,
         NEW wants \in SUBSET Features, Relay(op, pin, sent, wants, 0, {}),
         pin = 0 \/ sent = pin \/ (~RelayMay("reuse") /\ pin = 1)
  PROVE  RelayInv'
<1>1. op \in RelayOps /\ op # "create" /\ 0 \in Nat /\ {} \in SUBSET Confirmable
  OBVIOUS
<1> QED
  BY <1>1, RelayBegins

(* A discard names its run only to this driver.                             *)
LEMMA DiscardKeeps == RelayInv /\ RelaySteady /\ DiscardCall => RelayInv'
<1> SUFFICES ASSUME RelayInv, RelaySteady, DiscardCall PROVE RelayInv'
  OBVIOUS
<1>1. PICK pin \in IF RelayMay("pin") THEN 0 .. peer.run ELSE {0} : Relay("discard", pin, 0, {}, 0, {})
  BY DEF DiscardCall
<1>2. peer.run \in Nat /\ "discard" \in relayEnv.ops
  BY <1>1 DEF RelayInv, RelayTypes, PeerTypes, Relay
<1>3. pin \in Nat /\ (pin # 0 => RelayMay("pin") /\ pin \in 0 .. peer.run)
  BY <1>1, <1>2
<1>4. pin # 0 => ~RelayMay("reuse") /\ peer.run = 1
  BY <1>2, <1>3 DEF RelaySteady, RelayInv, RunStays
<1>5. pin = 0 \/ (~RelayMay("reuse") /\ pin = 1)
  BY <1>3, <1>4
<1>6. "discard" \in RelayOps \ {"create"} /\ {} \in SUBSET Features /\ 0 \in Nat
  BY DEF RelayOps
<1> QED
  BY <1>1, <1>3, <1>5, <1>6, PlainCallKeeps

(* The calls of the other operations.                                       *)
LEMMA OtherCallsKeep ==
  ASSUME RelayInv,
         \/ SendCall \/ InterruptCall \/ RespondCall \/ StateCall \/ CloseCall \/ RenameCall
         \/ KeysCall \/ LabelsCall \/ ListCall \/ ListClosedCall
  PROVE  RelayInv'
<1>1. peer.run \in Nat /\ \A pin \in 0 .. peer.run : pin \in Nat
  BY DEF RelayInv, RelayTypes, PeerTypes
<1>2. PICK op \in {"send", "interrupt", "respond", "state", "close", "rename", "keys", "labels", "list",
                   "closed"}, pin \in 0 .. peer.run, wants \in SUBSET {"labels"} :
              Relay(op, pin, pin, wants, 0, {})
  <2>1. ASSUME NEW op \in {"send", "interrupt", "respond", "state", "closed"}, Relay(op, 0, 0, {}, 0, {})
        PROVE  \E pin \in 0 .. peer.run, wants \in SUBSET {"labels"} : Relay(op, pin, pin, wants, 0, {})
    <3>1. 0 \in 0 .. peer.run /\ {} \in SUBSET {"labels"}
      BY <1>1
    <3> QED
      BY <2>1, <3>1
  <2>2. CASE SendCall \/ InterruptCall \/ RespondCall \/ StateCall \/ ListClosedCall
    BY <2>1, <2>2 DEF SendCall, InterruptCall, RespondCall, StateCall, ListClosedCall
  <2>3. CASE CloseCall \/ RenameCall \/ KeysCall \/ LabelsCall
    <3>1. {} \in SUBSET {"labels"}
      OBVIOUS
    <3> QED
      BY <2>3, <3>1 DEF CloseCall, RenameCall, KeysCall, LabelsCall
  <2>4. CASE ListCall
    <3>1. 0 \in 0 .. peer.run
      BY <1>1
    <3> QED
      BY <2>4, <3>1 DEF ListCall
  <2> QED
    BY <2>2, <2>3, <2>4
<1>3. op \in RelayOps \ {"create"} /\ wants \in SUBSET Features /\ pin \in Nat
  BY <1>1 DEF RelayOps, Features
<1> QED
  BY <1>2, <1>3, PlainCallKeeps

-----------------------------------------------------------------------------
(* PeerRelay: what it promises                                              *)

(* Every step keeps the invariant.                                          *)
LEMMA RelayInvStep == RelayInv /\ RelaySteady /\ [RelayNext]_relayVars => RelayInv'
<1> SUFFICES ASSUME RelayInv, RelaySteady, [RelayNext]_relayVars PROVE RelayInv'
  OBVIOUS
<1>1. CASE PeerPublishes \/ PeerStreams \/ Connect \/ Consume \/ Cut \/ TakeRelayed
  BY <1>1, RelayStands DEF PeerPublishes, PeerStreams, Connect, Consume, Cut, TakeRelayed, relayCallVars
<1>2. CASE PeerRestarts
  BY <1>2, RelayStands DEF PeerRestarts, relayCallVars
<1>3. CASE Ages
  BY <1>3, RelayStands DEF Ages
<1>4. CASE UNCHANGED relayVars
  BY <1>4, RelayStands DEF relayVars, relayCallVars
<1>5. CASE Upgrade \/ Downgrade \/ Reuse \/ PeerReceives \/ PeerRefuses
  BY <1>5, UpgradeKeeps, DowngradeKeeps, ReuseKeeps, ReceiveKeeps, RefusesKeep
<1>6. CASE \/ CreateCall \/ SendCall \/ InterruptCall \/ RespondCall \/ StateCall
           \/ CloseCall \/ RenameCall \/ KeysCall \/ LabelsCall \/ DiscardCall
           \/ ListCall \/ ListClosedCall
  BY <1>6, CreateKeeps, DiscardKeeps, OtherCallsKeep
<1>7. CASE NotDialled \/ Confirmed \/ AskHealth \/ HealthAnswers \/ HealthFails \/ Dispatch \/ Replied \/ NoAnswer
  BY <1>7, NotDialledKeeps, ConfirmedKeeps, AskHealthKeeps, HealthAnswersKeep, HealthFailsKeeps,
     DispatchKeeps, RepliedKeeps, NoAnswerKeeps
<1>8. CASE RefreshAsks \/ RefreshLearns \/ RefreshFails
  BY <1>8, RefreshAsksKeeps, RefreshLearnsKeeps, RefreshFailsKeeps
<1> QED
  BY <1>1, <1>2, <1>3, <1>4, <1>5, <1>6, <1>7, <1>8 DEF RelayNext

(* It holds at first.                                                       *)
LEMMA RelayInvInit == RelayInit => RelayInv
<1> SUFFICES ASSUME RelayInit PROVE RelayInv
  OBVIOUS
<1>1. /\ relayEnv \in RelayEnvironments /\ caps = {} /\ relays = <<>> /\ wire = {} /\ effects = {}
      /\ refreshes = [contact |-> NoRefresh,
                      boot |-> IF RelayMay("boot") THEN [at |-> "runtimes", got |-> {}] ELSE NoRefresh]
  BY DEF RelayInit
<1>2. PICK feats \in Builds : peer = [feats |-> feats, run |-> 1, epoch |-> 1]
  BY DEF RelayInit
<1>3. peer \in PeerTypes /\ peer.run = 1
  BY <1>2 DEF PeerTypes, Builds, Features
<1>4. refreshes \in [contact : RefreshRecords, boot : RefreshRecords]
      /\ \A who \in DOMAIN refreshes : refreshes[who].got = {}
  BY <1>1 DEF RefreshRecords, NoRefresh
<1>5. relays \in Seq(RelayRecords) /\ DOMAIN relays = {}
  BY <1>1
<1> QED
  BY <1>1, <1>3, <1>4, <1>5 DEF RelayInv, RelayTypes, FeaturesAreThere, KeysOnce, RunStays

(* What may happen to the peer does not change.                             *)
LEMMA RelaySteadyStep == [RelayNext]_relayVars => (RelaySteady' <=> RelaySteady)
<1> SUFFICES ASSUME [RelayNext]_relayVars PROVE RelaySteady' <=> RelaySteady
  OBVIOUS
<1>1. relayEnv' = relayEnv
  <2>1. CASE Upgrade \/ Downgrade \/ Reuse \/ UNCHANGED relayVars
    BY <2>1 DEF Upgrade, Downgrade, Reuse, relayVars
  <2>2. CASE PeerReceives \/ PeerRefuses
    BY <2>2 DEF PeerReceives, PeerRefuses
  <2>3. CASE CreateCall \/ SendCall \/ InterruptCall \/ RespondCall \/ StateCall
    BY <2>3 DEF CreateCall, SendCall, InterruptCall, RespondCall, StateCall, Relay
  <2>4. CASE CloseCall \/ RenameCall \/ KeysCall \/ LabelsCall \/ DiscardCall \/ ListCall \/ ListClosedCall
    BY <2>4 DEF CloseCall, RenameCall, KeysCall, LabelsCall, DiscardCall, ListCall, ListClosedCall, Relay
  <2>5. CASE NotDialled \/ Confirmed \/ AskHealth \/ HealthAnswers \/ HealthFails \/ Dispatch \/ Replied \/ NoAnswer
    BY <2>5 DEF NotDialled, Confirmed, AskHealth, HealthAnswers, HealthFails, Dispatch, Replied, NoAnswer
  <2>6. CASE RefreshAsks \/ RefreshLearns \/ RefreshFails \/ Ages
    BY <2>6 DEF RefreshAsks, RefreshLearns, RefreshFails, Ages
  <2>7. CASE PeerPublishes \/ PeerStreams \/ PeerRestarts \/ Connect \/ Consume \/ Cut \/ TakeRelayed
    BY <2>7 DEF PeerPublishes, PeerStreams, PeerRestarts, Connect, Consume, Cut, TakeRelayed
  <2> QED
    BY <2>1, <2>2, <2>3, <2>4, <2>5, <2>6, <2>7 DEF RelayNext
<1> QED
  BY <1>1 DEF RelaySteady, RelayMay

(* While the peer keeps its features, and no name is used again under a     *)
(* discard: no session starts without something its create asked for, one   *)
(* starts for each key, a call that is refused here did nothing there, a    *)
(* list that reads as complete was filtered, and a call that names a run    *)
(* reaches that run.                                                        *)
THEOREM RelaysAreAsAsked == RelaySpec => [](RelaySteady => RelayedAsAsked)
<1>1. RelayInit => (RelaySteady => RelayInv)
  BY RelayInvInit
<1>2. (RelaySteady => RelayInv) /\ [RelayNext]_relayVars => (RelaySteady => RelayInv)'
  BY RelayInvStep, RelaySteadyStep
<1>3. (RelaySteady => RelayInv) => (RelaySteady => RelayedAsAsked)
  BY RelayInvTells
<1> QED
  BY <1>1, <1>2, <1>3, PTL DEF RelaySpec

-----------------------------------------------------------------------------
(* PeerRelay: the inductive invariant of the events                         *)

FeedItems == [kind : {"event", "resync", "down"}, cursor : Nat, epoch : Nat]
Places == [cursor : Nat, epoch : Nat]
Connections == [on : BOOLEAN, last : Places, queue : Seq(FeedItems), channel : Seq(FeedItems)]

FeedTypes ==
    /\ relayEnv \in RelayEnvironments /\ peer \in PeerTypes /\ feed \in Seq(FeedItems) /\ resume \in Places
    /\ atStart \in Nat /\ conn \in Connections
    /\ outbox \in Seq(FeedItems) /\ relayed \in Seq(FeedItems)
    /\ ~conn.on => conn.last = Nowhere /\ conn.queue = <<>> /\ conn.channel = <<>>

(* The events of the peer's epoch are the last ones, in order.              *)
FeedFrom(b) ==
    /\ b \in 0 .. Len(feed) /\ b <= atStart /\ atStart <= Len(feed)
    /\ \A n \in 1 .. b : feed[n].epoch < peer.epoch
    /\ \A n \in (b + 1) .. Len(feed) :
          feed[n].kind = "event" /\ feed[n].epoch = peer.epoch /\ feed[n].cursor = n - b
FeedIsTrue == \E b : FeedFrom(b)

(* All that is under way from the hub of the peer.                          *)
UnderWay == conn.queue \o conn.channel

(* Of the first top events of epoch e, all after a cursor are in q, but for *)
(* those that were skipped.                                                 *)
AllTold(q, from, top, e, skipped) ==
    \A c \in (from + 1) .. top : <<c, e>> \in skipped \/ \E l \in 1 .. Len(q) : q[l].cursor = c

(* What is under way is in order, and ends with the last event.             *)
QueueIsTrue(q, top, e, skipped) ==
    /\ \A k \in 1 .. Len(q) :
          \/ q[k].kind = "resync" /\ q[k].cursor = 0
          \/ /\ q[k].kind = "event" /\ q[k].epoch = e /\ q[k].cursor > 0 /\ q[k].cursor <= top
             /\ AllTold(q, q[k].cursor, top, e, skipped)
    /\ \A k, l \in 1 .. Len(q) : k < l => q[k].cursor < q[l].cursor

Follows(q, item, top, e, skipped) ==
    /\ item.epoch = e /\ AllTold(q, item.cursor, top, e, skipped)
    /\ \A l \in 1 .. Len(q) : item.cursor < q[l].cursor

(* All that was put into the channel.                                       *)
Stream == relayed \o outbox

IsLast(s, i) ==
    /\ i \in 1 .. Len(s) /\ s[i].kind = "event"
    /\ \A k \in (i + 1) .. Len(s) : s[k].kind = "down"

(* The last event is where the reader resumes, and what is under way        *)
(* follows it or starts with a resync.                                      *)
LastIsTrue(s, place, on, q, top, e, skipped) ==
    \A i \in 1 .. Len(s) : IsLast(s, i) =>
       /\ s[i].cursor > 0 /\ place = [cursor |-> s[i].cursor, epoch |-> s[i].epoch]
       /\ s[i].epoch <= e /\ (s[i].epoch = e => s[i].cursor <= top)
       /\ on /\ (q # <<>> => q[1].kind = "event") => Follows(q, s[i], top, e, skipped)

(* One event after another: later ones, with nothing but what was skipped   *)
(* between them.                                                            *)
Succeeds(x, y, skipped) ==
    /\ y.epoch = x.epoch /\ x.cursor < y.cursor
    /\ \A c \in (x.cursor + 1) .. (y.cursor - 1) : <<c, x.epoch>> \in skipped

StreamIsExact(s, skipped) ==
    \A i, j \in 1 .. Len(s) :
       /\ i < j /\ s[i].kind = "event" /\ s[j].kind = "event"
       /\ \A k \in (i + 1) .. (j - 1) : s[k].kind = "down"
       => Succeeds(s[i], s[j], skipped)

FeedInv ==
    /\ FeedTypes /\ FeedIsTrue
    /\ QueueIsTrue(UnderWay, Published, peer.epoch, unsaid)
    /\ LastIsTrue(Stream, ResumeFrom(conn.last), conn.on, UnderWay, Published, peer.epoch, unsaid)
    /\ StreamIsExact(Stream, unsaid)

-----------------------------------------------------------------------------
(* PeerRelay: what is under way, and the stream                             *)

(* What is in a sequence of items.                                          *)
LEMMA ItemsTyped ==
  ASSUME NEW q \in Seq(FeedItems)
  PROVE  /\ Len(q) \in Nat
         /\ \A k \in 1 .. Len(q) : q[k] \in FeedItems /\ q[k].cursor \in Nat /\ q[k].epoch \in Nat
<1>1. Len(q) \in Nat /\ \A k \in 1 .. Len(q) : q[k] \in FeedItems
  BY LenProperties, ElementOfSeq
<1> QED
  BY <1>1 DEF FeedItems

(* The peer leaves out its next event.                                      *)
LEMMA QueueIsSkipped ==
  ASSUME NEW q \in Seq(FeedItems), NEW top \in Nat, NEW e, NEW skipped, QueueIsTrue(q, top, e, skipped)
  PROVE  QueueIsTrue(q, top + 1, e, skipped \cup {<<top + 1, e>>})
<1>1. Len(q) \in Nat /\ \A k \in 1 .. Len(q) : q[k].cursor \in Nat
  BY ItemsTyped
<1>2. ASSUME NEW k \in 1 .. Len(q), AllTold(q, q[k].cursor, top, e, skipped)
      PROVE  AllTold(q, q[k].cursor, top + 1, e, skipped \cup {<<top + 1, e>>})
  <2>1. \A c \in (q[k].cursor + 1) .. (top + 1) : c = top + 1 \/ c \in (q[k].cursor + 1) .. top
    BY <1>1
  <2> QED
    BY <1>2, <2>1 DEF AllTold
<1>3. \A k \in 1 .. Len(q) : q[k].cursor <= top => q[k].cursor <= top + 1
  BY <1>1
<1> QED
  BY <1>2, <1>3 DEF QueueIsTrue

(* It goes on the way.                                                      *)
LEMMA QueueIsLonger ==
  ASSUME NEW q \in Seq(FeedItems), NEW top \in Nat, NEW e, NEW skipped, QueueIsTrue(q, top, e, skipped),
         NEW t \in Seq(FeedItems), NEW x \in FeedItems, Len(t) = Len(q) + 1, t[Len(q) + 1] = x,
         \A k \in 1 .. Len(q) : t[k] = q[k], x.kind = "event", x.cursor = top + 1, x.epoch = e
  PROVE  QueueIsTrue(t, top + 1, e, skipped)
<1>1. /\ Len(q) \in Nat /\ \A k \in 1 .. Len(q) : q[k].cursor \in Nat
  BY ItemsTyped
<1>2. \A k \in 1 .. Len(t) : k \in 1 .. Len(q) \/ k = Len(q) + 1
  BY <1>1
<1>3. ASSUME NEW k \in 1 .. Len(q), AllTold(q, q[k].cursor, top, e, skipped)
      PROVE  AllTold(t, q[k].cursor, top + 1, e, skipped)
  <2>1. SUFFICES ASSUME NEW c \in (q[k].cursor + 1) .. (top + 1), <<c, e>> \notin skipped
                 PROVE  \E l \in 1 .. Len(t) : t[l].cursor = c
    BY DEF AllTold
  <2>2. c = top + 1 \/ c \in (q[k].cursor + 1) .. top
    BY <1>1
  <2>3. CASE c = top + 1
    BY <2>3, <1>1
  <2>4. CASE c \in (q[k].cursor + 1) .. top
    <3>1. PICK l \in 1 .. Len(q) : q[l].cursor = c
      BY <1>3, <2>1, <2>4 DEF AllTold
    <3> QED
      BY <3>1, <1>1
  <2> QED
    BY <2>2, <2>3, <2>4
<1>4. AllTold(t, top + 1, top + 1, e, skipped)
  BY DEF AllTold
<1>5. ASSUME NEW k \in 1 .. Len(t)
      PROVE  \/ t[k].kind = "resync" /\ t[k].cursor = 0
             \/ /\ t[k].kind = "event" /\ t[k].epoch = e /\ t[k].cursor > 0 /\ t[k].cursor <= top + 1
                /\ AllTold(t, t[k].cursor, top + 1, e, skipped)
  <2>1. CASE k = Len(q) + 1
    BY <2>1, <1>4
  <2>2. CASE k \in 1 .. Len(q)
    <3>1. q[k].cursor <= top => q[k].cursor <= top + 1
      BY <2>2, <1>1
    <3> QED
      BY <2>2, <3>1, <1>3 DEF QueueIsTrue
  <2> QED
    BY <1>2, <2>1, <2>2
<1>6. ASSUME NEW k \in 1 .. Len(t), NEW l \in 1 .. Len(t), k < l PROVE t[k].cursor < t[l].cursor
  <2>1. k \in 1 .. Len(q)
    BY <1>1, <1>6
  <2>2. CASE l \in 1 .. Len(q)
    BY <2>1, <2>2, <1>6 DEF QueueIsTrue
  <2>3. CASE l = Len(q) + 1
    <3>1. q[k].cursor <= top
      BY <2>1 DEF QueueIsTrue
    <3> QED
      BY <2>1, <2>3, <3>1, <1>1
  <2> QED
    BY <1>2, <2>2, <2>3
<1> QED
  BY <1>5, <1>6 DEF QueueIsTrue

(* The first is taken.                                                      *)
LEMMA QueueIsShorter ==
  ASSUME NEW q \in Seq(FeedItems), NEW top \in Nat, NEW e, NEW skipped, QueueIsTrue(q, top, e, skipped),
         NEW t \in Seq(FeedItems), Len(t) = Len(q) - 1, \A k \in 1 .. Len(t) : t[k] = q[k + 1], Len(q) > 0
  PROVE  /\ QueueIsTrue(t, top, e, skipped)
         /\ q[1].kind = "event" => Follows(t, q[1], top, e, skipped)
<1>1. /\ Len(q) \in Nat /\ \A k \in 1 .. Len(q) : q[k].cursor \in Nat
  BY ItemsTyped
<1>2. \A k \in 1 .. Len(t) : k + 1 \in 1 .. Len(q) /\ 1 < k + 1 /\ t[k] = q[k + 1]
  BY <1>1
<1>3. 1 \in 1 .. Len(q) /\ \A k, l \in 1 .. Len(q) : k < l => q[k].cursor < q[l].cursor
  BY <1>1 DEF QueueIsTrue
<1>4. \A l \in 1 .. Len(t) : q[1].cursor < t[l].cursor
  BY <1>2, <1>3
<1>5. ASSUME NEW from \in Nat, from >= q[1].cursor, AllTold(q, from, top, e, skipped)
      PROVE  AllTold(t, from, top, e, skipped)
  <2>1. SUFFICES ASSUME NEW c \in (from + 1) .. top, <<c, e>> \notin skipped
                 PROVE  \E l \in 1 .. Len(t) : t[l].cursor = c
    BY DEF AllTold
  <2>2. PICK l \in 1 .. Len(q) : q[l].cursor = c
    BY <1>5, <2>1 DEF AllTold
  <2>3. l # 1
    BY <2>2, <1>1, <1>3, <1>5
  <2>4. l - 1 \in 1 .. Len(t) /\ (l - 1) + 1 = l
    BY <2>3, <1>1
  <2> QED
    BY <2>2, <2>4
<1>6. QueueIsTrue(t, top, e, skipped)
  <2>1. ASSUME NEW k \in 1 .. Len(t)
        PROVE  \/ t[k].kind = "resync" /\ t[k].cursor = 0
               \/ /\ t[k].kind = "event" /\ t[k].epoch = e /\ t[k].cursor > 0 /\ t[k].cursor <= top
                  /\ AllTold(t, t[k].cursor, top, e, skipped)
    <3>1. t[k].cursor \in Nat /\ t[k].cursor >= q[1].cursor
      <4>1. k + 1 \in 1 .. Len(q) /\ t[k] = q[k + 1]
        BY <1>2
      <4>2. t[k].cursor \in Nat
        BY <4>1, <1>1
      <4>3. q[1].cursor \in Nat /\ q[1].cursor < t[k].cursor
        BY <1>1, <1>3, <1>4
      <4> QED
        BY <4>2, <4>3
    <3> QED
      BY <3>1, <1>2, <1>5 DEF QueueIsTrue
  <2>2. ASSUME NEW k \in 1 .. Len(t), NEW l \in 1 .. Len(t), k < l PROVE t[k].cursor < t[l].cursor
    <3>1. k + 1 \in 1 .. Len(q) /\ l + 1 \in 1 .. Len(q) /\ k + 1 < l + 1
      BY <1>2, <2>2
    <3> QED
      BY <3>1, <1>3
  <2> QED
    BY <2>1, <2>2 DEF QueueIsTrue
<1>7. ASSUME q[1].kind = "event" PROVE Follows(t, q[1], top, e, skipped)
  <2>1. q[1].epoch = e /\ AllTold(q, q[1].cursor, top, e, skipped)
    BY <1>3, <1>7 DEF QueueIsTrue
  <2>2. AllTold(t, q[1].cursor, top, e, skipped)
    BY <2>1, <1>1, <1>3, <1>5
  <2> QED
    BY <2>1, <2>2, <1>4 DEF Follows
<1> QED
  BY <1>6, <1>7

(* What follows an event follows it when the peer leaves out the next one.  *)
LEMMA LastIsSkipped ==
  ASSUME NEW s \in Seq(FeedItems), NEW place, NEW on, NEW q \in Seq(FeedItems), NEW top \in Nat, NEW e \in Nat,
         NEW skipped, LastIsTrue(s, place, on, q, top, e, skipped)
  PROVE  LastIsTrue(s, place, on, q, top + 1, e, skipped \cup {<<top + 1, e>>})
<1>1. SUFFICES ASSUME NEW i \in 1 .. Len(s), IsLast(s, i)
      PROVE  /\ s[i].cursor > 0 /\ place = [cursor |-> s[i].cursor, epoch |-> s[i].epoch]
             /\ s[i].epoch <= e /\ (s[i].epoch = e => s[i].cursor <= top + 1)
             /\ on /\ (q # <<>> => q[1].kind = "event")
                   => Follows(q, s[i], top + 1, e, skipped \cup {<<top + 1, e>>})
  BY DEF LastIsTrue
<1>2. /\ s[i].cursor > 0 /\ place = [cursor |-> s[i].cursor, epoch |-> s[i].epoch]
      /\ s[i].epoch <= e /\ (s[i].epoch = e => s[i].cursor <= top)
      /\ on /\ (q # <<>> => q[1].kind = "event") => Follows(q, s[i], top, e, skipped)
  BY <1>1 DEF LastIsTrue
<1>3. s[i].cursor \in Nat
  BY ItemsTyped
<1>4. s[i].cursor <= top => s[i].cursor <= top + 1
  BY <1>3
<1>5. ASSUME Follows(q, s[i], top, e, skipped)
      PROVE  Follows(q, s[i], top + 1, e, skipped \cup {<<top + 1, e>>})
  <2>1. \A c \in (s[i].cursor + 1) .. (top + 1) : c = top + 1 \/ c \in (s[i].cursor + 1) .. top
    BY <1>3
  <2> QED
    BY <1>5, <2>1 DEF Follows, AllTold
<1> QED
  BY <1>2, <1>4, <1>5

(* It follows it when the next one goes on the way.                         *)
LEMMA LastIsFollowed ==
  ASSUME NEW s \in Seq(FeedItems), NEW place, NEW on, NEW q \in Seq(FeedItems), NEW top \in Nat, NEW e \in Nat,
         NEW skipped, LastIsTrue(s, place, on, q, top, e, skipped),
         NEW t \in Seq(FeedItems), NEW x \in FeedItems, Len(t) = Len(q) + 1, t[Len(q) + 1] = x,
         \A k \in 1 .. Len(q) : t[k] = q[k], x.kind = "event", x.cursor = top + 1, x.epoch = e
  PROVE  LastIsTrue(s, place, on, t, top + 1, e, skipped)
<1>1. SUFFICES ASSUME NEW i \in 1 .. Len(s), IsLast(s, i)
      PROVE  /\ s[i].cursor > 0 /\ place = [cursor |-> s[i].cursor, epoch |-> s[i].epoch]
             /\ s[i].epoch <= e /\ (s[i].epoch = e => s[i].cursor <= top + 1)
             /\ on /\ (t # <<>> => t[1].kind = "event") => Follows(t, s[i], top + 1, e, skipped)
  BY DEF LastIsTrue
<1>2. /\ s[i].cursor > 0 /\ place = [cursor |-> s[i].cursor, epoch |-> s[i].epoch]
      /\ s[i].epoch <= e /\ (s[i].epoch = e => s[i].cursor <= top)
      /\ on /\ (q # <<>> => q[1].kind = "event") => Follows(q, s[i], top, e, skipped)
  BY <1>1 DEF LastIsTrue
<1>3. s[i].cursor \in Nat /\ Len(q) \in Nat /\ \A k \in 1 .. Len(q) : q[k].cursor \in Nat
  BY ItemsTyped
<1>4. s[i].cursor <= top => s[i].cursor <= top + 1
  BY <1>3
<1>5. (t # <<>> => t[1].kind = "event") => (q # <<>> => q[1].kind = "event")
  <2>1. t # <<>>
    BY <1>3, EmptySeq
  <2>2. q # <<>> => Len(q) > 0
    BY <1>3, EmptySeq
  <2>3. q # <<>> => t[1] = q[1]
    BY <2>2, <1>3
  <2> QED
    BY <2>1, <2>3
<1>6. ASSUME Follows(q, s[i], top, e, skipped) PROVE Follows(t, s[i], top + 1, e, skipped)
  <2>1. s[i].epoch = e /\ AllTold(q, s[i].cursor, top, e, skipped) /\ \A l \in 1 .. Len(q) : s[i].cursor < q[l].cursor
    BY <1>6 DEF Follows
  <2>2. \A l \in 1 .. Len(t) : s[i].cursor < t[l].cursor
    <3> TAKE l \in 1 .. Len(t)
    <3>1. CASE l = Len(q) + 1
      <4>1. s[i].cursor < top + 1
        BY <2>1, <1>2, <1>3
      <4> QED
        BY <3>1, <4>1
    <3>2. CASE l # Len(q) + 1
      <4>1. l \in 1 .. Len(q)
        BY <3>2, <1>3
      <4> QED
        BY <4>1, <2>1
    <3> QED
      BY <3>1, <3>2
  <2>3. AllTold(t, s[i].cursor, top + 1, e, skipped)
    <3>1. SUFFICES ASSUME NEW c \in (s[i].cursor + 1) .. (top + 1), <<c, e>> \notin skipped
                   PROVE  \E l \in 1 .. Len(t) : t[l].cursor = c
      BY DEF AllTold
    <3>2. CASE c = top + 1
      <4>1. Len(q) + 1 \in 1 .. Len(t) /\ t[Len(q) + 1].cursor = top + 1
        BY <1>3
      <4> QED
        BY <3>2, <4>1
    <3>3. CASE c # top + 1
      <4>1. c \in (s[i].cursor + 1) .. top
        BY <3>3, <1>3
      <4>2. PICK l \in 1 .. Len(q) : q[l].cursor = c
        BY <2>1, <3>1, <4>1 DEF AllTold
      <4> QED
        BY <4>2, <1>3
    <3> QED
      BY <3>2, <3>3
  <2> QED
    BY <2>1, <2>2, <2>3 DEF Follows
<1> QED
  BY <1>2, <1>4, <1>5, <1>6

(* What comes next on the way follows the last event, and the stream stays  *)
(* exact.                                                                   *)
LEMMA NextSucceeds ==
  ASSUME NEW s \in Seq(FeedItems), NEW place, NEW q \in Seq(FeedItems), NEW top \in Nat, NEW e, NEW skipped,
         LastIsTrue(s, place, TRUE, q, top, e, skipped), QueueIsTrue(q, top, e, skipped), Len(q) > 0,
         q[1].kind = "event", NEW i \in 1 .. Len(s), IsLast(s, i)
  PROVE  Succeeds(s[i], q[1], skipped)
<1>1. /\ Len(q) \in Nat /\ \A k \in 1 .. Len(q) : q[k].cursor \in Nat
  BY ItemsTyped
<1>2. s[i].cursor \in Nat
  BY ItemsTyped
<1>3. Follows(q, s[i], top, e, skipped)
  BY DEF LastIsTrue
<1>4. /\ s[i].epoch = e /\ AllTold(q, s[i].cursor, top, e, skipped)
      /\ \A l \in 1 .. Len(q) : s[i].cursor < q[l].cursor
  BY <1>3 DEF Follows
<1>5. 1 \in 1 .. Len(q)
  BY <1>1
<1>6. q[1].cursor \in Nat /\ s[i].cursor < q[1].cursor
  BY <1>1, <1>4, <1>5
<1>7. q[1].epoch = e /\ q[1].cursor <= top
  BY <1>5 DEF QueueIsTrue
<1>8. ASSUME NEW c \in (s[i].cursor + 1) .. (q[1].cursor - 1) PROVE <<c, e>> \in skipped
  <2>1. c \in (s[i].cursor + 1) .. top /\ c < q[1].cursor
    BY <1>2, <1>6, <1>7
  <2>2. SUFFICES ASSUME NEW l \in 1 .. Len(q), q[l].cursor = c PROVE FALSE
    BY <1>4, <2>1 DEF AllTold
  <2>3. CASE l = 1
    BY <2>1, <2>2, <2>3, <1>6
  <2>4. CASE l # 1
    <3>1. 1 < l
      BY <2>4, <1>1
    <3>2. q[1].cursor < q[l].cursor
      BY <3>1, <1>5 DEF QueueIsTrue
    <3> QED
      BY <3>2, <2>1, <2>2, <1>6
  <2> QED
    BY <2>3, <2>4
<1> QED
  BY <1>4, <1>6, <1>7, <1>8 DEF Succeeds

(* What is skipped later does not matter.                                   *)
LEMMA StreamIsExactStill ==
  ASSUME NEW s, NEW skipped, NEW more, StreamIsExact(s, skipped), skipped \subseteq more
  PROVE  StreamIsExact(s, more)
BY DEF StreamIsExact, Succeeds

(* A step puts one thing into the channel: what is last in the stream then, *)
(* and what follows what.                                                   *)
LEMMA StreamEnds ==
  ASSUME NEW s \in Seq(FeedItems), NEW t \in Seq(FeedItems), NEW x \in FeedItems,
         Len(t) = Len(s) + 1, t[Len(s) + 1] = x, \A i \in 1 .. Len(s) : t[i] = s[i]
  PROVE  \A i \in 1 .. Len(t) : IsLast(t, i) =>
            \/ i = Len(s) + 1 /\ x.kind = "event"
            \/ i \in 1 .. Len(s) /\ IsLast(s, i) /\ x.kind = "down"
<1>1. Len(s) \in Nat
  BY LenProperties
<1>2. SUFFICES ASSUME NEW i \in 1 .. Len(t), IsLast(t, i), i # Len(s) + 1
               PROVE  i \in 1 .. Len(s) /\ IsLast(s, i) /\ x.kind = "down"
  BY DEF IsLast
<1>3. i \in 1 .. Len(s)
  BY <1>1, <1>2
<1>4. t[i].kind = "event" /\ \A k \in (i + 1) .. Len(t) : t[k].kind = "down"
  BY <1>2 DEF IsLast
<1>5. x.kind = "down"
  BY <1>1, <1>3, <1>4
<1>6. \A k \in (i + 1) .. Len(s) : s[k].kind = "down"
  <2>1. \A k \in (i + 1) .. Len(s) : k \in 1 .. Len(s) /\ k \in (i + 1) .. Len(t)
    BY <1>1, <1>3
  <2> QED
    BY <1>4, <2>1
<1> QED
  BY <1>3, <1>4, <1>5, <1>6 DEF IsLast

(* The stream stays exact if what comes next follows what was last.         *)
LEMMA StreamStaysExact ==
  ASSUME NEW s \in Seq(FeedItems), NEW t \in Seq(FeedItems), NEW x \in FeedItems,
         Len(t) = Len(s) + 1, t[Len(s) + 1] = x, \A i \in 1 .. Len(s) : t[i] = s[i],
         NEW skipped, StreamIsExact(s, skipped),
         \A i \in 1 .. Len(s) : IsLast(s, i) /\ x.kind = "event" => Succeeds(s[i], x, skipped)
  PROVE  StreamIsExact(t, skipped)
<1>1. Len(s) \in Nat
  BY LenProperties
<1>2. SUFFICES ASSUME NEW i \in 1 .. Len(t), NEW j \in 1 .. Len(t), i < j, t[i].kind = "event", t[j].kind = "event",
                      \A k \in (i + 1) .. (j - 1) : t[k].kind = "down"
               PROVE  Succeeds(t[i], t[j], skipped)
  BY DEF StreamIsExact
<1>3. i \in 1 .. Len(s) /\ t[i] = s[i]
  BY <1>1, <1>2
<1>4. \A k \in (i + 1) .. (j - 1) : k \in 1 .. Len(s) /\ t[k] = s[k]
  BY <1>1, <1>2
<1>5. CASE j = Len(s) + 1
  <2>1. x.kind = "event" /\ t[j] = x
    BY <1>2, <1>5
  <2>2. IsLast(s, i)
    BY <1>1, <1>2, <1>3, <1>4, <1>5 DEF IsLast
  <2> QED
    BY <1>3, <2>1, <2>2
<1>6. CASE j # Len(s) + 1
  <2>1. j \in 1 .. Len(s) /\ t[j] = s[j]
    BY <1>1, <1>6
  <2> QED
    BY <1>2, <1>3, <1>4, <2>1 DEF StreamIsExact
<1> QED
  BY <1>5, <1>6

(* How many events of its epoch the peer has published.                     *)
LEMMA EventsCounted ==
  ASSUME FeedTypes, NEW b, FeedFrom(b)
  PROVE  /\ Published = Len(feed) - b /\ Published \in Nat /\ b \in Nat /\ Len(feed) \in Nat
<1>1. Len(feed) \in Nat /\ DOMAIN feed = 1 .. Len(feed) /\ \A n \in 1 .. Len(feed) : feed[n] \in FeedItems
  <2>1. feed \in Seq(FeedItems)
    BY DEF FeedTypes
  <2> QED
    BY <2>1, LenProperties, ElementOfSeq
<1>2. peer.epoch \in Nat /\ \A n \in 1 .. Len(feed) : feed[n].epoch \in Nat
  BY <1>1 DEF FeedTypes, PeerTypes, FeedItems
<1>3. /\ b \in Nat /\ b <= Len(feed) /\ \A n \in 1 .. b : feed[n].epoch < peer.epoch
      /\ \A n \in (b + 1) .. Len(feed) : feed[n].epoch = peer.epoch /\ feed[n].cursor = n - b
  BY <1>1 DEF FeedFrom
<1>4. {n \in DOMAIN feed : feed[n].epoch = peer.epoch} = (b + 1) .. Len(feed)
  <2>1. ASSUME NEW n \in 1 .. Len(feed), feed[n].epoch = peer.epoch PROVE n \in (b + 1) .. Len(feed)
    BY <1>1, <1>2, <1>3, <2>1
  <2>2. ASSUME NEW n \in (b + 1) .. Len(feed) PROVE n \in 1 .. Len(feed) /\ feed[n].epoch = peer.epoch
    BY <1>1, <1>3
  <2> QED
    BY <1>1, <2>1, <2>2
<1>5. Published = Len(feed) - b /\ Published \in Nat
  <2>1. b + 1 \in Int /\ Len(feed) \in Int
    BY <1>1, <1>3
  <2>2. Cardinality((b + 1) .. Len(feed)) = IF b + 1 > Len(feed) THEN 0 ELSE Len(feed) - (b + 1) + 1
    BY <2>1, FS_Interval
  <2>3. Published = IF b + 1 > Len(feed) THEN 0 ELSE Len(feed) - (b + 1) + 1
    BY <1>4, <2>2 DEF Published
  <2>4. (IF b + 1 > Len(feed) THEN 0 ELSE Len(feed) - (b + 1) + 1) = Len(feed) - b /\ Len(feed) - b \in Nat
    <3>1. b \in Nat /\ Len(feed) \in Nat /\ b <= Len(feed)
      BY <1>1, <1>3
    <3>2. CASE b + 1 > Len(feed)
      <4>1. b = Len(feed)
        BY <3>1, <3>2
      <4> QED
        BY <3>1, <3>2, <4>1
    <3>3. CASE ~(b + 1 > Len(feed))
      BY <3>1, <3>3
    <3> QED
      BY <3>2, <3>3
  <2> QED
    BY <2>3, <2>4
<1> QED
  BY <1>1, <1>3, <1>5

(* Handing the first of one sequence to the end of another.                 *)
LEMMA Handed ==
  ASSUME NEW p \in Seq(FeedItems), NEW r \in Seq(FeedItems), r # <<>>
  PROVE  /\ Append(p, Head(r)) \o Tail(r) = p \o r
         /\ Append(p, Head(r)) \in Seq(FeedItems) /\ Tail(r) \in Seq(FeedItems)
<1>1. PICK x : x = Head(r)
  OBVIOUS
<1>2. x \in FeedItems /\ Tail(r) \in Seq(FeedItems)
  BY <1>1, HeadTailProperties
<1>3. <<x>> \in Seq(FeedItems) /\ r = <<x>> \o Tail(r)
  BY <1>1, <1>2
<1>4. Append(p, x) = p \o <<x>> /\ Append(p, x) \in Seq(FeedItems)
  BY <1>2, AppendIsConcat, AppendProperties
<1>5. (p \o <<x>>) \o Tail(r) = p \o (<<x>> \o Tail(r))
  BY <1>2, <1>3, ConcatAssociative
<1> QED
  BY <1>1, <1>2, <1>3, <1>4, <1>5

(* Putting something at the end of the second of two sequences.             *)
LEMMA Lengthened ==
  ASSUME NEW p \in Seq(FeedItems), NEW r \in Seq(FeedItems), NEW x \in FeedItems,
         NEW s, s = p \o r, NEW t, t = p \o Append(r, x)
  PROVE  /\ Append(r, x) \in Seq(FeedItems) /\ s \in Seq(FeedItems) /\ t \in Seq(FeedItems)
         /\ Len(s) \in Nat /\ Len(t) = Len(s) + 1 /\ t[Len(s) + 1] = x
         /\ \A i \in 1 .. Len(s) : t[i] = s[i]
<1>1. <<x>> \in Seq(FeedItems) /\ Append(r, x) = r \o <<x>> /\ Append(r, x) \in Seq(FeedItems)
  BY AppendIsConcat, AppendProperties
<1>2. s \in Seq(FeedItems) /\ Len(s) \in Nat
  BY ConcatProperties, LenProperties
<1>3. t = Append(s, x)
  <2>1. p \o (r \o <<x>>) = (p \o r) \o <<x>>
    BY <1>1, ConcatAssociative
  <2>2. Append(s, x) = s \o <<x>>
    BY <1>2, AppendIsConcat
  <2> QED
    BY <1>1, <2>1, <2>2
<1>4. /\ Append(s, x) \in Seq(FeedItems) /\ Len(Append(s, x)) = Len(s) + 1 /\ Append(s, x)[Len(s) + 1] = x
      /\ \A i \in 1 .. Len(s) : Append(s, x)[i] = s[i]
  BY <1>2, AppendProperties
<1> QED
  BY <1>1, <1>2, <1>3, <1>4

(* Taking the first of the first of two sequences.                          *)
LEMMA Shortened ==
  ASSUME NEW p \in Seq(FeedItems), NEW r \in Seq(FeedItems), p # <<>>,
         NEW x, x = Head(p), NEW rest, rest = Tail(p), NEW s, s = p \o r, NEW t, t = rest \o r
  PROVE  /\ x \in FeedItems /\ rest \in Seq(FeedItems) /\ t \in Seq(FeedItems)
         /\ Len(s) \in Nat /\ Len(s) > 0 /\ Len(t) = Len(s) - 1
         /\ s[1] = x /\ \A k \in 1 .. Len(t) : t[k] = s[k + 1]
<1>1. /\ x \in FeedItems /\ rest \in Seq(FeedItems) /\ Len(rest) = Len(p) - 1
      /\ \A k \in 1 .. Len(rest) : rest[k] = p[k + 1]
  BY HeadTailProperties
<1>2. Len(p) \in Nat /\ Len(p) > 0 /\ Len(r) \in Nat /\ x = p[1]
  BY LenProperties, EmptySeq
<1>3. /\ t \in Seq(FeedItems) /\ Len(t) = Len(rest) + Len(r)
      /\ \A i \in 1 .. Len(rest) + Len(r) : t[i] = IF i <= Len(rest) THEN rest[i] ELSE r[i - Len(rest)]
  BY <1>1, ConcatProperties
<1>4. /\ Len(s) = Len(p) + Len(r)
      /\ \A i \in 1 .. Len(p) + Len(r) : s[i] = IF i <= Len(p) THEN p[i] ELSE r[i - Len(p)]
  BY ConcatProperties
<1>5. ASSUME NEW k \in 1 .. Len(t) PROVE t[k] = s[k + 1]
  <2>1. k \in Nat /\ k + 1 \in 1 .. Len(p) + Len(r) /\ k \in 1 .. Len(rest) + Len(r)
    BY <1>1, <1>2, <1>3
  <2>2. CASE k <= Len(p) - 1
    <3>1. t[k] = rest[k] /\ rest[k] = p[k + 1]
      BY <1>1, <1>2, <1>3, <2>1, <2>2
    <3>2. s[k + 1] = p[k + 1]
      BY <1>2, <1>4, <2>1, <2>2
    <3> QED
      BY <3>1, <3>2
  <2>3. CASE ~(k <= Len(p) - 1)
    <3>1. t[k] = r[k - (Len(p) - 1)]
      BY <1>1, <1>2, <1>3, <2>1, <2>3
    <3>2. s[k + 1] = r[(k + 1) - Len(p)]
      BY <1>2, <1>4, <2>1, <2>3
    <3>3. k - (Len(p) - 1) = (k + 1) - Len(p)
      BY <1>2, <2>1
    <3> QED
      BY <3>1, <3>2, <3>3
  <2> QED
    BY <2>2, <2>3
<1>6. s[1] = x
  BY <1>2, <1>4
<1>7. Len(s) \in Nat /\ Len(s) > 0 /\ Len(t) = Len(s) - 1
  BY <1>1, <1>2, <1>3, <1>4
<1> QED
  BY <1>1, <1>3, <1>5, <1>6, <1>7

-----------------------------------------------------------------------------
(* PeerRelay: what a step makes of the events                               *)

(* The types of what the events are in.                                     *)
LEMMA UnderWayTyped ==
  ASSUME FeedTypes
  PROVE  /\ conn.queue \in Seq(FeedItems) /\ conn.channel \in Seq(FeedItems) /\ UnderWay \in Seq(FeedItems)
         /\ conn.on \in BOOLEAN /\ conn.last \in Places /\ Stream \in Seq(FeedItems) /\ peer.epoch \in Nat
         /\ ~conn.on => UnderWay = <<>>
<1>1. /\ conn.queue \in Seq(FeedItems) /\ conn.channel \in Seq(FeedItems) /\ conn.on \in BOOLEAN
      /\ conn.last \in Places /\ peer.epoch \in Nat /\ relayed \in Seq(FeedItems) /\ outbox \in Seq(FeedItems)
      /\ ~conn.on => conn.queue = <<>> /\ conn.channel = <<>>
  BY DEF FeedTypes, Connections, PeerTypes
<1>2. UnderWay \in Seq(FeedItems) /\ Stream \in Seq(FeedItems)
  BY <1>1, ConcatProperties DEF UnderWay, Stream
<1>3. <<>> \o <<>> = <<>>
  <2>1. <<>> \in Seq(FeedItems)
    BY EmptySeq
  <2> QED
    BY <2>1, ConcatEmptySeq
<1> QED
  BY <1>1, <1>2, <1>3 DEF UnderWay

(* The invariant after a step.                                              *)
LEMMA FeedInvThen ==
  ASSUME FeedTypes', FeedIsTrue', NEW q, NEW s, NEW place, NEW on, NEW top, NEW e, NEW skipped,
         UnderWay' = q, Stream' = s, ResumeFrom(conn.last)' = place, conn'.on = on, Published' = top,
         peer'.epoch = e, unsaid' = skipped, QueueIsTrue(q, top, e, skipped),
         LastIsTrue(s, place, on, q, top, e, skipped), StreamIsExact(s, skipped)
  PROVE  FeedInv'
<1>1. QueueIsTrue(UnderWay, Published, peer.epoch, unsaid)'
  BY DEF QueueIsTrue, AllTold
<1>2. LastIsTrue(Stream, ResumeFrom(conn.last), conn.on, UnderWay, Published, peer.epoch, unsaid)'
  BY DEF LastIsTrue, IsLast, Follows, AllTold
<1>3. StreamIsExact(Stream, unsaid)'
  BY DEF StreamIsExact, Succeeds
<1> QED
  BY <1>1, <1>2, <1>3 DEF FeedInv

(* Nothing that concerns events changes.                                    *)
LEMMA FeedStands ==
  ASSUME FeedInv, relayEnv' = relayEnv, UNCHANGED <<feed, atStart, conn, unsaid, resume, outbox, relayed>>,
         peer' \in PeerTypes, peer'.epoch = peer.epoch
  PROVE  FeedInv'
<1>1. /\ Published' = Published /\ Stream' = Stream /\ ResumeFrom(conn.last)' = ResumeFrom(conn.last)
      /\ UnderWay' = UnderWay
  BY DEF Published, Stream, ResumeFrom, UnderWay
<1>2. FeedTypes'
  BY DEF FeedInv, FeedTypes
<1>3. FeedIsTrue'
  BY DEF FeedInv, FeedIsTrue, FeedFrom
<1>4. /\ QueueIsTrue(UnderWay, Published, peer.epoch, unsaid)
      /\ LastIsTrue(Stream, ResumeFrom(conn.last), conn.on, UnderWay, Published, peer.epoch, unsaid)
      /\ StreamIsExact(Stream, unsaid)
  BY DEF FeedInv
<1> QED
  BY <1>1, <1>2, <1>3, <1>4, FeedInvThen

(* The cursor offered next time, by what the connection has brought.        *)
LEMMA ResumeTyped ==
  ASSUME FeedTypes
  PROVE  ResumeFrom(conn.last) \in Places /\ (~conn.on => ResumeFrom(conn.last) = resume)
<1>1. conn.last \in Places /\ resume \in Places /\ (~conn.on => conn.last = Nowhere)
  BY DEF FeedTypes, Connections
<1>2. Nowhere.cursor = 0
  BY DEF Nowhere
<1> QED
  BY <1>1, <1>2 DEF ResumeFrom

(* Nothing but the connection and the channel changes.                      *)
LEMMA FeedIsKept ==
  ASSUME FeedInv, peer' = peer, feed' = feed, atStart' = atStart
  PROVE  Published' = Published /\ FeedIsTrue' /\ Published \in Nat
<1>1. Published \in Nat
  BY EventsCounted DEF FeedInv, FeedIsTrue
<1> QED
  BY <1>1 DEF FeedInv, FeedIsTrue, FeedFrom, Published

(* The peer publishes its next event.                                       *)
LEMMA FeedGrows ==
  ASSUME FeedInv, PeerPublishes, NEW ev, ev = RelayItem("event", Published + 1, peer.epoch)
  PROVE  /\ ev \in FeedItems /\ ev.kind = "event" /\ ev.cursor = Published + 1 /\ ev.epoch = peer.epoch
         /\ feed' \in Seq(FeedItems) /\ FeedIsTrue' /\ Published \in Nat
         /\ FeedTypes' => Published' = Published + 1
<1>1. PICK b : FeedFrom(b)
  BY DEF FeedInv, FeedIsTrue
<1>2. FeedTypes
  BY DEF FeedInv
<1>3. Published = Len(feed) - b /\ Published \in Nat /\ b \in Nat /\ Len(feed) \in Nat
  BY <1>1, <1>2, EventsCounted
<1>4. ev.kind = "event" /\ ev.cursor = Published + 1 /\ ev.epoch = peer.epoch /\ ev \in FeedItems
  BY <1>2, <1>3 DEF RelayItem, FeedItems, FeedTypes, PeerTypes
<1>5. /\ feed' = Append(feed, ev) /\ peer' = peer /\ atStart' = atStart
      /\ feed \in Seq(FeedItems)
  BY <1>2 DEF PeerPublishes, FeedTypes
<1>6. /\ feed' \in Seq(FeedItems) /\ Len(feed') = Len(feed) + 1 /\ feed'[Len(feed) + 1] = ev
      /\ \A n \in 1 .. Len(feed) : feed'[n] = feed[n]
  BY <1>4, <1>5, AppendProperties
<1>7. FeedFrom(b)'
  <2>1. /\ b \in 0 .. Len(feed) /\ b <= atStart /\ atStart <= Len(feed)
        /\ \A n \in 1 .. b : feed[n].epoch < peer.epoch
    BY <1>1 DEF FeedFrom
  <2>2. b \in 0 .. Len(feed') /\ \A n \in 1 .. b : feed'[n].epoch < peer'.epoch
    BY <2>1, <1>3, <1>5, <1>6
  <2>3. ASSUME NEW n \in (b + 1) .. Len(feed')
        PROVE  feed'[n].kind = "event" /\ feed'[n].epoch = peer'.epoch /\ feed'[n].cursor = n - b
    <3>1. CASE n = Len(feed) + 1
      BY <3>1, <1>3, <1>4, <1>5, <1>6
    <3>2. CASE n # Len(feed) + 1
      <4>1. n \in (b + 1) .. Len(feed) /\ n \in 1 .. Len(feed)
        BY <2>3, <3>2, <1>3, <1>6
      <4>2. feed[n].kind = "event" /\ feed[n].epoch = peer.epoch /\ feed[n].cursor = n - b
        BY <4>1, <1>1 DEF FeedFrom
      <4> QED
        BY <4>1, <4>2, <1>5, <1>6
    <3> QED
      BY <3>1, <3>2
  <2>4. b <= atStart' /\ atStart' <= Len(feed')
    <3>1. atStart \in Nat
      BY <1>2 DEF FeedTypes
    <3> QED
      BY <3>1, <2>1, <1>3, <1>5, <1>6
  <2> QED
    BY <2>2, <2>3, <2>4 DEF FeedFrom
<1>8. FeedTypes' => Published' = Published + 1
  <2>1. (FeedTypes /\ FeedFrom(b) => Published = Len(feed) - b)'
    BY EventsCounted, PTL
  <2> QED
    BY <2>1, <1>3, <1>6, <1>7
<1> QED
  BY <1>3, <1>4, <1>6, <1>7, <1>8 DEF FeedIsTrue

(* It is put into the channel of the subscriber, or is left out.            *)
LEMMA PeerPublishesKeeps ==
  ASSUME FeedInv, PeerPublishes
  PROVE  FeedInv'
<1>1. FeedTypes
  BY DEF FeedInv
<1>2. PICK ev : ev = RelayItem("event", Published + 1, peer.epoch)
  OBVIOUS
<1>3. /\ ev \in FeedItems /\ ev.kind = "event" /\ ev.cursor = Published + 1 /\ ev.epoch = peer.epoch
      /\ feed' \in Seq(FeedItems) /\ FeedIsTrue' /\ Published \in Nat
      /\ FeedTypes' => Published' = Published + 1
  BY <1>2, FeedGrows
<1>4. PICK full \in BOOLEAN : full <=> Len(conn.channel) >= relayEnv.places
  <2>1. CASE Len(conn.channel) >= relayEnv.places
    BY <2>1, TRUE \in BOOLEAN
  <2>2. CASE ~(Len(conn.channel) >= relayEnv.places)
    BY <2>2, FALSE \in BOOLEAN
  <2> QED
    BY <2>1, <2>2
<1>5. /\ conn' = IF conn.on /\ ~full THEN [conn EXCEPT !.channel = Append(@, ev)] ELSE conn
      /\ unsaid' = IF conn.on /\ full THEN unsaid \cup {<<ev.cursor, ev.epoch>>} ELSE unsaid
      /\ peer' = peer /\ resume' = resume /\ outbox' = outbox /\ relayed' = relayed /\ atStart' = atStart
      /\ relayEnv' = relayEnv
  BY <1>2, <1>4 DEF PeerPublishes
<1>6. /\ conn.queue \in Seq(FeedItems) /\ conn.channel \in Seq(FeedItems) /\ UnderWay \in Seq(FeedItems)
      /\ conn.on \in BOOLEAN /\ conn.last \in Places /\ Stream \in Seq(FeedItems) /\ peer.epoch \in Nat
      /\ ~conn.on => UnderWay = <<>>
  BY <1>1, UnderWayTyped
<1>7. PICK place, s, q, top, e :
         /\ place = ResumeFrom(conn.last) /\ s = Stream /\ q = UnderWay /\ top = Published /\ e = peer.epoch
  OBVIOUS
<1>8. /\ s \in Seq(FeedItems) /\ q \in Seq(FeedItems) /\ top \in Nat /\ e \in Nat
      /\ QueueIsTrue(q, top, e, unsaid) /\ LastIsTrue(s, place, conn.on, q, top, e, unsaid) /\ StreamIsExact(s, unsaid)
  BY <1>3, <1>6, <1>7 DEF FeedInv
<1>9. Stream' = s /\ peer'.epoch = e
  BY <1>5, <1>7 DEF Stream
<1>10. CASE conn' = conn
  <2>1. FeedTypes'
    BY <1>1, <1>3, <1>5, <1>10 DEF FeedTypes
  <2>2. Published' = top + 1 /\ UnderWay' = q /\ ResumeFrom(conn.last)' = place
    BY <2>1, <1>3, <1>5, <1>7, <1>10 DEF UnderWay, ResumeFrom
  <2>3. /\ QueueIsTrue(q, top + 1, e, unsaid \cup {<<top + 1, e>>})
        /\ LastIsTrue(s, place, conn.on, q, top + 1, e, unsaid \cup {<<top + 1, e>>})
    BY <1>8, QueueIsSkipped, LastIsSkipped
  <2>4. CASE conn.on
    <3>1. unsaid' = unsaid \cup {<<top + 1, e>>}
      <4>1. CASE full
        BY <4>1, <2>4, <1>3, <1>5, <1>7
      <4>2. CASE ~full
        <5>1. conn'.channel = Append(conn.channel, ev)
          BY <4>2, <2>4, <1>1, <1>5 DEF FeedTypes, Connections
        <5>2. Len(Append(conn.channel, ev)) = Len(conn.channel) + 1 /\ Len(conn.channel) \in Nat
          BY <1>3, <1>6, AppendProperties, LenProperties
        <5> QED
          BY <5>1, <5>2, <1>10
      <4> QED
        BY <4>1, <4>2
    <3>2. StreamIsExact(s, unsaid')
      BY <3>1, <1>8, StreamIsExactStill
    <3> QED
      BY <2>1, <2>2, <2>3, <3>1, <3>2, <1>3, <1>9, <1>10, FeedInvThen
  <2>5. CASE ~conn.on
    <3>1. unsaid' = unsaid /\ q = <<>>
      BY <2>5, <1>5, <1>6, <1>7
    <3>2. QueueIsTrue(q, top + 1, e, unsaid)
      BY <3>1, EmptySeq DEF QueueIsTrue
    <3>3. LastIsTrue(s, place, conn.on, q, top + 1, e, unsaid)
      BY <2>3, <2>5 DEF LastIsTrue
    <3> QED
      BY <2>1, <2>2, <3>1, <3>2, <3>3, <1>3, <1>8, <1>9, <1>10, FeedInvThen
  <2> QED
    BY <2>4, <2>5, <1>6
<1>11. CASE conn.on /\ ~full
  <2>1. /\ conn'.on /\ conn'.last = conn.last /\ conn'.queue = conn.queue /\ conn'.channel = Append(conn.channel, ev)
        /\ unsaid' = unsaid
    BY <1>1, <1>5, <1>11 DEF FeedTypes, Connections
  <2>2. PICK t : t = conn.queue \o Append(conn.channel, ev)
    OBVIOUS
  <2>3. /\ Append(conn.channel, ev) \in Seq(FeedItems) /\ t \in Seq(FeedItems)
        /\ Len(t) = Len(q) + 1 /\ t[Len(q) + 1] = ev /\ \A i \in 1 .. Len(q) : t[i] = q[i]
    <3>1. PICK p, r : p = conn.queue /\ r = conn.channel
      OBVIOUS
    <3>2. p \in Seq(FeedItems) /\ r \in Seq(FeedItems) /\ ev \in FeedItems
      BY <3>1, <1>3, <1>6
    <3>3. q = p \o r /\ t = p \o Append(r, ev)
      BY <2>2, <3>1, <1>7 DEF UnderWay
    <3>4. /\ Append(r, ev) \in Seq(FeedItems) /\ t \in Seq(FeedItems)
          /\ Len(t) = Len(q) + 1 /\ t[Len(q) + 1] = ev /\ \A i \in 1 .. Len(q) : t[i] = q[i]
      BY <3>2, <3>3, Lengthened
    <3> QED
      BY <3>1, <3>4
  <2>4. FeedTypes'
    <3>1. conn' \in Connections
      BY <1>1, <1>5, <1>11, <2>3 DEF FeedTypes, Connections
    <3> QED
      BY <3>1, <2>1, <1>1, <1>3, <1>5 DEF FeedTypes
  <2>5. Published' = top + 1 /\ UnderWay' = t /\ ResumeFrom(conn.last)' = place
    BY <2>1, <2>2, <2>4, <1>3, <1>5, <1>7 DEF UnderWay, ResumeFrom
  <2>6. QueueIsTrue(t, top + 1, e, unsaid) /\ LastIsTrue(s, place, conn.on, t, top + 1, e, unsaid)
    <3>1. ev \in FeedItems /\ ev.kind = "event" /\ ev.cursor = top + 1 /\ ev.epoch = e
      BY <1>3, <1>7
    <3> QED
      BY <3>1, <2>3, <1>8, QueueIsLonger, LastIsFollowed
  <2>7. conn'.on = conn.on
    BY <2>1, <1>11
  <2> QED
    BY <2>1, <2>4, <2>5, <2>6, <2>7, <1>3, <1>8, <1>9, FeedInvThen
<1> QED
  BY <1>4, <1>5, <1>6, <1>10, <1>11

(* What is under way stays under way.                                       *)
LEMMA PeerStreamsKeeps ==
  ASSUME FeedInv, PeerStreams
  PROVE  FeedInv'
<1>1. FeedTypes
  BY DEF FeedInv
<1>2. /\ conn' = [conn EXCEPT !.queue = Append(@, Head(conn.channel)), !.channel = Tail(@)]
      /\ conn.channel # <<>> /\ peer' = peer /\ feed' = feed /\ atStart' = atStart /\ unsaid' = unsaid
      /\ resume' = resume /\ outbox' = outbox /\ relayed' = relayed /\ relayEnv' = relayEnv
  BY DEF PeerStreams
<1>3. /\ conn.queue \in Seq(FeedItems) /\ conn.channel \in Seq(FeedItems) /\ (~conn.on => conn.channel = <<>>)
      /\ conn \in Connections
  BY <1>1 DEF FeedTypes, Connections
<1>4. /\ Append(conn.queue, Head(conn.channel)) \in Seq(FeedItems) /\ Tail(conn.channel) \in Seq(FeedItems)
      /\ Append(conn.queue, Head(conn.channel)) \o Tail(conn.channel) = UnderWay
  BY <1>2, <1>3, Handed DEF UnderWay
<1>5. /\ conn'.on = conn.on /\ conn'.last = conn.last /\ conn'.queue = Append(conn.queue, Head(conn.channel))
      /\ conn'.channel = Tail(conn.channel) /\ conn.on
  BY <1>2, <1>3 DEF Connections
<1>6. conn' \in Connections
  BY <1>2, <1>3, <1>4 DEF Connections
<1>7. FeedTypes'
  BY <1>1, <1>2, <1>5, <1>6 DEF FeedTypes
<1>8. Published' = Published /\ FeedIsTrue'
  BY <1>2, FeedIsKept
<1>9. UnderWay' = UnderWay /\ Stream' = Stream /\ ResumeFrom(conn.last)' = ResumeFrom(conn.last)
  BY <1>2, <1>4, <1>5 DEF UnderWay, Stream, ResumeFrom
<1>10. /\ QueueIsTrue(UnderWay, Published, peer.epoch, unsaid)
       /\ LastIsTrue(Stream, ResumeFrom(conn.last), conn.on, UnderWay, Published, peer.epoch, unsaid)
       /\ StreamIsExact(Stream, unsaid)
  BY DEF FeedInv
<1> QED
  BY <1>2, <1>5, <1>7, <1>8, <1>9, <1>10, FeedInvThen

(* What the hub of the peer holds for a place is all it publishes after it  *)
(* but what it leaves out without a word, or a resync says that it is not.  *)
LEMMA BacklogIs ==
  ASSUME FeedTypes, FeedIsTrue, NEW from \in Places, NEW B, B = Backlog(from), NEW top, top = Published,
         NEW e, e = peer.epoch, NEW skipped, skipped = unsaid \cup ResumedPast(from)
  PROVE  /\ B \in Seq(FeedItems) /\ QueueIsTrue(B, top, e, skipped)
         /\ \/ B = <<>> /\ from = Nowhere
            \/ B # <<>> /\ B[1].kind = "resync"
            \/ /\ from.epoch = e /\ AllTold(B, from.cursor, top, e, skipped)
               /\ \A l \in 1 .. Len(B) : from.cursor < B[l].cursor
<1>1. PICK b : FeedFrom(b)
  BY DEF FeedIsTrue
<1>2. top = Len(feed) - b /\ top \in Nat /\ b \in Nat /\ Len(feed) \in Nat
  BY <1>1, EventsCounted
<1>3. PICK c0 \in Nat : c0 = from.cursor
  BY DEF Places
<1>4. PICK missed : missed = top - c0
  OBVIOUS
<1>5. PICK kept : kept = Retained
  OBVIOUS
<1>6. b <= atStart /\ atStart <= Len(feed) /\ atStart \in Nat /\ relayEnv.window \in Nat \ {0}
  BY <1>1, RelayAssumption DEF FeedFrom, FeedTypes
<1>7. kept \in Nat /\ kept <= top
  <2>1. PICK w \in Nat \ {0} : w = relayEnv.window
    BY <1>6
  <2>2. kept = IF Len(feed) - atStart < w THEN Len(feed) - atStart ELSE w
    BY <2>1, <1>5 DEF Retained
  <2> QED
    BY <2>1, <2>2, <1>2, <1>6
<1>8. B = IF from = Nowhere THEN <<>>
          ELSE IF from.epoch # e \/ missed < 0 \/ (kept > 0 /\ missed > kept) THEN <<RelayItem("resync", 0, e)>>
          ELSE IF kept = 0 THEN <<>> ELSE SubSeq(feed, Len(feed) - missed + 1, Len(feed))
  BY <1>3, <1>4, <1>5 DEF Backlog
<1>9. <<>> \in Seq(FeedItems) /\ QueueIsTrue(<<>>, top, e, skipped)
  BY EmptySeq DEF QueueIsTrue
<1>10. CASE from = Nowhere
  BY <1>8, <1>9, <1>10
<1>11. CASE from # Nowhere /\ (from.epoch # e \/ missed < 0 \/ (kept > 0 /\ missed > kept))
  <2>1. PICK x : x = RelayItem("resync", 0, e)
    OBVIOUS
  <2>2. x.kind = "resync" /\ x.cursor = 0 /\ x \in FeedItems
    BY <2>1 DEF RelayItem, FeedItems, FeedTypes, PeerTypes
  <2>3. B = <<x>>
    BY <1>8, <1>11, <2>1
  <2>4. B \in Seq(FeedItems) /\ Len(B) = 1 /\ B[1] = x /\ B # <<>>
    BY <2>2, <2>3
  <2>5. \A k \in 1 .. Len(B) : k = 1
    BY <2>4
  <2>6. QueueIsTrue(B, top, e, skipped)
    BY <2>2, <2>4, <2>5 DEF QueueIsTrue
  <2> QED
    BY <2>2, <2>4, <2>6
<1>12. CASE from # Nowhere /\ ~(from.epoch # e \/ missed < 0 \/ (kept > 0 /\ missed > kept)) /\ kept = 0
  <2>1. B = <<>> /\ from.epoch = e
    BY <1>8, <1>12
  <2>2. ResumedPast(from) = {<<c, e>> : c \in (from.cursor + 1) .. top}
    BY <2>1, <1>5, <1>12 DEF ResumedPast
  <2>3. AllTold(B, from.cursor, top, e, skipped)
    BY <2>2 DEF AllTold
  <2> QED
    BY <2>1, <2>3, <1>9, EmptySeq
<1>13. CASE from # Nowhere /\ ~(from.epoch # e \/ missed < 0 \/ (kept > 0 /\ missed > kept)) /\ kept # 0
  <2>1. missed \in Nat /\ missed <= top /\ c0 + missed = top
    BY <1>2, <1>4, <1>7, <1>13
  <2>2. PICK m : m = Len(feed) - missed + 1
    OBVIOUS
  <2>3. /\ m \in Int /\ m >= b + 1 /\ Len(feed) \in Int /\ m >= 1
        /\ (IF m <= Len(feed) THEN Len(feed) - m + 1 ELSE 0) = missed /\ Len(feed) - m + 1 = missed
    BY <2>1, <2>2, <1>2
  <2>4. B = SubSeq(feed, m, Len(feed))
    BY <1>8, <1>13, <2>2
  <2>5. \A i \in m .. Len(feed) : feed[i] \in FeedItems
    <3>1. feed \in Seq(FeedItems)
      BY DEF FeedTypes
    <3> QED
      BY <2>3, <1>2, <3>1, ElementOfSeq
  <2>6. /\ SubSeq(feed, m, Len(feed)) \in Seq(FeedItems)
        /\ Len(SubSeq(feed, m, Len(feed))) = IF m <= Len(feed) THEN Len(feed) - m + 1 ELSE 0
        /\ \A i \in 1 .. Len(feed) - m + 1 : SubSeq(feed, m, Len(feed))[i] = feed[m + i - 1]
    BY <2>3, <2>5, SubSeqProperties
  <2>7. B \in Seq(FeedItems) /\ Len(B) = missed /\ \A k \in 1 .. missed : B[k] = feed[m + k - 1]
    BY <2>3, <2>4, <2>6
  <2>8. ASSUME NEW k \in 1 .. missed
        PROVE  B[k].kind = "event" /\ B[k].epoch = e /\ B[k].cursor = c0 + k
    <3>1. PICK n : n = m + k - 1
      OBVIOUS
    <3>2. n \in (b + 1) .. Len(feed) /\ n - b = c0 + k
      BY <3>1, <2>1, <2>2, <2>3, <1>2
    <3>3. feed[n].kind = "event" /\ feed[n].epoch = peer.epoch /\ feed[n].cursor = n - b
      BY <3>2, <1>1 DEF FeedFrom
    <3> QED
      BY <2>7, <3>1, <3>2, <3>3
  <2>9. ASSUME NEW k \in Nat PROVE AllTold(B, c0 + k, top, e, skipped)
    <3>1. SUFFICES ASSUME NEW c \in (c0 + k + 1) .. top PROVE \E l \in 1 .. Len(B) : B[l].cursor = c
      BY DEF AllTold
    <3>2. c - c0 \in 1 .. missed /\ c0 + (c - c0) = c
      BY <2>1, <1>2
    <3> QED
      BY <3>2, <2>7, <2>8
  <2>10. QueueIsTrue(B, top, e, skipped)
    <3>1. ASSUME NEW k \in 1 .. Len(B)
          PROVE  /\ B[k].kind = "event" /\ B[k].epoch = e /\ B[k].cursor > 0 /\ B[k].cursor <= top
                 /\ AllTold(B, B[k].cursor, top, e, skipped)
      <4>1. k \in Nat /\ k \in 1 .. missed /\ c0 + k > 0 /\ c0 + k <= top
        BY <2>1, <2>7, <1>2
      <4> QED
        BY <4>1, <2>8, <2>9
    <3>2. ASSUME NEW k \in 1 .. Len(B), NEW l \in 1 .. Len(B), k < l PROVE B[k].cursor < B[l].cursor
      <4>1. B[k].cursor = c0 + k /\ B[l].cursor = c0 + l
        BY <2>7, <2>8
      <4>2. c0 + k < c0 + l
        BY <2>7, <2>1, <3>2
      <4> QED
        BY <4>1, <4>2
    <3> QED
      BY <3>1, <3>2 DEF QueueIsTrue
  <2>11. \A l \in 1 .. Len(B) : from.cursor < B[l].cursor
    <3> TAKE l \in 1 .. Len(B)
    <3>1. B[l].cursor = c0 + l /\ c0 < c0 + l
      BY <2>7, <2>8, <2>1
    <3> QED
      BY <3>1, <1>3
  <2>12. AllTold(B, from.cursor, top, e, skipped)
    BY <2>9, <1>3, c0 + 0 = c0
  <2> QED
    BY <2>7, <2>10, <2>11, <2>12, <1>13
<1> QED
  BY <1>10, <1>11, <1>12, <1>13

(* A connection starts where the last one ended.                            *)
LEMMA ConnectKeeps ==
  ASSUME FeedInv, Connect
  PROVE  FeedInv'
<1>1. FeedTypes /\ FeedIsTrue
  BY DEF FeedInv
<1>2. PICK B, skipped : B = Backlog(resume) /\ skipped = unsaid \cup ResumedPast(resume)
  OBVIOUS
<1>3. /\ conn' = [on |-> TRUE, last |-> Nowhere, queue |-> B, channel |-> <<>>] /\ ~conn.on
      /\ peer' = peer /\ feed' = feed /\ atStart' = atStart /\ unsaid' = skipped
      /\ resume' = resume /\ outbox' = outbox /\ relayed' = relayed /\ relayEnv' = relayEnv
  BY <1>2 DEF Connect
<1>4. PICK s, top, e : s = Stream /\ top = Published /\ e = peer.epoch
  OBVIOUS
<1>5. resume \in Places
  BY <1>1 DEF FeedTypes
<1>6. /\ B \in Seq(FeedItems) /\ QueueIsTrue(B, top, e, skipped)
      /\ \/ B = <<>> /\ resume = Nowhere
         \/ B # <<>> /\ B[1].kind = "resync"
         \/ /\ resume.epoch = e /\ AllTold(B, resume.cursor, top, e, skipped)
            /\ \A l \in 1 .. Len(B) : resume.cursor < B[l].cursor
  BY <1>1, <1>2, <1>4, <1>5, BacklogIs
<1>7. conn'.on = TRUE /\ conn'.last = Nowhere /\ conn'.queue = B /\ conn'.channel = <<>>
      /\ Nowhere \in Places /\ Nowhere.cursor = 0 /\ <<>> \in Seq(FeedItems)
  BY <1>3, EmptySeq DEF Nowhere, Places
<1>8. FeedTypes'
  <2>1. conn' \in Connections
    BY <1>3, <1>6, <1>7 DEF Connections
  <2> QED
    BY <2>1, <1>1, <1>3, <1>7 DEF FeedTypes
<1>9. FeedIsTrue' /\ Published' = top /\ peer'.epoch = e /\ unsaid' = skipped /\ Stream' = s
  BY <1>3, <1>4, FeedIsKept DEF Stream
<1>10. ResumeFrom(conn.last)' = resume /\ ResumeFrom(conn.last) = resume
  <2>1. ResumeFrom(conn.last) = resume
    BY <1>1, <1>3, ResumeTyped
  <2> QED
    BY <2>1, <1>3, <1>7 DEF ResumeFrom
<1>11. UnderWay' = B
  <2>1. B \o <<>> = B
    BY <1>6, ConcatEmptySeq
  <2> QED
    BY <2>1, <1>7 DEF UnderWay
<1>12. LastIsTrue(s, resume, TRUE, B, top, e, skipped)
  <2>1. LastIsTrue(s, resume, conn.on, UnderWay, top, e, unsaid)
    BY <1>4, <1>10 DEF FeedInv
  <2>2. SUFFICES ASSUME NEW i \in 1 .. Len(s), IsLast(s, i), B # <<>> => B[1].kind = "event"
                 PROVE  Follows(B, s[i], top, e, skipped)
    BY <2>1 DEF LastIsTrue
  <2>3. s[i].cursor > 0 /\ resume = [cursor |-> s[i].cursor, epoch |-> s[i].epoch]
    BY <2>1, <2>2 DEF LastIsTrue
  <2>4. resume.cursor = s[i].cursor /\ resume.epoch = s[i].epoch
    BY <2>3
  <2>5. resume # Nowhere
    BY <2>3, <2>4, <1>7
  <2>6. ~(B # <<>> /\ B[1].kind = "resync")
    BY <2>2
  <2> QED
    BY <2>4, <2>5, <2>6, <1>6 DEF Follows
<1>13. StreamIsExact(s, skipped)
  <2>1. StreamIsExact(s, unsaid) /\ unsaid \subseteq skipped
    BY <1>2, <1>4 DEF FeedInv
  <2> QED
    BY <2>1, StreamIsExactStill
<1> QED
  BY <1>6, <1>7, <1>8, <1>9, <1>10, <1>11, <1>12, <1>13, FeedInvThen

(* The reader takes what is first on the connection.                        *)
LEMMA ConsumeKeeps ==
  ASSUME FeedInv, Consume
  PROVE  FeedInv'
<1>1. FeedTypes
  BY DEF FeedInv
<1>2. PICK x, rest : x = Head(conn.queue) /\ rest = Tail(conn.queue)
  OBVIOUS
<1>3. PICK last : last = [cursor |-> x.cursor, epoch |-> x.epoch]
  OBVIOUS
<1>4. /\ conn' = [conn EXCEPT !.queue = rest, !.last = last]
      /\ conn.on /\ conn.queue # <<>> /\ outbox' = Append(outbox, x)
      /\ peer' = peer /\ feed' = feed /\ atStart' = atStart /\ unsaid' = unsaid
      /\ resume' = resume /\ relayed' = relayed /\ relayEnv' = relayEnv
  BY <1>2, <1>3 DEF Consume
<1>5. PICK q, t, s, top, e :
         /\ q = UnderWay /\ t = rest \o conn.channel /\ s = Stream /\ top = Published /\ e = peer.epoch
  OBVIOUS
<1>6. /\ conn.queue \in Seq(FeedItems) /\ conn.channel \in Seq(FeedItems) /\ q \in Seq(FeedItems)
      /\ s \in Seq(FeedItems) /\ relayed \in Seq(FeedItems) /\ outbox \in Seq(FeedItems)
  BY <1>1, <1>5, UnderWayTyped DEF FeedTypes
<1>7. /\ x \in FeedItems /\ rest \in Seq(FeedItems) /\ t \in Seq(FeedItems)
      /\ Len(q) \in Nat /\ Len(q) > 0 /\ Len(t) = Len(q) - 1
      /\ q[1] = x /\ \A k \in 1 .. Len(t) : t[k] = q[k + 1]
  <2>1. PICK p, r : p = conn.queue /\ r = conn.channel
    OBVIOUS
  <2>2. p \in Seq(FeedItems) /\ r \in Seq(FeedItems) /\ p # <<>>
    BY <2>1, <1>4, <1>6
  <2>3. x = Head(p) /\ rest = Tail(p) /\ q = p \o r /\ t = rest \o r
    BY <2>1, <1>2, <1>5 DEF UnderWay
  <2> QED
    BY <2>2, <2>3, Shortened
<1>8. last \in Places /\ last.cursor = x.cursor /\ last.epoch = x.epoch /\ x.cursor \in Nat /\ x.epoch \in Nat
  BY <1>3, <1>7 DEF Places, FeedItems
<1>9. /\ conn'.on = TRUE /\ conn'.last = last /\ conn'.queue = rest /\ conn'.channel = conn.channel
      /\ conn' \in Connections
  BY <1>1, <1>4, <1>7, <1>8 DEF FeedTypes, Connections
<1>10. PICK u : u = Stream'
  OBVIOUS
<1>11. /\ outbox' \in Seq(FeedItems) /\ u \in Seq(FeedItems) /\ Len(s) \in Nat /\ Len(u) = Len(s) + 1
       /\ u[Len(s) + 1] = x /\ \A i \in 1 .. Len(s) : u[i] = s[i]
  <2>1. PICK p, r : p = relayed /\ r = outbox
    OBVIOUS
  <2>2. p \in Seq(FeedItems) /\ r \in Seq(FeedItems) /\ x \in FeedItems
    BY <2>1, <1>6, <1>7
  <2>3. s = p \o r /\ u = p \o Append(r, x)
    BY <2>1, <1>4, <1>5, <1>10 DEF Stream
  <2>4. /\ Append(r, x) \in Seq(FeedItems) /\ u \in Seq(FeedItems) /\ Len(s) \in Nat /\ Len(u) = Len(s) + 1
        /\ u[Len(s) + 1] = x /\ \A i \in 1 .. Len(s) : u[i] = s[i]
    BY <2>2, <2>3, Lengthened
  <2> QED
    BY <2>1, <2>4, <1>4
<1>12. FeedTypes'
  BY <1>1, <1>4, <1>9, <1>11 DEF FeedTypes
<1>13. FeedIsTrue' /\ Published' = top /\ top \in Nat /\ peer'.epoch = e
  BY <1>4, <1>5, FeedIsKept
<1>14. UnderWay' = t
  BY <1>5, <1>9 DEF UnderWay
<1>15. /\ QueueIsTrue(q, top, e, unsaid) /\ StreamIsExact(s, unsaid)
       /\ LastIsTrue(s, ResumeFrom(conn.last), conn.on, q, top, e, unsaid)
  BY <1>5 DEF FeedInv
<1>16. QueueIsTrue(t, top, e, unsaid) /\ (x.kind = "event" => Follows(t, x, top, e, unsaid))
  BY <1>7, <1>6, <1>13, <1>15, QueueIsShorter
<1>17. \/ x.kind = "resync" /\ x.cursor = 0
       \/ x.kind = "event" /\ x.epoch = e /\ x.cursor > 0 /\ x.cursor <= top
  <2>1. 1 \in 1 .. Len(q)
    BY <1>7
  <2> QED
    BY <2>1, <1>7, <1>15 DEF QueueIsTrue
<1>18. PICK place : place = ResumeFrom(conn.last)'
  OBVIOUS
<1>19. x.cursor > 0 => place = last
  BY <1>8, <1>9, <1>18 DEF ResumeFrom
<1>20. LastIsTrue(u, place, TRUE, t, top, e, unsaid)
  <2>1. SUFFICES ASSUME NEW i \in 1 .. Len(u), IsLast(u, i)
        PROVE  /\ u[i].cursor > 0 /\ place = [cursor |-> u[i].cursor, epoch |-> u[i].epoch]
               /\ u[i].epoch <= e /\ (u[i].epoch = e => u[i].cursor <= top) /\ Follows(t, u[i], top, e, unsaid)
    BY DEF LastIsTrue
  <2>2. x.kind = "event" /\ u[i] = x
    <3>1. \A j \in 1 .. Len(u) : IsLast(u, j) =>
             \/ j = Len(s) + 1 /\ x.kind = "event"
             \/ j \in 1 .. Len(s) /\ IsLast(s, j) /\ x.kind = "down"
      <4>1. s \in Seq(FeedItems) /\ u \in Seq(FeedItems) /\ x \in FeedItems /\ Len(u) = Len(s) + 1
        BY <1>6, <1>7, <1>11
      <4>2. u[Len(s) + 1] = x /\ \A j \in 1 .. Len(s) : u[j] = s[j]
        BY <1>11
      <4> QED
        BY <4>1, <4>2, StreamEnds
    <3> QED
      BY <3>1, <2>1, <1>11, <1>17
  <2>3. x.epoch = e /\ x.cursor > 0 /\ x.cursor <= top /\ x.epoch <= e
    <3>1. x.epoch = e /\ x.cursor > 0 /\ x.cursor <= top
      BY <1>17, <2>2
    <3> QED
      BY <3>1, <1>8
  <2> QED
    BY <2>2, <2>3, <1>3, <1>16, <1>19
<1>21. StreamIsExact(u, unsaid)
  <2>1. ASSUME NEW i \in 1 .. Len(s), IsLast(s, i), x.kind = "event" PROVE Succeeds(s[i], x, unsaid)
    <3>1. LastIsTrue(s, ResumeFrom(conn.last), TRUE, q, top, e, unsaid)
      BY <1>4, <1>15 DEF LastIsTrue
    <3>2. q[1].kind = "event"
      BY <2>1, <1>7
    <3>3. Succeeds(s[i], q[1], unsaid)
      BY <3>1, <3>2, <2>1, <1>6, <1>7, <1>13, <1>15, NextSucceeds
    <3> QED
      BY <3>3, <1>7
  <2> QED
    BY <2>1, <1>6, <1>7, <1>11, <1>15, StreamStaysExact
<1> QED
  BY <1>4, <1>9, <1>10, <1>12, <1>13, <1>14, <1>16, <1>18, <1>20, <1>21, FeedInvThen

(* The connection ends.                                                     *)
LEMMA CutKeeps ==
  ASSUME FeedInv, Cut
  PROVE  FeedInv'
<1>1. FeedTypes
  BY DEF FeedInv
<1>2. PICK x : x = RelayItem("down", 0, 0)
  OBVIOUS
<1>3. x \in FeedItems /\ x.kind = "down"
  BY <1>2 DEF RelayItem, FeedItems
<1>4. PICK place, s, u, top, e :
         /\ place = ResumeFrom(conn.last) /\ s = Stream /\ u = Stream' /\ top = Published /\ e = peer.epoch
  OBVIOUS
<1>5. /\ conn' = ConnOff /\ resume' = place /\ outbox' = Append(outbox, x)
      /\ peer' = peer /\ feed' = feed /\ atStart' = atStart /\ unsaid' = unsaid
      /\ relayed' = relayed /\ relayEnv' = relayEnv
  BY <1>2, <1>4 DEF Cut
<1>6. place \in Places
  BY <1>1, <1>4, ResumeTyped
<1>7. /\ conn'.on = FALSE /\ conn'.last = Nowhere /\ conn'.queue = <<>> /\ conn'.channel = <<>>
      /\ Nowhere \in Places /\ Nowhere.cursor = 0 /\ conn' \in Connections
  BY <1>5 DEF ConnOff, Nowhere, Places, Connections
<1>8. s \in Seq(FeedItems) /\ relayed \in Seq(FeedItems) /\ outbox \in Seq(FeedItems)
  BY <1>1, <1>4, UnderWayTyped DEF FeedTypes
<1>9. /\ outbox' \in Seq(FeedItems) /\ u \in Seq(FeedItems) /\ Len(s) \in Nat /\ Len(u) = Len(s) + 1
      /\ u[Len(s) + 1] = x /\ \A i \in 1 .. Len(s) : u[i] = s[i]
  <2>1. PICK p, r : p = relayed /\ r = outbox
    OBVIOUS
  <2>2. p \in Seq(FeedItems) /\ r \in Seq(FeedItems) /\ x \in FeedItems
    BY <2>1, <1>3, <1>8
  <2>3. s = p \o r /\ u = p \o Append(r, x)
    BY <2>1, <1>4, <1>5 DEF Stream
  <2>4. /\ Append(r, x) \in Seq(FeedItems) /\ u \in Seq(FeedItems) /\ Len(s) \in Nat /\ Len(u) = Len(s) + 1
        /\ u[Len(s) + 1] = x /\ \A i \in 1 .. Len(s) : u[i] = s[i]
    BY <2>2, <2>3, Lengthened
  <2> QED
    BY <2>1, <2>4, <1>5
<1>10. FeedTypes'
  BY <1>1, <1>5, <1>6, <1>7, <1>9 DEF FeedTypes
<1>11. FeedIsTrue' /\ Published' = top /\ peer'.epoch = e
  BY <1>4, <1>5, FeedIsKept
<1>12. ResumeFrom(conn.last)' = place
  BY <1>5, <1>7 DEF ResumeFrom
<1>13. UnderWay' = <<>> /\ QueueIsTrue(<<>>, top, e, unsaid)
  <2>1. UnderWay' = <<>>
    BY <1>10, <1>7, ConcatEmptySeq, EmptySeq DEF UnderWay
  <2> QED
    BY <2>1, EmptySeq DEF QueueIsTrue
<1>14. LastIsTrue(s, place, conn.on, UnderWay, top, e, unsaid) /\ StreamIsExact(s, unsaid)
  BY <1>4 DEF FeedInv
<1>15. LastIsTrue(u, place, FALSE, <<>>, top, e, unsaid)
  <2>1. SUFFICES ASSUME NEW i \in 1 .. Len(u), IsLast(u, i)
        PROVE  /\ u[i].cursor > 0 /\ place = [cursor |-> u[i].cursor, epoch |-> u[i].epoch]
               /\ u[i].epoch <= e /\ (u[i].epoch = e => u[i].cursor <= top)
    BY DEF LastIsTrue
  <2>2. i \in 1 .. Len(s) /\ IsLast(s, i) /\ u[i] = s[i]
    <3>1. \A j \in 1 .. Len(u) : IsLast(u, j) =>
             \/ j = Len(s) + 1 /\ x.kind = "event"
             \/ j \in 1 .. Len(s) /\ IsLast(s, j) /\ x.kind = "down"
      <4>1. s \in Seq(FeedItems) /\ u \in Seq(FeedItems) /\ x \in FeedItems /\ Len(u) = Len(s) + 1
        BY <1>3, <1>8, <1>9
      <4>2. u[Len(s) + 1] = x /\ \A j \in 1 .. Len(s) : u[j] = s[j]
        BY <1>9
      <4> QED
        BY <4>1, <4>2, StreamEnds
    <3> QED
      BY <2>1, <3>1, <1>3, <1>9
  <2> QED
    BY <2>2, <1>14 DEF LastIsTrue
<1>16. StreamIsExact(u, unsaid)
  <2>1. \A i \in 1 .. Len(s) : IsLast(s, i) /\ x.kind = "event" => Succeeds(s[i], x, unsaid)
    BY <1>3
  <2> QED
    BY <2>1, <1>3, <1>8, <1>9, <1>14, StreamStaysExact
<1> QED
  BY <1>4, <1>5, <1>7, <1>10, <1>11, <1>12, <1>13, <1>15, <1>16, FeedInvThen

(* The peer starts again, perhaps in another epoch.                         *)
LEMMA PeerRestartsKeeps ==
  ASSUME FeedInv, PeerRestarts
  PROVE  FeedInv'
<1>1. FeedTypes
  BY DEF FeedInv
<1>2. PICK b : FeedFrom(b)
  BY DEF FeedInv, FeedIsTrue
<1>3. Published = Len(feed) - b /\ Published \in Nat /\ b \in Nat /\ Len(feed) \in Nat
  BY <1>1, <1>2, EventsCounted
<1>4. /\ ~conn.on /\ atStart' = Len(feed) /\ feed' = feed /\ conn' = conn /\ resume' = resume
      /\ outbox' = outbox /\ relayed' = relayed /\ relayEnv' = relayEnv
      /\ unsaid' = unsaid /\ (peer' = peer \/ peer' = [peer EXCEPT !.epoch = @ + 1])
  BY DEF PeerRestarts
<1>5. PICK place, s, top, e :
         /\ place = ResumeFrom(conn.last) /\ s = Stream /\ top = Published /\ e = peer.epoch
  OBVIOUS
<1>6. /\ UnderWay = <<>> /\ UnderWay' = <<>> /\ Stream' = s /\ ResumeFrom(conn.last)' = place
      /\ s \in Seq(FeedItems) /\ e \in Nat /\ top \in Nat
  BY <1>1, <1>3, <1>4, <1>5, UnderWayTyped DEF UnderWay, Stream, ResumeFrom
<1>7. LastIsTrue(s, place, conn.on, UnderWay, top, e, unsaid) /\ StreamIsExact(s, unsaid)
  BY <1>4, <1>5 DEF FeedInv
<1>8. ASSUME NEW i \in 1 .. Len(s), IsLast(s, i)
      PROVE  /\ s[i].cursor > 0 /\ place = [cursor |-> s[i].cursor, epoch |-> s[i].epoch]
             /\ s[i].epoch <= e /\ (s[i].epoch = e => s[i].cursor <= top) /\ s[i].epoch \in Nat
  <2>1. s[i].epoch \in Nat
    BY <1>6, ItemsTyped
  <2> QED
    BY <2>1, <1>7, <1>8 DEF LastIsTrue
<1>9. StreamIsExact(s, unsaid')
  BY <1>4, <1>7
<1>10. /\ b \in 0 .. Len(feed) /\ b <= atStart /\ atStart <= Len(feed) /\ \A n \in 1 .. b : feed[n].epoch < peer.epoch
       /\ \A n \in (b + 1) .. Len(feed) :
             feed[n].kind = "event" /\ feed[n].epoch = peer.epoch /\ feed[n].cursor = n - b
  BY <1>2 DEF FeedFrom
<1>11. \A t : QueueIsTrue(<<>>, t, peer'.epoch, unsaid')
  BY EmptySeq DEF QueueIsTrue
<1>12. CASE peer' = peer
  <2>1. FeedTypes' /\ Published' = top /\ peer'.epoch = e
    BY <1>1, <1>3, <1>4, <1>5, <1>12 DEF FeedTypes, Published
  <2>2. FeedFrom(b)'
    BY <1>3, <1>4, <1>10, <1>12 DEF FeedFrom
  <2>3. LastIsTrue(s, place, FALSE, <<>>, top, e, unsaid')
    BY <1>8 DEF LastIsTrue
  <2>4. FeedIsTrue' /\ conn'.on = FALSE
    BY <2>2, <1>1, <1>4 DEF FeedIsTrue, FeedTypes, Connections
  <2> QED
    BY <2>1, <2>3, <2>4, <1>6, <1>9, <1>11, FeedInvThen
<1>13. CASE peer' = [peer EXCEPT !.epoch = @ + 1]
  <2>1. peer' \in PeerTypes /\ peer'.epoch = e + 1
    <3>1. peer \in PeerTypes
      BY <1>1 DEF FeedTypes
    <3>2. peer' \in PeerTypes /\ peer'.epoch = peer.epoch + 1
      BY <3>1, <1>13 DEF PeerTypes
    <3> QED
      BY <3>2, <1>5
  <2>2. FeedTypes'
    BY <2>1, <1>1, <1>3, <1>4 DEF FeedTypes
  <2>3. FeedFrom(Len(feed))'
    <3>1. \A n \in 1 .. Len(feed) : feed[n].epoch \in Nat
      <4>1. feed \in Seq(FeedItems)
        BY <1>1 DEF FeedTypes
      <4> QED
        BY <4>1, ItemsTyped
    <3>2. \A n \in 1 .. Len(feed) : feed[n].epoch < e + 1
      <4> TAKE n \in 1 .. Len(feed)
      <4>1. n \in 1 .. b \/ n \in (b + 1) .. Len(feed)
        BY <1>3
      <4>2. feed[n].epoch < e \/ feed[n].epoch = e
        BY <4>1, <1>5, <1>10
      <4> QED
        BY <4>2, <3>1, <1>6
    <3>3. Len(feed) \in 0 .. Len(feed) /\ Len(feed) <= Len(feed)
      BY <1>3
    <3>4. \A n \in (Len(feed) + 1) .. Len(feed) : FALSE
      BY <1>3
    <3> QED
      BY <3>2, <3>3, <3>4, <2>1, <1>4 DEF FeedFrom
  <2>4. PICK t : t = Published'
    OBVIOUS
  <2>5. LastIsTrue(s, place, FALSE, <<>>, t, e + 1, unsaid')
    <3>1. SUFFICES ASSUME NEW i \in 1 .. Len(s), IsLast(s, i)
          PROVE  /\ s[i].cursor > 0 /\ place = [cursor |-> s[i].cursor, epoch |-> s[i].epoch]
                 /\ s[i].epoch <= e + 1 /\ (s[i].epoch = e + 1 => s[i].cursor <= t)
      BY DEF LastIsTrue
    <3>2. s[i].epoch <= e /\ s[i].epoch \in Nat
      BY <1>8, <3>1
    <3>3. s[i].epoch <= e + 1 /\ s[i].epoch # e + 1
      BY <3>2, <1>6
    <3> QED
      BY <3>1, <3>3, <1>8
  <2>6. FeedIsTrue' /\ conn'.on = FALSE
    BY <2>3, <1>1, <1>4 DEF FeedIsTrue, FeedTypes, Connections
  <2> QED
    BY <2>1, <2>2, <2>4, <2>5, <2>6, <1>6, <1>9, <1>11, FeedInvThen
<1> QED
  BY <1>4, <1>12, <1>13

(* What the reader's user takes leaves the stream.                          *)
LEMMA TakeRelayedKeeps ==
  ASSUME FeedInv, TakeRelayed
  PROVE  FeedInv'
<1>1. /\ FeedTypes /\ outbox # <<>> /\ relayed' = Append(relayed, Head(outbox)) /\ outbox' = Tail(outbox)
      /\ peer' = peer /\ feed' = feed /\ atStart' = atStart /\ unsaid' = unsaid /\ conn' = conn
      /\ resume' = resume /\ relayEnv' = relayEnv
  BY DEF FeedInv, TakeRelayed
<1>2. Stream' = Stream /\ relayed' \in Seq(FeedItems) /\ outbox' \in Seq(FeedItems)
  <2>1. relayed \in Seq(FeedItems) /\ outbox \in Seq(FeedItems)
    BY <1>1 DEF FeedTypes
  <2> QED
    BY <2>1, <1>1, Handed DEF Stream
<1>3. Published' = Published /\ FeedIsTrue'
  BY <1>1, FeedIsKept
<1>4. FeedTypes'
  BY <1>1, <1>2 DEF FeedTypes
<1>5. UnderWay' = UnderWay /\ ResumeFrom(conn.last)' = ResumeFrom(conn.last)
  BY <1>1 DEF UnderWay, ResumeFrom
<1>6. /\ QueueIsTrue(UnderWay, Published, peer.epoch, unsaid)
      /\ LastIsTrue(Stream, ResumeFrom(conn.last), conn.on, UnderWay, Published, peer.epoch, unsaid)
      /\ StreamIsExact(Stream, unsaid)
  BY DEF FeedInv
<1> QED
  BY <1>1, <1>2, <1>3, <1>4, <1>5, <1>6, FeedInvThen

(* In the beginning there are no events.                                    *)
LEMMA FeedInvInit == RelayInit => FeedInv
<1> SUFFICES ASSUME RelayInit PROVE FeedInv
  OBVIOUS
<1>1. /\ relayEnv \in RelayEnvironments /\ peer \in PeerTypes /\ feed = <<>> /\ atStart = 0 /\ conn = ConnOff
      /\ resume = Nowhere /\ outbox = <<>> /\ relayed = <<>>
  BY DEF RelayInit, Builds, Features, PeerTypes
<1>2. FeedTypes
  BY <1>1 DEF FeedTypes, Connections, ConnOff, Nowhere, Places, FeedItems
<1>3. FeedIsTrue
  <2>1. FeedFrom(0)
    <3>1. Len(feed) = 0
      BY <1>1, EmptySeq
    <3> QED
      BY <3>1, <1>1 DEF FeedFrom
  <2> QED
    BY <2>1 DEF FeedIsTrue
<1>4. Stream = <<>> /\ UnderWay = <<>>
  <2>1. <<>> \in Seq(FeedItems)
    BY EmptySeq
  <2> QED
    BY <1>1, <2>1, ConcatEmptySeq DEF Stream, UnderWay, ConnOff
<1>5. /\ QueueIsTrue(<<>>, Published, peer.epoch, unsaid) /\ StreamIsExact(<<>>, unsaid)
      /\ LastIsTrue(<<>>, ResumeFrom(conn.last), conn.on, <<>>, Published, peer.epoch, unsaid)
  BY EmptySeq DEF QueueIsTrue, LastIsTrue, StreamIsExact
<1> QED
  BY <1>2, <1>3, <1>4, <1>5 DEF FeedInv

(* Every step keeps the invariant: the calls and the refreshes do not touch *)
(* the events, and a new build or a new session leaves the epoch.           *)
LEMMA FeedInvNext == FeedInv /\ [RelayNext]_relayVars => FeedInv'
<1> SUFFICES ASSUME FeedInv, [RelayNext]_relayVars PROVE FeedInv'
  OBVIOUS
<1>1. peer \in PeerTypes
  BY DEF FeedInv, FeedTypes
<1>2. CASE Upgrade \/ Downgrade \/ Reuse
  <2>1. relayEnv' = relayEnv /\ UNCHANGED <<feed, atStart, conn, unsaid, resume, outbox, relayed>>
    BY <1>2 DEF Upgrade, Downgrade, Reuse, relayStreamVars
  <2>2. peer' \in PeerTypes /\ peer'.epoch = peer.epoch
    <3>1. CASE Upgrade
      BY <3>1, <1>1 DEF Upgrade, PeerTypes, Features
    <3>2. CASE Downgrade
      BY <3>2, <1>1 DEF Downgrade, PeerTypes
    <3>3. CASE Reuse
      BY <3>3, <1>1 DEF Reuse, PeerTypes
    <3> QED
      BY <1>2, <3>1, <3>2, <3>3
  <2> QED
    BY <2>1, <2>2, FeedStands
<1>3. CASE UNCHANGED <<relayEnv, peer, relayStreamVars>>
  BY <1>1, <1>3, FeedStands DEF relayStreamVars
<1>4. CASE PeerReceives \/ PeerRefuses
  BY <1>3, <1>4 DEF PeerReceives, PeerRefuses
<1>5. ASSUME NEW op, NEW pin, NEW sent, NEW wants, NEW key, NEW needs, Relay(op, pin, sent, wants, key, needs)
      PROVE  FeedInv'
  BY <1>3, <1>5 DEF Relay
<1>6. CASE CreateCall \/ DiscardCall \/ ListCall
  <2>1. CASE CreateCall
    BY <1>5, <2>1 DEF CreateCall
  <2>2. CASE DiscardCall
    BY <1>5, <2>2 DEF DiscardCall
  <2>3. CASE ListCall
    BY <1>5, <2>3 DEF ListCall
  <2> QED
    BY <1>6, <2>1, <2>2, <2>3
<1>7. CASE SendCall \/ InterruptCall \/ RespondCall \/ StateCall \/ ListClosedCall
  <2>1. UNCHANGED <<relayEnv, peer, relayStreamVars>>
    BY <1>7 DEF SendCall, InterruptCall, RespondCall, StateCall, ListClosedCall, Relay
  <2> QED
    BY <1>3, <2>1
<1>8. CASE CloseCall \/ RenameCall \/ KeysCall \/ LabelsCall
  <2>1. UNCHANGED <<relayEnv, peer, relayStreamVars>>
    BY <1>8 DEF CloseCall, RenameCall, KeysCall, LabelsCall, Relay
  <2> QED
    BY <1>3, <2>1
<1>9. CASE NotDialled \/ Confirmed \/ AskHealth \/ HealthAnswers \/ HealthFails \/ Dispatch \/ Replied \/ NoAnswer
  BY <1>3, <1>9 DEF NotDialled, Confirmed, AskHealth, HealthAnswers, HealthFails, Dispatch, Replied, NoAnswer
<1>10. CASE RefreshAsks \/ RefreshLearns \/ RefreshFails \/ Ages
  BY <1>3, <1>10 DEF RefreshAsks, RefreshLearns, RefreshFails, Ages
<1>11. CASE UNCHANGED relayVars
  BY <1>3, <1>11 DEF relayVars
<1> QED
  BY <1>2, <1>4, <1>6, <1>7, <1>8, <1>9, <1>10, <1>11, PeerPublishesKeeps, PeerStreamsKeeps, PeerRestartsKeeps,
     ConnectKeeps, ConsumeKeeps, CutKeeps, TakeRelayedKeeps DEF RelayNext

(* The events of a peer come to whoever reads its stream in order and each  *)
(* once, and where one is missing there is a resync or the hub of the peer  *)
(* left it out without a word: for any number of events, lost connections   *)
(* and restarts, any retention of the peer and any channels.                *)
THEOREM PeerEventsComeExactly == RelaySpec => []PeerEventsAreExact
<1>1. FeedInv => PeerEventsAreExact
  <2> SUFFICES ASSUME FeedInv, NEW i \in DOMAIN relayed, NEW j \in DOMAIN relayed,
                      i < j, relayed[i].kind = "event", relayed[j].kind = "event",
                      \A k \in (i + 1) .. (j - 1) : relayed[k].kind = "down"
               PROVE  Succeeds(relayed[i], relayed[j], unsaid)
    BY DEF PeerEventsAreExact, Succeeds
  <2>1. relayed \in Seq(FeedItems) /\ outbox \in Seq(FeedItems)
    BY DEF FeedInv, FeedTypes
  <2>2. DOMAIN relayed = 1 .. Len(relayed) /\ Len(relayed) \in Nat /\ Len(outbox) \in Nat
    BY <2>1, LenProperties
  <2>3. Len(Stream) = Len(relayed) + Len(outbox) /\ \A k \in 1 .. Len(relayed) : Stream[k] = relayed[k]
    <3>1. /\ Len(relayed \o outbox) = Len(relayed) + Len(outbox)
          /\ \A k \in 1 .. Len(relayed) + Len(outbox) : (relayed \o outbox)[k] =
                IF k <= Len(relayed) THEN relayed[k] ELSE outbox[k - Len(relayed)]
      BY <2>1, ConcatProperties
    <3> QED
      BY <2>2, <3>1 DEF Stream
  <2>4. i \in 1 .. Len(Stream) /\ j \in 1 .. Len(Stream) /\ Stream[i] = relayed[i] /\ Stream[j] = relayed[j]
    BY <2>2, <2>3
  <2>5. \A k \in (i + 1) .. (j - 1) : Stream[k].kind = "down"
    <3>1. \A k \in (i + 1) .. (j - 1) : k \in 1 .. Len(relayed)
      BY <2>2
    <3> QED
      BY <2>3, <3>1
  <2> QED
    BY <2>4, <2>5 DEF FeedInv, StreamIsExact
<1> QED
  BY <1>1, FeedInvInit, FeedInvNext, PTL DEF RelaySpec
=============================================================================
