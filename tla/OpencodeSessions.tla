---------------------------- MODULE OpencodeSessions ---------------------------
(***************************************************************************)
(* The driver of opencode sessions (drivers/opencode): one local server    *)
(* that keeps the sessions and answers requests about them, and a driver   *)
(* that remembers which of them it has seen, for the server's own list is  *)
(* not to be relied on.  A call makes one or more requests; what the       *)
(* server does and what the driver makes of its answer are two steps, and  *)
(* the steps of several calls interleave.                                  *)
(***************************************************************************)
EXTENDS Naturals, Sequences, FiniteSets

CONSTANTS
    OpencodeKeys,            \* the idempotency keys of creates
    OpencodeEnvironments     \* what may happen, a set of records

(***************************************************************************)
(*   may       a request does not reach the server ("down"), or its answer *)
(*             does not come back ("lost"); another client deletes a       *)
(*             session ("other"); ten minutes pass ("late"); two calls     *)
(*             about a session are under way at once ("meanwhile"), two    *)
(*             creates with one key are ("twice"); the daemon restarts     *)
(*             ("restart")                                                 *)
(*   ops       the calls                                                   *)
(*   calls, sessions   bounds                                              *)
(***************************************************************************)
ASSUME OpencodeAssumption ==
    \A e \in OpencodeEnvironments :
       /\ e.may \subseteq {"down", "lost", "other", "late", "meanwhile", "twice", "restart"}
       /\ e.ops \subseteq {"create", "send", "state", "interrupt", "close", "list"}
       /\ {e.calls, e.sessions} \subseteq Nat

VARIABLES
    ocEnv,      \* the environment of this behaviour
    server,     \* the sessions of the server, in the order of their creation
    seen,       \* Driver.seen: the sessions this driver knows
    idem,       \* Driver.idem: the session of each key, 0 is none
    ocCalls     \* the calls, and what was so at some time while each was under way

ocVars == <<ocEnv, server, seen, idem, ocCalls>>

OcMay(what) == what \in ocEnv.may
OcIds == 1 .. ocEnv.sessions
OcStarted == DOMAIN ocCalls
Over(c) == ocCalls[c].at = "done"

(* What a session was at a time, for the ghost part of a call.             *)
Was(s, i) == IF i \in DOMAIN s THEN s[i].is ELSE "none"

(* Every call under way has now also seen what the sessions are in `s'.    *)
Watched(calls, s) ==
    [c \in DOMAIN calls |-> IF calls[c].at = "done" THEN calls[c]
        ELSE [calls[c] EXCEPT !.saw = [i \in DOMAIN @ |-> @[i] \cup {Was(s, i)}]]]

ServerBecomes(s) == server' = s /\ ocCalls' = Watched(ocCalls, s)

OpencodeInit ==
    /\ ocEnv \in OpencodeEnvironments
    /\ server = <<>> /\ seen = {} /\ idem = [k \in OpencodeKeys |-> 0] /\ ocCalls = <<>>

-----------------------------------------------------------------------------
(* The server *)

Busy == {"busy", "retry"}

(* A turn goes on, ends well, or ends with an error of the provider.       *)
TurnMoves ==
    \E i \in DOMAIN server :
       /\ server[i].is \in Busy
       /\ \E next \in (Busy \cup {"idle", "failed"}) \ {server[i].is} :
             ServerBecomes([server EXCEPT ![i].is = next])
       /\ UNCHANGED <<ocEnv, seen, idem>>

DeletedByAnother ==
    /\ OcMay("other")
    /\ \E i \in DOMAIN server :
          server[i].is # "gone" /\ ServerBecomes([server EXCEPT ![i].is = "gone"])
    /\ UNCHANGED <<ocEnv, seen, idem>>

Exists(i) == i \in DOMAIN server /\ server[i].is # "gone"

(* What the server does for a request: its sessions after it, and its      *)
(* answer.  Sessions without a turn are not in the status map, and a turn  *)
(* that failed is only on the record of its message.                       *)
Served(c) ==
    LET call == ocCalls[c]  i == call.id
        Ok(s, body) == [sessions |-> s, reply |-> "ok", body |-> body]
        NotFound == [sessions |-> server, reply |-> "404", body |-> {}]
    IN IF call.at = "post" THEN Ok(Append(server, [is |-> "idle", key |-> call.key, prompts |-> {}]),
                                   {Len(server) + 1})
       ELSE IF call.at = "status"
       THEN Ok(server, {<<j, server[j].is>> : j \in {k \in DOMAIN server : server[k].is \in Busy}})
       ELSE IF ~Exists(i) THEN NotFound
       ELSE CASE call.at = "prompt" -> Ok([server EXCEPT ![i] = [server[i] EXCEPT !.is = "busy", !.prompts = @ \cup {c}]], {})
              [] call.at = "abort"  -> Ok([server EXCEPT ![i].is = IF @ \in Busy THEN "idle" ELSE @], {})
              [] call.at = "delete" -> Ok([server EXCEPT ![i].is = "gone"], {})
              [] call.at = "message" -> Ok(server, IF server[i].is = "failed" THEN {"failed"} ELSE {})
              [] OTHER              -> Ok(server, {})

(* do: one request of a call.  It may fail before the server or after it.  *)
Request(c) ==
    /\ ocCalls[c].at \notin {"new", "done"} /\ ocCalls[c].reply = "none"
    /\ ocCalls[c].at = "post" => Len(server) < ocEnv.sessions
    /\ LET served == Served(c)
           After(s, reply, body) ==
              server' = s /\ ocCalls' = [Watched(ocCalls, s) EXCEPT ![c] = [@ EXCEPT !.reply = reply, !.body = body]]
       IN \/ After(served.sessions, served.reply, served.body)
          \/ OcMay("lost") /\ After(served.sessions, "unreachable", {})
          \/ OcMay("down") /\ After(server, "unreachable", {})
    /\ UNCHANGED <<ocEnv, seen, idem>>

-----------------------------------------------------------------------------
(* The calls *)

OcCall(op, i, k) ==
    [op |-> op, id |-> i, key |-> k, at |-> "new", reply |-> "none", body |-> {}, answer |-> "none",
     shown |-> <<>>, failed |-> FALSE, known |-> {},
     saw |-> [j \in CASE op = "state" -> {i} [] op = "list" -> OcIds [] OTHER -> {} |-> {Was(server, j)}],
     \* the sessions that a close had ended before
     over |-> IF op = "list" THEN {ocCalls[d].id : d \in {e \in OcStarted : ocCalls[e].answer = "closed"}} ELSE {}]

OpencodeCallStarts ==
    /\ Len(ocCalls) < ocEnv.calls
    /\ \E op \in ocEnv.ops : \E i \in 0 .. Len(server) : \E k \in OpencodeKeys :
          /\ (op \in {"create", "list"}) = (i = 0)
          /\ op # "create" => k = CHOOSE x \in OpencodeKeys : TRUE
          /\ \A c \in OcStarted : ~Over(c) =>
                IF op = "create" /\ ocCalls[c].op = "create"
                THEN ocCalls[c].key = k => OcMay("twice")
                ELSE (ocCalls[c].id = i \/ "list" \in {op, ocCalls[c].op}) => OcMay("meanwhile")
          /\ ocCalls' = Append(ocCalls, OcCall(op, i, k))
    /\ UNCHANGED <<ocEnv, server, seen, idem>>

(* The call goes on to the request `at'; what it found stays.              *)
GoneOn(call, at) == [call EXCEPT !.at = at, !.reply = "none", !.body = {}]
Goes(c, at) == ocCalls' = [ocCalls EXCEPT ![c] = GoneOn(@, at)]

(* The call is answered.                                                   *)
CallAnswered(call, answer) ==
    [call EXCEPT !.at = "done", !.reply = "none", !.body = {}, !.known = {}, !.answer = answer]
Answers(c, answer) == ocCalls' = [ocCalls EXCEPT ![c] = CallAnswered(@, answer)]

(* The first thing a call does: a create looks for its key, List takes the *)
(* sessions the driver knows, and the others only know those too.          *)
Starts(c) ==
    LET call == ocCalls[c] IN
    /\ call.at = "new"
    /\ CASE call.op = "create" ->
              IF idem[call.key] # 0
              THEN ocCalls' = [ocCalls EXCEPT ![c] = [CallAnswered(@, "created") EXCEPT !.id = idem[call.key]]]
              ELSE Goes(c, "post")
         [] call.op = "list" -> ocCalls' = [ocCalls EXCEPT ![c] = [@ EXCEPT !.at = "status", !.known = seen]]
         [] OTHER ->
              IF call.id \notin seen THEN Answers(c, "no such session")
              ELSE Goes(c, CASE call.op = "send" -> "prompt" [] call.op = "state" -> "status"
                               [] call.op = "interrupt" -> "abort" [] OTHER -> "get")
    /\ UNCHANGED <<ocEnv, server, seen, idem>>

(* Create: the session is known and its key is too, once the server has    *)
(* answered and the first prompt was sent or was not.                      *)
CreateTakes(c) ==
    LET call == ocCalls[c] IN
    /\ call.op = "create" /\ call.reply # "none"
    /\ CASE call.at = "post" /\ call.reply = "ok" ->
              LET i == CHOOSE x \in call.body : TRUE IN
              /\ seen' = seen \cup {i}
              /\ \E prompt \in BOOLEAN :
                    IF prompt
                    THEN /\ ocCalls' = [ocCalls EXCEPT ![c] = [GoneOn(@, "prompt") EXCEPT !.id = i]]
                         /\ UNCHANGED idem
                    ELSE /\ ocCalls' = [ocCalls EXCEPT ![c] = [CallAnswered(@, "created") EXCEPT !.id = i]]
                         /\ idem' = [idem EXCEPT ![call.key] = i]
         [] call.at = "post" /\ call.reply # "ok" -> Answers(c, "error") /\ UNCHANGED <<seen, idem>>
         [] OTHER ->
              /\ idem' = [idem EXCEPT ![call.key] = call.id]
              /\ Answers(c, IF call.reply = "ok" THEN "created" ELSE "prompt failed")
              /\ UNCHANGED seen
    /\ UNCHANGED <<ocEnv, server>>

SendTakes(c) ==
    LET call == ocCalls[c] IN
    /\ call.op \in {"send", "interrupt"} /\ call.reply # "none"
    /\ Answers(c, CASE call.reply = "404" -> "no such session" [] call.reply = "ok" -> "queued" [] OTHER -> "error")
    /\ UNCHANGED <<ocEnv, server, seen, idem>>

(* classify: in a map that was read, a session that is there works and one *)
(* that is not there is idle.                                              *)
classify(body, i) == IF \E x \in Busy : <<i, x>> \in body THEN "working" ELSE "idle"

(* State: a session that is not in the map is asked for by its id, and     *)
(* what its last message says is added to "idle" if it can be read.        *)
StateTakes(c) ==
    LET call == ocCalls[c] IN
    /\ call.op = "state" /\ call.reply # "none"
    /\ IF call.at = "message"
       THEN /\ ocCalls' = [ocCalls EXCEPT ![c] = [CallAnswered(@, "idle") EXCEPT !.failed = call.body = {"failed"}]]
            /\ UNCHANGED seen
       ELSE IF call.at = "get" /\ call.reply = "ok"
       THEN Goes(c, "message") /\ seen' = seen \cup {call.id}
       ELSE /\ UNCHANGED seen
            /\ IF call.at = "get" /\ call.reply = "404" THEN Answers(c, "dead")
               ELSE IF call.reply # "ok" THEN Answers(c, "error")
               ELSE IF classify(call.body, call.id) = "working" THEN Answers(c, "working") ELSE Goes(c, "get")
    /\ UNCHANGED <<ocEnv, server, idem>>

(* Close: looks at the session first, and forgets it only when the server  *)
(* has said that it is gone.                                               *)
CloseTakes(c) ==
    LET call == ocCalls[c] IN
    /\ call.op = "close" /\ call.reply # "none"
    /\ IF call.reply = "404" \/ (call.reply = "ok" /\ call.at = "delete")
       THEN seen' = seen \ {call.id} ELSE UNCHANGED seen
    /\ CASE call.reply = "404" -> Answers(c, "no such session")
         [] call.reply = "ok" /\ call.at = "get" -> Goes(c, "delete")
         [] call.reply = "ok" /\ call.at = "delete" -> Answers(c, "closed")
         [] OTHER -> Answers(c, "error")
    /\ UNCHANGED <<ocEnv, server, idem>>

(* List: a map that could not be read makes the state of every session     *)
(* unknown, and the source degraded.                                       *)
ShownAnyway(call) == [i \in call.known |-> classify(call.body, i)]
Shown(call) == [i \in call.known |-> IF call.reply # "ok" THEN "unknown" ELSE classify(call.body, i)]

ListTakes(c) ==
    LET call == ocCalls[c] IN
    /\ call.op = "list" /\ call.reply # "none"
    /\ ocCalls' = [ocCalls EXCEPT ![c] =
          [CallAnswered(@, IF call.reply = "ok" THEN "ok" ELSE "degraded") EXCEPT !.shown = Shown(call)]]
    /\ UNCHANGED <<ocEnv, server, seen, idem>>

(* A key is remembered for ten minutes.                                    *)
KeyExpires ==
    /\ OcMay("late")
    /\ \E k \in OpencodeKeys : idem[k] # 0 /\ idem' = [idem EXCEPT ![k] = 0]
    /\ UNCHANGED <<ocEnv, server, seen, ocCalls>>

(* What the driver knows is in its memory only.                            *)
OpencodeRestart ==
    /\ OcMay("restart") /\ (seen # {} \/ \E k \in OpencodeKeys : idem[k] # 0)
    /\ seen' = {} /\ idem' = [k \in OpencodeKeys |-> 0]
    /\ ocCalls' = [c \in OcStarted |-> IF Over(c) THEN ocCalls[c] ELSE CallAnswered(ocCalls[c], "cut")]
    /\ UNCHANGED <<ocEnv, server>>

OpencodeNext ==
    \/ TurnMoves \/ DeletedByAnother
    \/ OpencodeCallStarts
    \/ \E c \in OcStarted : Starts(c) \/ Request(c)
    \/ \E c \in OcStarted : CreateTakes(c) \/ SendTakes(c) \/ StateTakes(c) \/ CloseTakes(c) \/ ListTakes(c)
    \/ KeyExpires \/ OpencodeRestart

OpencodeSpec == OpencodeInit /\ [][OpencodeNext]_ocVars

-----------------------------------------------------------------------------
(* Properties *)

SessionStates == Busy \cup {"idle", "failed", "gone"}
OcSessions == [is : SessionStates, key : OpencodeKeys, prompts : SUBSET Nat]
OcOps == {"create", "send", "state", "interrupt", "close", "list"}
OcSteps == {"new", "post", "prompt", "status", "get", "message", "abort", "delete", "done"}
OcReplies == {"none", "ok", "404", "unreachable"}
OcBodies == SUBSET (Nat \cup (Nat \X Busy) \cup {"failed"})
OcAnswers == {"none", "created", "prompt failed", "no such session", "error", "queued", "dead",
              "working", "idle", "closed", "ok", "degraded", "cut"}
OcShows == UNION {[S -> {"idle", "working", "unknown"}] : S \in SUBSET Nat}
Histories == UNION {[S -> SUBSET (SessionStates \cup {"none"})] : S \in SUBSET Nat}
OcCallTypes ==
    [op : OcOps, id : Nat, key : OpencodeKeys, at : OcSteps, reply : OcReplies, body : OcBodies,
     answer : OcAnswers, shown : OcShows, failed : BOOLEAN, known : SUBSET Nat, saw : Histories,
     over : SUBSET Nat]

(* The types of the variables.                                             *)
OpencodeTypeOK ==
    /\ ocEnv \in OpencodeEnvironments
    /\ server \in Seq(OcSessions) /\ Len(server) <= ocEnv.sessions
    /\ seen \subseteq Nat
    /\ idem \in [OpencodeKeys -> Nat]
    /\ ocCalls \in Seq(OcCallTypes)

(* A state is one the session had at some time while the call was under    *)
(* way: a read that failed is never an idle session, a turn that the       *)
(* provider refused is told when it can be read, and "dead" is said of no  *)
(* session that is there.                                                  *)
StatesAreTrue ==
    \A c \in OcStarted : LET call == ocCalls[c] IN call.op = "state" =>
       /\ call.answer = "working" => call.saw[call.id] \cap Busy # {}
       /\ call.answer = "idle" => call.saw[call.id] \cap {"idle", "failed"} # {}
       /\ call.failed => "failed" \in call.saw[call.id]
       /\ call.answer = "dead" => "gone" \in call.saw[call.id]

(* A listing says of a session only what it was while the listing was      *)
(* made; and a session that a close had ended before is not in it.         *)
ListingsAreTrue ==
    \A c \in OcStarted : \A i \in DOMAIN ocCalls[c].shown :
       /\ i \notin ocCalls[c].over
       /\ ocCalls[c].shown[i] = "idle" => ocCalls[c].saw[i] \cap {"idle", "failed"} # {}
       /\ ocCalls[c].shown[i] = "working" => ocCalls[c].saw[i] \cap Busy # {}

(* What a call says it did was done, and one that says that it found no    *)
(* session has done nothing.                                               *)
DoneAsTold ==
    \A c \in OcStarted : LET call == ocCalls[c] IN
       /\ call.op = "send" /\ call.answer = "queued" => c \in server[call.id].prompts
       /\ call.op = "send" /\ call.answer = "no such session" => \A i \in DOMAIN server : c \notin server[i].prompts
       /\ call.answer = "closed" => server[call.id].is = "gone"
       /\ call.answer = "created" => server[call.id].key = call.key

(* Creates with one key start one session.                                 *)
OneSessionPerKey ==
    \A i, j \in DOMAIN server : server[i].key = server[j].key => i = j

(* A listing is right about what ended when the driver is told of every    *)
(* end before it lists; a key is kept while creates with it do not overlap *)
(* and the driver is told of every session it made and remembers it.       *)
EndsAreTold == ocEnv.may \cap {"lost", "other", "meanwhile"} = {}
KeysAreKept == ocEnv.may \cap {"lost", "twice", "late", "restart"} = {}

(* What a call of the opencode driver answers is so (ops.go), its listings *)
(* are right where it is told of ends, and its creates are made once where *)
(* keys are kept.                                                          *)
OpencodeAnswersAreTrue ==
    /\ StatesAreTrue /\ DoneAsTold
    /\ EndsAreTold => ListingsAreTrue
    /\ KeysAreKept => OneSessionPerKey
=============================================================================
